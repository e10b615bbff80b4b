--------------------------- MODULE ResearchProofs ---------------------------
(* Proofs about what research works with: the days that HistoryImport publishes,
   for any symbols, dates, parameters, importers and attempts, the artifacts of
   ResearchArtifacts that are made one from another, for any workers, contents and
   bounds, the folds of TemporalSplits and the replay of Backtest, for any rows, the labels
   of ExecutionLabels and the rows of Features, for any market, and the bars of TradeBars and
   the rows and labels of PriceResearch, for any trades. *)
EXTENDS HistoryImport, ResearchArtifacts, TemporalSplits, Backtest, Features, PriceResearch,
        FiniteSetTheorems, RecursionLemmas

(* A day of HistoryImport appears only whole.  The inductive invariant says that a
   single importer works, and what it knows of its staging directory at each place. *)

Staged == {"mkdir", "symbol", "download", "publish"}

\* Symbols are taken in their order: those behind are sound.
SoundSoFar(p) == \A i \in 1 .. task[p].next - 1 : Stage(p).artifacts[Symbols[i]] = "sound"

Progress(p) ==
  /\ at[p] # "idle" => guard = p /\ task[p] \in Tasks /\ task[p].date <= task[p].last
  /\ at[p] \in {"day", "mkdir"} => task[p].next = 1
  /\ at[p] = "download" => task[p].next <= Len(Symbols)
  /\ at[p] = "publish" => task[p].next > Len(Symbols)
  /\ at[p] \in Staged => Stage(p) \in Directories
  /\ at[p] \in Staged \ {"mkdir"} => Stage(p).parameters /\ SoundSoFar(p)
  /\ at[p] \in Staged \ {"download"} => ~Stage(p).temporary

CatalogTrue == \A d \in Dates : listed[d] # None => published[d] # None /\ published[d].by = listed[d]

ImportInv == ImportTypeOK /\ (\A p \in Importers : Progress(p)) /\ CatalogTrue

-----------------------------------------------------------------------------
(* Types *)

\* The first state: nobody works, nothing is there.
LEMMA InitHolds == ImportInit => ImportInv
<1>. SUFFICES ASSUME ImportInit PROVE ImportInv
  OBVIOUS
<1>1. ImportTypeOK
  BY DEF ImportInit, ImportTypeOK
<1>2. \A p \in Importers : at[p] = "idle"
  BY DEF ImportInit
<1>3. \A p \in Importers : Progress(p)
  BY <1>2 DEF Progress, Staged
<1>4. CatalogTrue
  BY DEF ImportInit, CatalogTrue
<1>. QED BY <1>1, <1>3, <1>4 DEF ImportInv

\* A directory written to a task's place in staging is there, the others stay.
LEMMA StageWritten ==
  ASSUME ImportTypeOK, NEW p \in Importers, task[p] \in Tasks,
         NEW dir \in Directories \cup {None}, SetStage(p, dir)
  PROVE  /\ staging' \in [Dates -> [Parameters -> Directories \cup {None}]]
         /\ staging'[task[p].date][task[p].by] = dir
<1>1. task[p].date \in Dates /\ task[p].by \in Parameters
  BY DEF Tasks
<1>. QED BY <1>1 DEF ImportTypeOK, SetStage

\* Cleaning a directory touches nothing but the temporary ones.
LEMMA CleanedDirectory ==
  ASSUME NEW dir \in Directories
  PROVE  /\ Cleaned(dir) \in Directories /\ ~Cleaned(dir).temporary
         /\ Cleaned(dir).parameters = dir.parameters /\ Cleaned(dir).artifacts = dir.artifacts
BY DEF Cleaned, Directories

\* When the only importer that works moves, all others stay idle.
LEMMA OthersIdle ==
  ASSUME ImportInv, NEW p \in Importers, at[p] # "idle" \/ guard = None,
         NEW place, at' = [at EXCEPT ![p] = place]
  PROVE  \A q \in Importers \ {p} : at[q] = "idle" /\ at'[q] = "idle" /\ Progress(q)'
<1>. SUFFICES ASSUME NEW q \in Importers \ {p}
              PROVE at[q] = "idle" /\ at'[q] = "idle" /\ Progress(q)'
  OBVIOUS
<1>1. at[q] = "idle"
  BY AbsentAssumption DEF ImportInv, Progress
<1>2. at'[q] = "idle"
  BY <1>1 DEF ImportInv, ImportTypeOK
<1>. QED BY <1>1, <1>2 DEF Progress, Staged
-----------------------------------------------------------------------------
(* Every step keeps the invariant *)

\* It is enough to follow the importer that moves.
LEMMA OwnProgress ==
  ASSUME ImportInv, NEW p \in Importers, at[p] # "idle" \/ guard = None,
         NEW place, at' = [at EXCEPT ![p] = place],
         ImportTypeOK', Progress(p)', CatalogTrue'
  PROVE  ImportInv'
<1>1. \A q \in Importers \ {p} : Progress(q)'
  BY OthersIdle
<1>. QED BY <1>1 DEF ImportInv

\* What an importer that fails or ends leaves behind.
LEMMA EndHolds ==
  ASSUME ImportInv, NEW p \in Importers, at[p] # "idle",
         EndImport(p), guard' \in Importers \cup {None},
         staging' \in [Dates -> [Parameters -> Directories \cup {None}]],
         UNCHANGED published,
         listed' = listed \/ listed' = Catalogue
  PROVE  ImportInv'
<1>1. at' = [at EXCEPT ![p] = "idle"] /\ task' = [task EXCEPT ![p] = None]
  BY DEF EndImport, Move, SetTask
<1>2. /\ at' \in [Importers -> {"idle", "day", "mkdir", "symbol", "download", "publish", "catalog"}]
      /\ task' \in [Importers -> Tasks \cup {None}] /\ at'[p] = "idle"
  BY <1>1 DEF ImportInv, ImportTypeOK
<1>3. listed' \in [Dates -> Parameters \cup {None}] /\ CatalogTrue'
  <2>1. CASE listed' = listed
    BY <2>1 DEF ImportInv, ImportTypeOK, CatalogTrue
  <2>2. CASE listed' = Catalogue
    BY <2>2 DEF ImportInv, ImportTypeOK, CatalogTrue, Catalogue, DayDirectories
  <2>. QED BY <2>1, <2>2
<1>4. ImportTypeOK'
  BY <1>2, <1>3 DEF ImportInv, ImportTypeOK
<1>5. Progress(p)'
  BY <1>2 DEF Progress, Staged
<1>. QED BY <1>1, <1>3, <1>4, <1>5, OwnProgress

\* Starting, or giving up what a day has.
LEMMA StartHolds ==
  ASSUME ImportInv, NEW p \in Importers, StartImport(p)
  PROVE  ImportInv'
<1>1. PICK first \in Dates, last \in Dates, f \in Parameters :
        first <= last /\ task' = [task EXCEPT ![p] =
          [date |-> first, last |-> last, by |-> f, next |-> 1, attempt |-> 1]]
  BY DEF StartImport, SetTask
<1>2. [date |-> first, last |-> last, by |-> f, next |-> 1, attempt |-> 1] \in Tasks
  BY ImportAssumption DEF Tasks
<1>3. at' = [at EXCEPT ![p] = "day"] /\ guard = None /\ guard' = p
  BY DEF StartImport, Move
<1>4. at'[p] = "day" /\ task'[p] \in Tasks /\ task'[p].next = 1 /\ task'[p].date <= task'[p].last
  BY <1>1, <1>2, <1>3 DEF ImportInv, ImportTypeOK
<1>5. ImportTypeOK'
  BY <1>1, <1>2, <1>3 DEF StartImport, ImportInv, ImportTypeOK
<1>6. Progress(p)'
  BY <1>3, <1>4 DEF Progress, Staged
<1>7. CatalogTrue'
  BY DEF StartImport, ImportInv, CatalogTrue
<1>. QED BY <1>3, <1>5, <1>6, <1>7, OwnProgress

\* An importer that ends, however it does.
LEMMA EndsHold ==
  ASSUME ImportInv, NEW p \in Importers, Kill(p) \/ DiskGuard(p) \/ GiveUpDownload(p)
  PROVE  ImportInv'
<1>1. CASE Kill(p)
  BY <1>1, EndHolds DEF Kill, ImportInv, ImportTypeOK
<1>2. CASE DiskGuard(p)
  BY <1>2, EndHolds DEF DiskGuard, FailImport, ReleaseGuard, ImportInv, ImportTypeOK
<1>3. CASE GiveUpDownload(p)
  <2>1. task[p] \in Tasks /\ Stage(p) \in Directories
    BY <1>3 DEF GiveUpDownload, ImportInv, Progress, Staged
  <2>2. SetStage(p, Cleaned(Stage(p))) /\ Cleaned(Stage(p)) \in Directories \cup {None}
    BY <1>3, <2>1, CleanedDirectory DEF GiveUpDownload
  <2>3. staging' \in [Dates -> [Parameters -> Directories \cup {None}]]
    BY <2>1, <2>2, StageWritten DEF ImportInv
  <2>. QED BY <1>3, <2>3, EndHolds DEF GiveUpDownload, FailImport, ReleaseGuard
<1>. QED BY <1>1, <1>2, <1>3

\* The staging directory after a step of its importer, which stays where it belongs.
LEMMA StageStep ==
  ASSUME ImportInv, NEW p \in Importers, at[p] # "idle", task[p] \in Tasks,
         NEW place \in {"mkdir", "symbol", "download", "publish"},
         at' = [at EXCEPT ![p] = place],
         NEW dir \in Directories,
         SetStage(p, dir) \/ (UNCHANGED staging /\ Stage(p) = dir),
         NEW new \in Tasks, task' = [task EXCEPT ![p] = new],
         new.date = task[p].date, new.last = task[p].last, new.by = task[p].by,
         place = "mkdir" => new.next = 1,
         place = "download" => new.next <= Len(Symbols),
         place = "publish" => new.next > Len(Symbols),
         place # "mkdir" => dir.parameters,
         place # "mkdir" => \A i \in 1 .. new.next - 1 : dir.artifacts[Symbols[i]] = "sound",
         place # "download" => ~dir.temporary,
         UNCHANGED <<guard, published, listed>>
  PROVE  ImportInv'
<1>1. /\ staging' \in [Dates -> [Parameters -> Directories \cup {None}]]
      /\ staging'[task[p].date][task[p].by] = dir
  BY StageWritten DEF ImportInv, ImportTypeOK, Stage
<1>2. at'[p] = place /\ task'[p] = new
  BY DEF ImportInv, ImportTypeOK
<1>3. ImportTypeOK'
  BY <1>1 DEF ImportInv, ImportTypeOK
<1>4. Stage(p)' = dir
  BY <1>1, <1>2 DEF Stage
<1>5. guard' = p /\ new.date <= new.last
  BY DEF ImportInv, Progress
<1>6. Progress(p)'
  BY <1>2, <1>4, <1>5 DEF Progress, Staged, SoundSoFar
<1>7. CatalogTrue'
  BY DEF ImportInv, CatalogTrue
<1>. QED BY <1>3, <1>6, <1>7, OwnProgress

\* Preparing the staging directory of a day.
LEMMA PrepareHolds ==
  ASSUME ImportInv, NEW p \in Importers, MakeStage(p) \/ WriteParameters(p) \/ ResumeStage(p)
  PROVE  ImportInv'
<1>. /\ at[p] # "idle" /\ task[p] \in Tasks /\ task' \in [Importers -> Tasks \cup {None}]
     /\ task \in [Importers -> Tasks \cup {None}] /\ task[p].next = 1
  <2>1. at[p] # "idle" /\ task[p] \in Tasks /\ task[p].next = 1
    BY DEF MakeStage, WriteParameters, ResumeStage, ImportInv, Progress
  <2>2. task' = task \/ task' = [task EXCEPT ![p] = None]
    BY DEF MakeStage, WriteParameters, ResumeStage, FailImport, EndImport, SetTask
  <2>. QED BY <2>1, <2>2 DEF ImportInv, ImportTypeOK
<1>1. CASE MakeStage(p)
  <2>1. EmptyStage \in Directories /\ ~EmptyStage.temporary
    BY DEF EmptyStage, Directories
  <2>2. at' = [at EXCEPT ![p] = "mkdir"] /\ task' = [task EXCEPT ![p] = task[p]] /\ task[p].next = 1
    BY <1>1 DEF MakeStage, Move, ImportInv, Progress
  <2>. QED BY <1>1, <2>1, <2>2, StageStep DEF MakeStage
<1>2. CASE WriteParameters(p)
  <2>1. Stage(p) \in Directories /\ ~Stage(p).temporary /\ task[p].next = 1
    BY <1>2 DEF WriteParameters, ImportInv, Progress, Staged
  <2>. DEFINE dir == [Stage(p) EXCEPT !.parameters = TRUE]
  <2>2. dir \in Directories /\ dir.parameters /\ ~dir.temporary
    BY <2>1 DEF Directories
  <2>3. at' = [at EXCEPT ![p] = "symbol"] /\ task' = [task EXCEPT ![p] = task[p]]
    BY <1>2 DEF WriteParameters, Move
  <2>4. \A i \in 1 .. task[p].next - 1 : dir.artifacts[Symbols[i]] = "sound"
    BY <2>1
  <2>5. SetStage(p, dir)
    BY <1>2 DEF WriteParameters
  <2>. HIDE DEF dir
  <2>6. UNCHANGED <<guard, published, listed>>
    BY <1>2 DEF WriteParameters
  <2>. QED BY <2>1, <2>2, <2>3, <2>4, <2>5, <2>6, StageStep
<1>3. CASE ResumeStage(p)
  <2>1. task[p].next = 1 /\ Stage(p) # None
    BY <1>3 DEF ResumeStage, ImportInv, Progress
  <2>2. task[p].date \in Dates /\ task[p].by \in Parameters
    BY DEF Tasks
  <2>3. Stage(p) \in Directories
    BY <2>1, <2>2 DEF ImportInv, ImportTypeOK, Stage
  <2>4. CASE Stage(p).parameters
    <3>. DEFINE dir == Cleaned(Stage(p))
    <3>1. dir \in Directories /\ dir.parameters /\ ~dir.temporary
      BY <2>3, <2>4, CleanedDirectory
    <3>2. at' = [at EXCEPT ![p] = "symbol"] /\ task' = [task EXCEPT ![p] = task[p]] /\ SetStage(p, dir)
      BY <1>3, <2>4 DEF ResumeStage, Move
    <3>3. \A i \in 1 .. task[p].next - 1 : dir.artifacts[Symbols[i]] = "sound"
      BY <2>1
    <3>. HIDE DEF dir
    <3>. QED BY <1>3, <2>1, <2>4, <3>1, <3>2, <3>3, StageStep DEF ResumeStage
  <2>5. CASE ~Stage(p).parameters
    BY <1>3, <2>5, EndHolds DEF ResumeStage, FailImport, ReleaseGuard, ImportInv, ImportTypeOK
  <2>. QED BY <2>4, <2>5
<1>. QED BY <1>1, <1>2, <1>3

\* One symbol after the other is reused, downloaded, tried again or committed.
LEMMA SymbolHolds ==
  ASSUME ImportInv, NEW p \in Importers,
         ReuseSymbol(p) \/ Download(p) \/ CommitSymbol(p) \/ RetryDownload(p) \/ WriteManifestOfDay(p)
  PROVE  ImportInv'
<1>1. /\ at[p] # "idle" /\ at[p] \in {"symbol", "download"} /\ task[p] \in Tasks
      /\ Stage(p) \in Directories /\ Stage(p).parameters /\ SoundSoFar(p)
      /\ at[p] = "symbol" => ~Stage(p).temporary
  BY DEF ReuseSymbol, Download, CommitSymbol, RetryDownload, WriteManifestOfDay,
         ImportInv, Progress, Staged
<1>2. Len(Symbols) \in Nat /\ task[p].next \in 1 .. Len(Symbols) + 1
  BY <1>1, ImportAssumption DEF Tasks
<1>. DEFINE next == [task[p] EXCEPT !.next = @ + 1, !.attempt = 1]
            again == [task[p] EXCEPT !.attempt = @ + 1]
<1>3. task[p].next <= Len(Symbols) =>
        /\ next \in Tasks /\ next.next = task[p].next + 1
        /\ next.date = task[p].date /\ next.last = task[p].last /\ next.by = task[p].by
  <2>1. 1 \in 1 .. Attempts
    BY ImportAssumption
  <2>2. task[p].next <= Len(Symbols) => task[p].next + 1 \in 1 .. Len(Symbols) + 1
    BY <1>2
  <2>. QED BY <1>1, <2>1, <2>2 DEF Tasks
<1>4. task[p].attempt < Attempts =>
        /\ again \in Tasks /\ again.next = task[p].next
        /\ again.date = task[p].date /\ again.last = task[p].last /\ again.by = task[p].by
  <2>1. task[p].attempt < Attempts => task[p].attempt + 1 \in 1 .. Attempts
    BY <1>1, ImportAssumption DEF Tasks
  <2>. QED BY <1>1, <2>1 DEF Tasks
<1>5. CASE ReuseSymbol(p)
  <2>1. CASE Reusable(Stage(p).artifacts[CurrentSymbol(p)])
    <3>1. /\ task[p].next <= Len(Symbols) /\ at' = [at EXCEPT ![p] = "symbol"]
          /\ task' = [task EXCEPT ![p] = next]
      BY <1>1, <1>5, <2>1 DEF ReuseSymbol, NextSymbol, SetTask, ImportInv, ImportTypeOK
    <3>2. \A i \in 1 .. next.next - 1 : Stage(p).artifacts[Symbols[i]] = "sound"
      BY <1>1, <1>2, <1>3, <2>1, <3>1 DEF Reusable, CurrentSymbol, SoundSoFar
    <3>. HIDE DEF next
    <3>. QED BY <1>1, <1>3, <1>5, <2>1, <3>1, <3>2, StageStep DEF ReuseSymbol
  <2>2. CASE ~Reusable(Stage(p).artifacts[CurrentSymbol(p)])
    BY <1>1, <1>5, <2>2, EndHolds DEF ReuseSymbol, FailImport, ReleaseGuard, ImportInv, ImportTypeOK
  <2>. QED BY <2>1, <2>2
<1>6. CASE Download(p)
  <2>. DEFINE dir == [Stage(p) EXCEPT !.temporary = TRUE]
  <2>1. dir \in Directories /\ dir.parameters /\ dir.artifacts = Stage(p).artifacts
    BY <1>1 DEF Directories
  <2>2. /\ task[p].next <= Len(Symbols) /\ at' = [at EXCEPT ![p] = "download"] /\ SetStage(p, dir)
        /\ task' = [task EXCEPT ![p] = task[p]]
    BY <1>6 DEF Download, Move, ImportInv, ImportTypeOK
  <2>3. \A i \in 1 .. task[p].next - 1 : dir.artifacts[Symbols[i]] = "sound"
    BY <1>1, <2>1 DEF SoundSoFar
  <2>. HIDE DEF dir
  <2>4. UNCHANGED <<guard, published, listed>>
    BY <1>6 DEF Download
  <2>. QED BY <1>1, <2>1, <2>2, <2>3, <2>4, StageStep
<1>7. CASE CommitSymbol(p)
  <2>. DEFINE dir == [Cleaned(Stage(p)) EXCEPT !.artifacts[CurrentSymbol(p)] = "sound"]
  <2>1. task[p].next <= Len(Symbols)
    BY <1>7 DEF CommitSymbol, ImportInv, Progress
  <2>2. /\ Cleaned(Stage(p)) \in Directories /\ ~Cleaned(Stage(p)).temporary
        /\ Cleaned(Stage(p)).parameters /\ Cleaned(Stage(p)).artifacts = Stage(p).artifacts
    BY <1>1, CleanedDirectory
  <2>3. \A i \in 1 .. task[p].next : Symbols[i] \in SymbolSet
    BY <1>2, <2>1, ImportAssumption DEF SymbolSet
  <2>4. /\ dir \in Directories /\ dir.parameters /\ ~dir.temporary
        /\ dir.artifacts = [Stage(p).artifacts EXCEPT ![CurrentSymbol(p)] = "sound"]
    BY <2>2 DEF Directories
  <2>5. \A i \in 1 .. next.next - 1 : dir.artifacts[Symbols[i]] = "sound"
    BY <1>1, <1>2, <1>3, <2>1, <2>3, <2>4 DEF SoundSoFar, CurrentSymbol, Directories
  <2>6. at' = [at EXCEPT ![p] = "symbol"] /\ task' = [task EXCEPT ![p] = next] /\ SetStage(p, dir)
    BY <1>7 DEF CommitSymbol, Move, NextSymbol, SetTask
  <2>. HIDE DEF dir, next
  <2>. QED BY <1>1, <1>3, <1>7, <2>1, <2>4, <2>5, <2>6, StageStep DEF CommitSymbol
<1>8. CASE RetryDownload(p)
  <2>. DEFINE dir == Cleaned(Stage(p))
  <2>1. dir \in Directories /\ dir.parameters /\ ~dir.temporary /\ dir.artifacts = Stage(p).artifacts
    BY <1>1, CleanedDirectory
  <2>2. /\ task[p].attempt < Attempts /\ at' = [at EXCEPT ![p] = "symbol"]
        /\ task' = [task EXCEPT ![p] = again] /\ SetStage(p, dir)
    BY <1>8 DEF RetryDownload, Move, SetTask
  <2>3. \A i \in 1 .. again.next - 1 : dir.artifacts[Symbols[i]] = "sound"
    BY <1>1, <1>4, <2>1, <2>2 DEF SoundSoFar
  <2>. HIDE DEF dir, again
  <2>. QED BY <1>1, <1>4, <1>8, <2>1, <2>2, <2>3, StageStep DEF RetryDownload
<1>9. CASE WriteManifestOfDay(p)
  <2>1. /\ at' = [at EXCEPT ![p] = "publish"] /\ task' = [task EXCEPT ![p] = task[p]]
        /\ task[p].next > Len(Symbols) /\ ~Stage(p).temporary
    BY <1>1, <1>9 DEF WriteManifestOfDay, AllSymbols, Move, ImportInv, ImportTypeOK
  <2>2. \A i \in 1 .. task[p].next - 1 : Stage(p).artifacts[Symbols[i]] = "sound"
    BY <1>1 DEF SoundSoFar
  <2>. QED BY <1>1, <1>9, <2>1, <2>2, StageStep DEF WriteManifestOfDay
<1>. QED BY <1>5, <1>6, <1>7, <1>8, <1>9

\* A day that is reused or published, and the catalog after it.
LEMMA DayHolds ==
  ASSUME ImportInv, NEW p \in Importers, ReuseDay(p) \/ PublishDay(p) \/ WriteCatalog(p)
  PROVE  ImportInv'
<1>1. at[p] # "idle" /\ guard = p /\ task[p] \in Tasks /\ task[p].date <= task[p].last
  BY DEF ReuseDay, PublishDay, WriteCatalog, ImportInv, Progress
<1>2. /\ task[p].date \in Dates /\ task[p].last \in Dates /\ task[p].by \in Parameters
  BY <1>1 DEF Tasks
<1>3. CASE ReuseDay(p)
  <2>1. CASE ValidDay(published[task[p].date], task[p].by)
    <3>1. at' = [at EXCEPT ![p] = "catalog"] /\ UNCHANGED <<guard, staging, published, listed, task>>
      BY <1>3, <2>1 DEF ReuseDay, Move
    <3>2. ImportTypeOK' /\ at'[p] = "catalog"
      BY <3>1 DEF ImportInv, ImportTypeOK
    <3>3. Progress(p)' /\ CatalogTrue'
      BY <1>1, <3>1, <3>2 DEF Progress, Staged, ImportInv, CatalogTrue
    <3>. QED BY <1>1, <3>1, <3>2, <3>3, OwnProgress
  <2>2. CASE ~ValidDay(published[task[p].date], task[p].by)
    BY <1>1, <1>3, <2>2, EndHolds DEF ReuseDay, FailImport, ReleaseGuard, ImportInv, ImportTypeOK
  <2>. QED BY <2>1, <2>2
<1>4. CASE PublishDay(p)
  <2>1. Stage(p) \in Directories
    BY <1>4 DEF PublishDay, ImportInv, Progress, Staged
  <2>2. [by |-> task[p].by, content |-> Stage(p)] \in DayDirectories
    BY <1>2, <2>1 DEF DayDirectories
  <2>3. /\ published' = [published EXCEPT ![task[p].date] = [by |-> task[p].by, content |-> Stage(p)]]
        /\ at' = [at EXCEPT ![p] = "catalog"] /\ SetStage(p, None)
        /\ published[task[p].date] = None /\ UNCHANGED <<guard, listed, task>>
    BY <1>4 DEF PublishDay, Move
  <2>4. staging' \in [Dates -> [Parameters -> Directories \cup {None}]]
    BY <1>1, <2>3, StageWritten DEF ImportInv
  <2>5. ImportTypeOK' /\ at'[p] = "catalog"
    BY <1>2, <2>2, <2>3, <2>4 DEF ImportInv, ImportTypeOK
  <2>6. Progress(p)'
    BY <1>1, <2>3, <2>5 DEF Progress, Staged
  <2>7. CatalogTrue'
    BY <1>2, <2>3 DEF ImportInv, ImportTypeOK, CatalogTrue
  <2>. QED BY <1>1, <2>3, <2>5, <2>6, <2>7, OwnProgress
<1>5. CASE WriteCatalog(p)
  <2>1. CASE task[p].date = task[p].last
    BY <1>1, <1>5, <2>1, EndHolds DEF WriteCatalog, ReleaseGuard, ImportInv, ImportTypeOK
  <2>2. CASE task[p].date # task[p].last
    <3>. DEFINE next == [task[p] EXCEPT !.date = @ + 1, !.next = 1]
    <3>1. task[p].date + 1 \in Dates /\ task[p].date + 1 <= task[p].last
      BY <1>1, <1>2, <2>2, ImportAssumption DEF Dates
    <3>2. 1 \in 1 .. Len(Symbols) + 1
      BY ImportAssumption
    <3>3. next \in Tasks /\ next.next = 1 /\ next.date <= next.last
      BY <1>1, <3>1, <3>2 DEF Tasks
    <3>4. /\ at' = [at EXCEPT ![p] = "day"] /\ task' = [task EXCEPT ![p] = next]
          /\ listed' = Catalogue /\ UNCHANGED <<guard, staging, published>>
      BY <1>5, <2>2 DEF WriteCatalog, Move, SetTask
    <3>. HIDE DEF next
    <3>5. listed' \in [Dates -> Parameters \cup {None}] /\ CatalogTrue'
      BY <3>4 DEF ImportInv, ImportTypeOK, CatalogTrue, Catalogue, DayDirectories
    <3>6. ImportTypeOK' /\ at'[p] = "day" /\ task'[p] = next
      BY <3>3, <3>4, <3>5 DEF ImportInv, ImportTypeOK
    <3>7. Progress(p)'
      BY <1>1, <3>3, <3>4, <3>6 DEF Progress, Staged
    <3>. QED BY <1>1, <3>4, <3>5, <3>6, <3>7, OwnProgress
  <2>. QED BY <2>1, <2>2
<1>. QED BY <1>3, <1>4, <1>5

\* Rot leaves every directory where it is, and what its manifest says of it.
LEMMA SpoiledDirectory ==
  ASSUME NEW dir \in Directories, NEW bad \in Spoiled(dir)
  PROVE  bad \in Directories
BY DEF Spoiled, Directories

\* Nobody works while files rot or a lock is removed.
LEMMA NobodyHolds ==
  ASSUME ImportInv, RemoveGuard \/ Rot
  PROVE  ImportInv'
<1>1. CASE RemoveGuard
  <2>1. guard # None /\ at[guard] = "idle" /\ guard' = None /\ UNCHANGED <<staging, published, listed, at, task>>
    BY <1>1 DEF RemoveGuard, ReleaseGuard
  <2>2. \A p \in Importers : at[p] = "idle"
    BY <2>1 DEF ImportInv, Progress
  <2>3. \A p \in Importers : Progress(p)'
    BY <2>1, <2>2 DEF Progress, Staged
  <2>4. ImportTypeOK' /\ CatalogTrue'
    BY <2>1 DEF ImportInv, ImportTypeOK, CatalogTrue
  <2>. QED BY <2>3, <2>4 DEF ImportInv
<1>2. CASE Rot
  <2>1. (\A p \in Importers : at[p] = "idle") /\ UNCHANGED <<guard, listed, at, task>>
    BY <1>2 DEF Rot
  <2>2. \A p \in Importers : Progress(p)'
    BY <2>1 DEF Progress, Staged
  <2>3. PICK d \in Dates :
          \/ /\ published[d] # None /\ UNCHANGED staging
             /\ \E dir \in Spoiled(published[d].content) :
                   published' = [published EXCEPT ![d].content = dir]
          \/ /\ UNCHANGED published
             /\ \E f \in Parameters : staging[d][f] # None
                  /\ \E dir \in Spoiled(staging[d][f]) : staging' = [staging EXCEPT ![d][f] = dir]
    BY <1>2 DEF Rot
  <2>4. ASSUME published[d] # None, UNCHANGED staging, NEW dir \in Spoiled(published[d].content),
               published' = [published EXCEPT ![d].content = dir]
        PROVE ImportTypeOK' /\ CatalogTrue'
    <3>1. published[d] \in DayDirectories /\ dir \in Directories
      BY <2>4, SpoiledDirectory DEF ImportInv, ImportTypeOK, DayDirectories
    <3>2. /\ [published[d] EXCEPT !.content = dir] \in DayDirectories
          /\ [published[d] EXCEPT !.content = dir].by = published[d].by
      BY <3>1 DEF DayDirectories
    <3>3. published' = [published EXCEPT ![d] = [published[d] EXCEPT !.content = dir]]
      BY <2>4
    <3>4. published' \in [Dates -> DayDirectories \cup {None}]
      BY <3>2, <3>3 DEF ImportInv, ImportTypeOK
    <3>5. ImportTypeOK'
      BY <2>1, <2>4, <3>4 DEF ImportInv, ImportTypeOK
    <3>6. \A e \in Dates : published[e] # None => published'[e] # None /\ published'[e].by = published[e].by
      BY <3>2, <3>3, AbsentAssumption DEF ImportInv, ImportTypeOK
    <3>7. CatalogTrue'
      BY <2>1, <3>6 DEF ImportInv, CatalogTrue
    <3>. QED BY <3>5, <3>7
  <2>5. ASSUME UNCHANGED published, NEW f \in Parameters, staging[d][f] # None,
               NEW dir \in Spoiled(staging[d][f]), staging' = [staging EXCEPT ![d][f] = dir]
        PROVE ImportTypeOK' /\ CatalogTrue'
    <3>1. dir \in Directories
      BY <2>5, SpoiledDirectory DEF ImportInv, ImportTypeOK
    <3>2. staging' \in [Dates -> [Parameters -> Directories \cup {None}]]
      BY <2>5, <3>1 DEF ImportInv, ImportTypeOK
    <3>. QED BY <2>1, <2>5, <3>2 DEF ImportInv, ImportTypeOK, CatalogTrue
  <2>. QED BY <2>2, <2>3, <2>4, <2>5 DEF ImportInv
<1>. QED BY <1>1, <1>2

\* Every step keeps the invariant.
LEMMA ImportStepHolds == ImportInv /\ [ImportNext]_importVars => ImportInv'
<1>. SUFFICES ASSUME ImportInv, [ImportNext]_importVars PROVE ImportInv'
  OBVIOUS
<1>1. ASSUME NEW p \in Importers, ImportStep(p) PROVE ImportInv'
  BY <1>1, StartHolds, EndsHold, PrepareHolds, SymbolHolds, DayHolds DEF ImportStep
<1>2. CASE RemoveGuard \/ Rot
  BY <1>2, NobodyHolds
<1>3. CASE UNCHANGED importVars
  BY <1>3 DEF importVars, ImportInv, ImportTypeOK, Progress, Staged, Stage, SoundSoFar, CatalogTrue
<1>. QED BY <1>1, <1>2, <1>3 DEF ImportNext

\* The state of the import keeps its types (_import_day_unlocked, _history_lock).
THEOREM ImportTyped == ImportSpec => []ImportTypeOK
<1>1. ImportInv => ImportTypeOK
  BY DEF ImportInv
<1>. QED BY <1>1, InitHolds, ImportStepHolds, PTL DEF ImportSpec

-----------------------------------------------------------------------------
(* Days appear whole *)

\* What a step may do to the directory of one day.
DayWhole(d) ==
  /\ published[d] = None /\ published'[d] # None =>
        LET dir == published'[d].content IN
        dir.parameters /\ Sound(dir) /\ ~dir.temporary
  /\ published[d] # None => published'[d] # None /\ published'[d].by = published[d].by
  /\ listed'[d] # None => published'[d] # None /\ published'[d].by = listed'[d]

\* Only a publication makes a day appear, and its importer has verified every symbol.
LEMMA PublishedWhole ==
  ASSUME ImportInv, ImportInv', NEW p \in Importers, PublishDay(p)
  PROVE  \A d \in Dates : DayWhole(d)
<1>1. /\ task[p] \in Tasks /\ Stage(p) \in Directories /\ Stage(p).parameters
      /\ ~Stage(p).temporary /\ SoundSoFar(p) /\ task[p].next > Len(Symbols)
  BY DEF PublishDay, ImportInv, Progress, Staged
<1>2. Sound(Stage(p))
  <2>1. task[p].next = Len(Symbols) + 1 /\ Len(Symbols) \in Nat /\ DOMAIN Symbols = 1 .. Len(Symbols)
    BY <1>1, ImportAssumption DEF Tasks
  <2>. QED BY <1>1, <2>1 DEF SoundSoFar, Sound, SymbolSet
<1>3. /\ task[p].date \in Dates /\ published[task[p].date] = None
      /\ published' = [published EXCEPT ![task[p].date] = [by |-> task[p].by, content |-> Stage(p)]]
  BY <1>1 DEF PublishDay, Tasks
<1>4. /\ published'[task[p].date].content = Stage(p)
      /\ \A d \in Dates \ {task[p].date} : published'[d] = published[d]
  BY <1>3 DEF ImportInv, ImportTypeOK
<1>. QED BY <1>1, <1>2, <1>3, <1>4 DEF DayWhole, ImportInv, CatalogTrue

\* Every other step leaves what is published, but for its files' rot.
LEMMA StepWhole ==
  ASSUME ImportInv, [ImportNext]_importVars
  PROVE  \A d \in Dates : DayWhole(d)
<1>1. ImportInv'
  BY ImportStepHolds
<1>2. CASE UNCHANGED published
  BY <1>1, <1>2 DEF DayWhole, ImportInv, CatalogTrue
<1>3. ASSUME NEW p \in Importers, ImportStep(p), ~UNCHANGED published
      PROVE  PublishDay(p)
  BY <1>3 DEF ImportStep, StartImport, Kill, DiskGuard, ReuseDay, MakeStage, WriteParameters,
              ResumeStage, ReuseSymbol, Download, CommitSymbol, RetryDownload, GiveUpDownload,
              WriteManifestOfDay, WriteCatalog, FailImport
<1>4. CASE Rot
  <2>1. ASSUME ~UNCHANGED published, NEW d \in Dates
        PROVE  /\ published[d] # None => published'[d] # None /\ published'[d].by = published[d].by
               /\ published[d] = None => published'[d] = None
    <3>1. PICK e \in Dates : /\ published[e] # None
                             /\ \E dir \in Spoiled(published[e].content) :
                                   published' = [published EXCEPT ![e].content = dir]
      BY <1>4, <2>1 DEF Rot
    <3>2. published[e] \in DayDirectories
      BY <3>1 DEF ImportInv, ImportTypeOK
    <3>3. PICK dir : dir \in Directories /\ published' = [published EXCEPT ![e].content = dir]
      BY <3>1, <3>2, SpoiledDirectory DEF DayDirectories
    <3>4. /\ [published[e] EXCEPT !.content = dir] \in DayDirectories
          /\ [published[e] EXCEPT !.content = dir].by = published[e].by
      BY <3>2, <3>3 DEF DayDirectories
    <3>5. published' = [published EXCEPT ![e] = [published[e] EXCEPT !.content = dir]]
      BY <3>3
    <3>. QED BY <3>1, <3>4, <3>5, AbsentAssumption DEF ImportInv, ImportTypeOK
  <2>. QED BY <1>1, <1>2, <2>1 DEF DayWhole, ImportInv, CatalogTrue
<1>5. CASE RemoveGuard
  BY <1>2, <1>5 DEF RemoveGuard
<1>6. CASE UNCHANGED importVars
  BY <1>2, <1>6 DEF importVars
<1>. QED BY <1>1, <1>2, <1>3, <1>4, <1>5, <1>6, PublishedWhole DEF ImportNext

\* However an import is killed, retried and resumed, and whatever rots between two runs:
\* a day appears with all its symbols verified, is never replaced, and the catalog lists
\* what is there (_prepare_stage, _build_symbol, _import_day_unlocked).
THEOREM DaysAppearWholeHolds == ImportSpec => DaysAppearWhole
<1>1. ImportInv /\ [ImportNext]_importVars => [\A d \in Dates : DayWhole(d)]_importVars
  BY StepWhole
<1>2. [\A d \in Dates : DayWhole(d)]_importVars =>
        [\A d \in Dates :
            /\ published[d] = None /\ published'[d] # None =>
                  LET dir == published'[d].content IN
                  dir.parameters /\ Sound(dir) /\ ~dir.temporary
            /\ published[d] # None => published'[d] # None /\ published'[d].by = published[d].by
            /\ listed'[d] # None => published'[d] # None /\ published'[d].by = listed'[d]]_importVars
  BY DEF DayWhole
<1>. QED BY <1>1, <1>2, InitHolds, ImportStepHolds, PTL DEF ImportSpec, DaysAppearWhole

-----------------------------------------------------------------------------
(* What a bundle of ResearchArtifacts is made of.  The types say which fields an
   artifact and a command have; the invariant adds what is known of a source while
   it is read, of the dataset an evaluation has taken, and of the rows that
   evaluations and bundles learned from. *)

Profiles == {"market", "execution", "price"}
Kinds == {"canonical", "catalog", "history"}
Contents == Outputs \cup {Rotten}

DatasetIds == [profile : Profiles, kind : Kinds, version : Nat, manifest : Nat]
DatasetRecords == [id : DatasetIds, named : Outputs, content : Contents]

EvaluationIds == [dataset : DatasetIds, output : Outputs]
EvaluationRecords == [id : EvaluationIds, named : Outputs, content : Contents, learned : Contents]

BundleIds == [evaluation : EvaluationIds, models : Outputs, dataset : DatasetIds, output : Outputs]
BundleRecords ==
  [id : BundleIds, named : Contents, content : Contents, learned : Contents, estimated : Contents]

Commands ==
  [step : {"loaded"}, profile : Profiles, kind : Kinds, version : Nat]
    \cup [step : {"named", "staged"}, id : DatasetIds]
    \cup [step : {"evaluate"}, dataset : DatasetRecords]
    \cup [step : {"done"}, artifact : DatasetRecords \cup EvaluationRecords \cup BundleRecords]

ArtifactsTypeOK ==
  /\ archived \in Nat
  /\ datasets \in SUBSET DatasetRecords
  /\ evaluations \in SUBSET EvaluationRecords
  /\ bundles \in SUBSET BundleRecords
  /\ work \in [Workers -> Commands \cup {None}]

\* A source is read before it is hashed.
ReadBeforeHashed ==
  /\ \A w \in Workers : Doing(w, "loaded") => work[w].version <= Version(work[w].kind)
  /\ \A w \in Workers : Doing(w, "named") \/ Doing(w, "staged") => work[w].id.version <= work[w].id.manifest
  /\ \A ds \in datasets : ds.id.version <= ds.id.manifest

\* Models learned from the output that the evaluation's name has.
LearnedFromNamed ==
  /\ \A w \in Workers : Doing(w, "evaluate") => Unharmed(work[w].dataset)
  /\ \A e \in evaluations : e.learned = e.id.output
  /\ \A b \in bundles : b.learned = b.estimated /\ b.learned = b.id.output

AnswersUnharmed == \A w \in Workers : Doing(w, "done") => Unharmed(work[w].artifact)

ArtifactsInv == ArtifactsTypeOK /\ ReadBeforeHashed /\ LearnedFromNamed /\ AnswersUnharmed

-----------------------------------------------------------------------------
(* One command *)

\* What a command in a place has.
LEMMA CommandOf ==
  ASSUME ArtifactsTypeOK, NEW w \in Workers
  PROVE  /\ Doing(w, "loaded") => work[w] \in [step : {"loaded"}, profile : Profiles, kind : Kinds, version : Nat]
         /\ Doing(w, "named") => work[w] \in [step : {"named", "staged"}, id : DatasetIds]
         /\ Doing(w, "staged") => work[w] \in [step : {"named", "staged"}, id : DatasetIds]
         /\ Doing(w, "evaluate") => work[w] \in [step : {"evaluate"}, dataset : DatasetRecords]
BY DEF ArtifactsTypeOK, Commands, Doing

\* A worker's own part of the invariant.
Fits(command) ==
  /\ command # None /\ command.step = "loaded" => command.version <= Version(command.kind)
  /\ command # None /\ command.step \in {"named", "staged"} => command.id.version <= command.id.manifest
  /\ command # None /\ command.step = "evaluate" => Unharmed(command.dataset)
  /\ command # None /\ command.step = "done" => Unharmed(command.artifact)

\* A step of one worker that leaves the artifacts.
LEMMA WorkStep ==
  ASSUME ArtifactsInv, NEW w \in Workers, NEW command \in Commands \cup {None}, Fits(command),
         SetWork(w, command), UNCHANGED <<archived, datasets, evaluations, bundles>>
  PROVE  ArtifactsInv'
<1>1. ArtifactsTypeOK' /\ work'[w] = command /\ \A v \in Workers \ {w} : work'[v] = work[v]
  BY DEF ArtifactsInv, ArtifactsTypeOK, SetWork
<1>2. \A kind : Version(kind)' = Version(kind)
  BY DEF Version
<1>3. ReadBeforeHashed'
  BY <1>1, <1>2 DEF ArtifactsInv, ReadBeforeHashed, Doing, Fits
<1>4. LearnedFromNamed' /\ AnswersUnharmed'
  BY <1>1 DEF ArtifactsInv, LearnedFromNamed, AnswersUnharmed, Doing, Fits
<1>. QED BY <1>1, <1>3, <1>4 DEF ArtifactsInv

\* A command that fails.
LEMMA FailStep ==
  ASSUME ArtifactsInv, NEW w \in Workers, Fail(w), UNCHANGED <<archived, datasets, evaluations, bundles>>
  PROVE  ArtifactsInv'
BY WorkStep DEF Fail, Fits

\* An answer with an artifact that was there.
LEMMA ReuseStep ==
  ASSUME ArtifactsInv, NEW w \in Workers,
         NEW artifact \in DatasetRecords \cup EvaluationRecords \cup BundleRecords,
         Reuse(w, artifact), UNCHANGED <<archived, datasets, evaluations, bundles>>
  PROVE  ArtifactsInv'
<1>. DEFINE command == [step |-> "done", artifact |-> artifact]
<1>1. CASE Unharmed(artifact)
  <2>1. command \in Commands
    BY DEF Commands
  <2>2. Fits(command)
    BY <1>1 DEF Fits
  <2>3. SetWork(w, command)
    BY <1>1 DEF Reuse, Answer
  <2>. QED BY <2>1, <2>2, <2>3, WorkStep
<1>2. CASE ~Unharmed(artifact)
  BY <1>2, FailStep DEF Reuse
<1>. QED BY <1>1, <1>2

-----------------------------------------------------------------------------
(* Every step keeps the invariant *)

\* Nothing is there at first.
LEMMA ArtifactsInitHolds == ArtifactsInit => ArtifactsInv
BY DEF ArtifactsInit, ArtifactsInv, ArtifactsTypeOK, ReadBeforeHashed, LearnedFromNamed,
       AnswersUnharmed, Doing

\* A source is loaded and hashed, its manifest copied.
LEMMA SourceHolds ==
  ASSUME ArtifactsInv, NEW w \in Workers, LoadSource(w) \/ HashManifest(w) \/ CopyManifest(w)
  PROVE  ArtifactsInv'
<1>. \A kind : Version(kind) \in Nat
  BY DEF Version, ArtifactsInv, ArtifactsTypeOK
<1>1. CASE LoadSource(w)
  <2>1. PICK profile \in {"market", "execution", "price"} : \E kind \in Sources(profile) :
          SetWork(w, [step |-> "loaded", profile |-> profile, kind |-> kind, version |-> Version(kind)])
    BY <1>1 DEF LoadSource
  <2>2. PICK kind \in Sources(profile) :
          SetWork(w, [step |-> "loaded", profile |-> profile, kind |-> kind, version |-> Version(kind)])
    BY <2>1
  <2>. DEFINE command == [step |-> "loaded", profile |-> profile, kind |-> kind, version |-> Version(kind)]
  <2>3. kind \in Kinds
    BY DEF Sources, Kinds
  <2>4. command \in Commands /\ Fits(command)
    BY <2>3 DEF Commands, Fits, Profiles
  <2>. QED BY <1>1, <2>2, <2>4, WorkStep DEF LoadSource
<1>2. CASE HashManifest(w)
  <2>1. /\ work[w] \in [step : {"loaded"}, profile : Profiles, kind : Kinds, version : Nat]
        /\ work[w].version <= Version(work[w].kind)
    BY <1>2, CommandOf DEF HashManifest, ArtifactsInv, ReadBeforeHashed
  <2>. DEFINE id == [profile |-> work[w].profile, kind |-> work[w].kind,
                     version |-> work[w].version, manifest |-> Version(work[w].kind)]
              command == [step |-> "named", id |-> id]
  <2>2. id \in DatasetIds /\ id.version <= id.manifest
    BY <2>1 DEF DatasetIds
  <2>3. command \in Commands /\ Fits(command)
    <3>. HIDE DEF id
    <3>. QED BY <2>2 DEF Commands, Fits
  <2>. QED BY <1>2, <2>3, WorkStep DEF HashManifest
<1>3. CASE CopyManifest(w)
  <2>1. /\ work[w] \in [step : {"named", "staged"}, id : DatasetIds]
        /\ work[w].id.version <= work[w].id.manifest
    BY <1>3, CommandOf DEF CopyManifest, ArtifactsInv, ReadBeforeHashed
  <2>. DEFINE command == [work[w] EXCEPT !.step = "staged"]
  <2>2. command = [step |-> "staged", id |-> work[w].id]
    BY <2>1
  <2>3. SetWork(w, command) \/ Fail(w)
    BY <1>3 DEF CopyManifest
  <2>4. UNCHANGED <<archived, datasets, evaluations, bundles>>
    BY <1>3 DEF CopyManifest
  <2>. HIDE DEF command
  <2>5. command \in Commands /\ Fits(command)
    <3>1. work[w].id \in DatasetIds
      BY <2>1
    <3>. QED BY <2>1, <2>2, <3>1 DEF Commands, Fits
  <2>. QED BY <2>3, <2>4, <2>5, WorkStep, FailStep
<1>. QED BY <1>1, <1>2, <1>3

\* A dataset is published or reused.
LEMMA DatasetHolds ==
  ASSUME ArtifactsInv, NEW w \in Workers, ReuseDataset(w) \/ PublishResearch(w)
  PROVE  ArtifactsInv'
<1>1. CASE ReuseDataset(w)
  <2>1. PICK ds \in Made(work[w].id, datasets) : Reuse(w, ds)
    BY <1>1 DEF ReuseDataset
  <2>2. ds \in DatasetRecords
    BY DEF Made, ArtifactsInv, ArtifactsTypeOK
  <2>. QED BY <1>1, <2>1, <2>2, ReuseStep DEF ReuseDataset
<1>2. CASE PublishResearch(w)
  <2>1. /\ work[w] \in [step : {"named", "staged"}, id : DatasetIds]
        /\ work[w].id.version <= work[w].id.manifest
    BY <1>2, CommandOf DEF PublishResearch, ArtifactsInv, ReadBeforeHashed
  <2>2. ASSUME NEW output \in Outputs, Answer(w, Artifact(work[w].id, output)),
               datasets' = datasets \cup {Artifact(work[w].id, output)}
        PROVE  ArtifactsInv'
    <3>. DEFINE ds == Artifact(work[w].id, output)
                command == [step |-> "done", artifact |-> ds]
    <3>1. ds \in DatasetRecords /\ Unharmed(ds) /\ ds.id.version <= ds.id.manifest
      BY <2>1 DEF Artifact, DatasetRecords, Contents, Unharmed
    <3>2. datasets' = datasets \cup {ds} /\ work' = [work EXCEPT ![w] = command]
      BY <2>2 DEF Answer, SetWork
    <3>. HIDE DEF ds
    <3>3. command \in Commands /\ UNCHANGED <<archived, evaluations, bundles>>
      BY <1>2, <3>1 DEF Commands, PublishResearch
    <3>4. ArtifactsTypeOK' /\ work'[w] = command /\ \A v \in Workers \ {w} : work'[v] = work[v]
      BY <3>1, <3>2, <3>3 DEF ArtifactsInv, ArtifactsTypeOK
    <3>5. \A kind : Version(kind)' = Version(kind)
      BY <3>3 DEF Version
    <3>6. ReadBeforeHashed'
      BY <3>1, <3>2, <3>4, <3>5 DEF ArtifactsInv, ReadBeforeHashed, Doing
    <3>7. LearnedFromNamed' /\ AnswersUnharmed'
      BY <3>1, <3>3, <3>4 DEF ArtifactsInv, LearnedFromNamed, AnswersUnharmed, Doing
    <3>. QED BY <3>4, <3>6, <3>7 DEF ArtifactsInv
  <2>. QED BY <1>2, <2>2, FailStep DEF PublishResearch
<1>. QED BY <1>1, <1>2

\* An evaluation is started, reused or published.
LEMMA EvaluationHolds ==
  ASSUME ArtifactsInv, NEW w \in Workers, StartEvaluation(w) \/ PublishEvaluation(w)
  PROVE  ArtifactsInv'
<1>1. CASE StartEvaluation(w)
  <2>1. PICK ds \in datasets :
          /\ ValidDataset(ds)
          /\ \/ SetWork(w, [step |-> "evaluate", dataset |-> ds])
             \/ \E e \in Made(EvaluationId(ds), evaluations) : Reuse(w, e)
    BY <1>1 DEF StartEvaluation
  <2>. DEFINE command == [step |-> "evaluate", dataset |-> ds]
  <2>2. ds \in DatasetRecords /\ Unharmed(ds)
    BY <2>1 DEF ArtifactsInv, ArtifactsTypeOK, ValidDataset
  <2>3. command \in Commands /\ Fits(command)
    BY <2>2 DEF Commands, Fits
  <2>4. \A e \in Made(EvaluationId(ds), evaluations) : e \in EvaluationRecords
    BY DEF Made, ArtifactsInv, ArtifactsTypeOK
  <2>5. UNCHANGED <<archived, datasets, evaluations, bundles>>
    BY <1>1 DEF StartEvaluation
  <2>. QED BY <2>1, <2>3, <2>4, <2>5, WorkStep, ReuseStep
<1>2. CASE PublishEvaluation(w)
  <2>1. /\ work[w] \in [step : {"evaluate"}, dataset : DatasetRecords]
        /\ Unharmed(work[w].dataset)
    BY <1>2, CommandOf DEF PublishEvaluation, ArtifactsInv, LearnedFromNamed
  <2>. DEFINE id == EvaluationId(work[w].dataset)
              new(output) == [id |-> id, named |-> output, content |-> output,
                              learned |-> work[w].dataset.content]
  <2>2. ASSUME NEW output \in Outputs, Answer(w, new(output)),
               evaluations' = evaluations \cup {new(output)}
        PROVE  ArtifactsInv'
    <3>. DEFINE e == new(output)
                command == [step |-> "done", artifact |-> e]
    <3>1. id \in EvaluationIds /\ id.output = work[w].dataset.named
      BY <2>1 DEF EvaluationId, EvaluationIds, DatasetRecords
    <3>2. e \in EvaluationRecords /\ Unharmed(e) /\ e.learned = e.id.output
      BY <2>1, <3>1 DEF EvaluationRecords, DatasetRecords, Contents, Unharmed
    <3>3. evaluations' = evaluations \cup {e} /\ work' = [work EXCEPT ![w] = command]
      BY <2>2 DEF Answer, SetWork
    <3>. HIDE DEF e, new, id
    <3>4. command \in Commands /\ UNCHANGED <<archived, datasets, bundles>>
      BY <1>2, <3>2 DEF Commands, PublishEvaluation
    <3>5. ArtifactsTypeOK' /\ work'[w] = command /\ \A v \in Workers \ {w} : work'[v] = work[v]
      BY <3>2, <3>3, <3>4 DEF ArtifactsInv, ArtifactsTypeOK
    <3>6. \A kind : Version(kind)' = Version(kind)
      BY <3>4 DEF Version
    <3>7. ReadBeforeHashed'
      BY <3>4, <3>5, <3>6 DEF ArtifactsInv, ReadBeforeHashed, Doing
    <3>8. LearnedFromNamed' /\ AnswersUnharmed'
      BY <3>2, <3>3, <3>4, <3>5 DEF ArtifactsInv, LearnedFromNamed, AnswersUnharmed, Doing
    <3>. QED BY <3>5, <3>7, <3>8 DEF ArtifactsInv
  <2>3. \/ \E output \in Outputs : Answer(w, new(output)) /\ evaluations' = evaluations \cup {new(output)}
        \/ Fail(w) /\ UNCHANGED <<archived, datasets, evaluations, bundles>>
    BY <1>2 DEF PublishEvaluation
  <2>. HIDE DEF new
  <2>. QED BY <2>2, <2>3, FailStep
<1>. QED BY <1>1, <1>2

\* A bundle is frozen or reused: the models and the estimates have the same rows.
LEMMA BundleHolds ==
  ASSUME ArtifactsInv, NEW w \in Workers, FreezeBundle(w)
  PROVE  ArtifactsInv'
<1>. DEFINE new(e, ds) == [id |-> BundleId(e, ds), named |-> e.content, content |-> e.content,
                           learned |-> e.learned, estimated |-> ds.content]
<1>1. PICK e \in evaluations, ds \in datasets :
        /\ Unharmed(e) /\ ValidDataset(ds) /\ SameDataset(e, ds)
        /\ \/ bundles' = bundles \cup {new(e, ds)} /\ Answer(w, new(e, ds))
           \/ \E b \in Made(BundleId(e, ds), bundles) : Reuse(w, b) /\ UNCHANGED bundles
  BY DEF FreezeBundle
<1>2. UNCHANGED <<archived, datasets, evaluations>>
  BY DEF FreezeBundle
<1>3. CASE bundles' = bundles \cup {new(e, ds)} /\ Answer(w, new(e, ds))
  <2>. DEFINE b == new(e, ds)
              command == [step |-> "done", artifact |-> b]
  <2>1. e \in EvaluationRecords /\ ds \in DatasetRecords /\ e.learned = e.id.output
    BY DEF ArtifactsInv, ArtifactsTypeOK, LearnedFromNamed
  <2>2. BundleId(e, ds) \in BundleIds /\ BundleId(e, ds).output = ds.named
    BY <2>1 DEF BundleId, BundleIds, EvaluationRecords, DatasetRecords
  <2>3. ds.content = ds.named /\ e.id.output = ds.named
    BY <1>1 DEF ValidDataset, Unharmed, SameDataset
  <2>4. b \in BundleRecords /\ Unharmed(b) /\ b.learned = b.estimated /\ b.learned = b.id.output
    BY <2>1, <2>2, <2>3 DEF BundleRecords, EvaluationRecords, DatasetRecords, Unharmed
  <2>5. bundles' = bundles \cup {b} /\ work' = [work EXCEPT ![w] = command]
    BY <1>3 DEF Answer, SetWork
  <2>. HIDE DEF b, new
  <2>6. command \in Commands
    BY <2>4 DEF Commands
  <2>7. ArtifactsTypeOK' /\ work'[w] = command /\ \A v \in Workers \ {w} : work'[v] = work[v]
    BY <1>2, <2>4, <2>5, <2>6 DEF ArtifactsInv, ArtifactsTypeOK
  <2>8. \A kind : Version(kind)' = Version(kind)
    BY <1>2 DEF Version
  <2>9. ReadBeforeHashed'
    BY <1>2, <2>7, <2>8 DEF ArtifactsInv, ReadBeforeHashed, Doing
  <2>10. \A v \in Workers : Doing(v, "evaluate")' => work'[v] = work[v] /\ Doing(v, "evaluate")
    BY <2>7 DEF Doing
  <2>11. LearnedFromNamed'
    BY <1>2, <2>4, <2>5, <2>10 DEF ArtifactsInv, LearnedFromNamed
  <2>12. AnswersUnharmed'
    BY <2>4, <2>7 DEF ArtifactsInv, AnswersUnharmed, Doing
  <2>. QED BY <2>7, <2>9, <2>11, <2>12 DEF ArtifactsInv
<1>4. ASSUME NEW b \in Made(BundleId(e, ds), bundles), Reuse(w, b), UNCHANGED bundles
      PROVE  ArtifactsInv'
  <2>1. b \in BundleRecords
    BY <1>4 DEF Made, ArtifactsInv, ArtifactsTypeOK
  <2>. QED BY <1>2, <1>4, <2>1, ReuseStep
<1>. HIDE DEF new
<1>. QED BY <1>1, <1>3, <1>4

\* A set in which one artifact was damaged has the artifacts' names and origins.
LEMMA DamagedDatasets ==
  ASSUME NEW S \in SUBSET DatasetRecords, NEW T \in Damaged(S)
  PROVE  T \in SUBSET DatasetRecords /\ \A t \in T : \E s \in S : t.id = s.id
<1>1. PICK a \in S : T = (S \ {a}) \cup {[a EXCEPT !.content = Rotten]}
  BY DEF Damaged
<1>2. [a EXCEPT !.content = Rotten] \in DatasetRecords /\ [a EXCEPT !.content = Rotten].id = a.id
  BY DEF DatasetRecords, Contents
<1>. QED BY <1>1, <1>2

LEMMA DamagedEvaluations ==
  ASSUME NEW S \in SUBSET EvaluationRecords, NEW T \in Damaged(S)
  PROVE  T \in SUBSET EvaluationRecords /\ \A t \in T : \E s \in S : t.id = s.id /\ t.learned = s.learned
<1>1. PICK a \in S : T = (S \ {a}) \cup {[a EXCEPT !.content = Rotten]}
  BY DEF Damaged
<1>2. /\ [a EXCEPT !.content = Rotten] \in EvaluationRecords
      /\ [a EXCEPT !.content = Rotten].id = a.id /\ [a EXCEPT !.content = Rotten].learned = a.learned
  BY DEF EvaluationRecords, Contents
<1>. QED BY <1>1, <1>2

LEMMA DamagedBundles ==
  ASSUME NEW S \in SUBSET BundleRecords, NEW T \in Damaged(S)
  PROVE  /\ T \in SUBSET BundleRecords
         /\ \A t \in T : \E s \in S : t.id = s.id /\ t.learned = s.learned /\ t.estimated = s.estimated
<1>1. PICK a \in S : T = (S \ {a}) \cup {[a EXCEPT !.content = Rotten]}
  BY DEF Damaged
<1>2. /\ [a EXCEPT !.content = Rotten] \in BundleRecords
      /\ [a EXCEPT !.content = Rotten].id = a.id /\ [a EXCEPT !.content = Rotten].learned = a.learned
      /\ [a EXCEPT !.content = Rotten].estimated = a.estimated
  BY DEF BundleRecords, Contents
<1>. QED BY <1>1, <1>2

\* The archive grows, files are damaged, a dataset is removed.
LEMMA EnvironmentHolds ==
  ASSUME ArtifactsInv, ArchiveDay \/ Damage \/ RemoveDataset
  PROVE  ArtifactsInv'
<1>1. CASE ArchiveDay
  <2>1. archived' = archived + 1 /\ archived \in Nat /\ UNCHANGED <<datasets, evaluations, bundles, work>>
    BY <1>1 DEF ArchiveDay, ArtifactsInv, ArtifactsTypeOK
  <2>2. \A w \in Workers : Doing(w, "loaded") => work[w].version \in Nat
    BY CommandOf DEF ArtifactsInv
  <2>3. ReadBeforeHashed'
    BY <2>1, <2>2 DEF ArtifactsInv, ReadBeforeHashed, Version, Doing
  <2>4. ArtifactsTypeOK' /\ LearnedFromNamed' /\ AnswersUnharmed'
    BY <2>1 DEF ArtifactsInv, ArtifactsTypeOK, LearnedFromNamed, AnswersUnharmed, Doing
  <2>. QED BY <2>3, <2>4 DEF ArtifactsInv
<1>2. CASE Damage \/ RemoveDataset
  <2>1. UNCHANGED <<archived, work>> /\ \A kind : Version(kind)' = Version(kind)
    BY <1>2 DEF Damage, RemoveDataset, Version
  <2>2. datasets' \in SUBSET DatasetRecords /\ \A ds \in datasets' : \E old \in datasets : ds.id = old.id
    BY <1>2, DamagedDatasets DEF Damage, RemoveDataset, ArtifactsInv, ArtifactsTypeOK
  <2>3. /\ evaluations' \in SUBSET EvaluationRecords
        /\ \A e \in evaluations' : \E old \in evaluations : e.id = old.id /\ e.learned = old.learned
    BY <1>2, DamagedEvaluations DEF Damage, RemoveDataset, ArtifactsInv, ArtifactsTypeOK
  <2>4. /\ bundles' \in SUBSET BundleRecords
        /\ \A b \in bundles' : \E old \in bundles :
              b.id = old.id /\ b.learned = old.learned /\ b.estimated = old.estimated
    BY <1>2, DamagedBundles DEF Damage, RemoveDataset, ArtifactsInv, ArtifactsTypeOK
  <2>5. ArtifactsTypeOK' /\ AnswersUnharmed'
    BY <2>1, <2>2, <2>3, <2>4 DEF ArtifactsInv, ArtifactsTypeOK, AnswersUnharmed, Doing
  <2>6. ReadBeforeHashed'
    BY <2>1, <2>2 DEF ArtifactsInv, ReadBeforeHashed, Doing
  <2>7. LearnedFromNamed'
    BY <2>1, <2>3, <2>4 DEF ArtifactsInv, LearnedFromNamed, Doing
  <2>. QED BY <2>5, <2>6, <2>7 DEF ArtifactsInv
<1>. QED BY <1>1, <1>2

\* Every step keeps the invariant.
LEMMA ArtifactsStepHolds == ArtifactsInv /\ [ArtifactsNext]_artifactVars => ArtifactsInv'
<1>. SUFFICES ASSUME ArtifactsInv, [ArtifactsNext]_artifactVars PROVE ArtifactsInv'
  OBVIOUS
<1>1. ASSUME NEW w \in Workers,
             \/ LoadSource(w) \/ HashManifest(w) \/ ReuseDataset(w) \/ CopyManifest(w)
             \/ PublishResearch(w) \/ StartEvaluation(w) \/ PublishEvaluation(w) \/ FreezeBundle(w)
      PROVE  ArtifactsInv'
  BY <1>1, SourceHolds, DatasetHolds, EvaluationHolds, BundleHolds
<1>2. ASSUME NEW w \in Workers, Return(w) \/ KillWork(w) PROVE ArtifactsInv'
  <2>1. SetWork(w, None) /\ UNCHANGED <<archived, datasets, evaluations, bundles>>
    BY <1>2 DEF Return, KillWork
  <2>. QED BY <2>1, FailStep DEF Fail
<1>3. CASE UNCHANGED artifactVars
  BY <1>3 DEF artifactVars, ArtifactsInv, ArtifactsTypeOK, ReadBeforeHashed, LearnedFromNamed,
              AnswersUnharmed, Doing, Version
<1>. QED BY <1>1, <1>2, <1>3, EnvironmentHolds DEF ArtifactsNext

\* However many commands run at a time, whatever is damaged, removed and built again, and
\* whenever the archive grows: the models of a bundle and its estimates come from the
\* rows that its name says, and no command answers with a damaged artifact
\* (build_shadow_bundle, _existing_result, _load_archive_catalog_source).
THEOREM ProvenanceHolds == ArtifactsSpec => []Provenance
<1>1. ArtifactsInv => Provenance
  BY DEF ArtifactsInv, ReadBeforeHashed, LearnedFromNamed, AnswersUnharmed, Provenance
<1>. QED BY <1>1, ArtifactsInitHolds, ArtifactsStepHolds, PTL DEF ArtifactsSpec

-----------------------------------------------------------------------------
(* Nothing leaks from the rows that judge a model into those that fit it, for any
   rows and any parameters. *)

\* A finite number of rows, decided and labelled at times from the epoch on.
Dated(rows) == IsFiniteSet(rows) /\ \A r \in rows : r.decision \in Nat /\ r.end \in Nat

\* The decisions of rows are finitely many times.
LEMMA DecisionsAre ==
  ASSUME NEW rows, Dated(rows)
  PROVE  /\ IsFiniteSet(Decisions(rows)) /\ Decisions(rows) \subseteq Nat
         /\ rows # {} => Decisions(rows) # {}
         /\ \A r \in rows : r.decision \in Decisions(rows)
<1>. DEFINE f == [r \in rows |-> r.decision]
<1>1. f \in Surjection(rows, Decisions(rows))
  BY DEF Surjection, Decisions
<1>2. IsFiniteSet(Decisions(rows))
  BY <1>1, FS_Surjection DEF Dated
<1>. QED BY <1>2 DEF Dated, Decisions

\* Some of the rows are rows as well.
LEMMA SomeDated ==
  ASSUME NEW rows, Dated(rows), NEW some, some \subseteq rows
  PROVE  Dated(some)
BY FS_Subset DEF Dated

\* test_start_ns and calibration_start_ns of a smoke are decisions of the rows.
LEMMA SeventyPercentDecided ==
  ASSUME NEW rows, Dated(rows), rows # {}, NEW least \in Nat
  PROVE  SeventyPercent(rows, least) \in Decisions(rows)
<1>. DEFINE S == Decisions(rows)
            n == Cardinality(S)
            offset == Max({(7 * n) \div 10, least})
            k == Min({offset, n - 1})
<1>1. IsFiniteSet(S) /\ S \subseteq Int /\ S # {}
  BY DecisionsAre
<1>2. n \in Nat /\ n > 0
  BY <1>1, FS_CardinalityType, FS_EmptySet
<1>3. (7 * n) \div 10 \in Nat
  BY <1>2
<1>4. ASSUME NEW a \in Int, NEW b \in Int PROVE IsFiniteSet({a, b})
  <2>1. {a, b} = {a} \cup {b} /\ IsFiniteSet({a})
    BY FS_Singleton
  <2>. QED BY <2>1, FS_AddElement
<1>5. offset \in Nat
  <2>. DEFINE P == {(7 * n) \div 10, least}
  <2>1. IsFiniteSet(P) /\ P \subseteq Int /\ P # {} /\ P \subseteq Nat
    BY <1>3, <1>4
  <2>. HIDE DEF P
  <2>2. Max(P) \in P
    BY <2>1, Extremes DEF Greatest
  <2>. QED BY <2>1, <2>2 DEF P
<1>6. k \in 0 .. n - 1
  <2>. DEFINE P == {offset, n - 1}
  <2>. HIDE DEF offset, n
  <2>1. IsFiniteSet(P) /\ P \subseteq Int /\ P # {} /\ P \subseteq Nat /\ n - 1 \in P
    BY <1>2, <1>4, <1>5
  <2>. HIDE DEF P
  <2>2. Min(P) \in P /\ Min(P) <= n - 1
    BY <2>1, Extremes DEF Least
  <2>. QED BY <1>2, <2>1, <2>2 DEF P
<1>7. \E d \in S : Cardinality(Below(S, d)) = k
  BY <1>1, <1>6, RankExists
<1>8. SeventyPercent(rows, least) = CHOOSE d \in S : Cardinality(Below(S, d)) = k
  BY DEF SeventyPercent, Below
<1>. QED BY <1>7, <1>8

-----------------------------------------------------------------------------
(* The windows that test. *)

\* test_width_ns.
Width == TestDays * Day

\* The k-th test window starts behind minimum_train_days and k windows.
StartOf(rows, k) == Min(Decisions(rows)) + (TrainDays + k * TestDays) * Day

\* The windows of walk-forward folds stand on a grid.
LEMMA Grid ==
  ASSUME NEW rows, Dated(rows), rows # {}
  PROVE  /\ Width \in Nat \ {0}
         /\ \A k \in Int : /\ StartOf(rows, k) \in Int
                           /\ StartOf(rows, k + 1) = StartOf(rows, k) + Width
         /\ \A j, k \in Int : j < k => StartOf(rows, j) + Width <= StartOf(rows, k)
<1>. DEFINE first == Min(Decisions(rows))
<1>1. first \in Int
  <2>1. IsFiniteSet(Decisions(rows)) /\ Decisions(rows) \subseteq Int /\ Decisions(rows) # {}
    BY DecisionsAre
  <2>. QED BY <2>1, Extremes DEF Least
<1>2. Day \in Nat \ {0} /\ TrainDays \in Nat \ {0} /\ TestDays \in Nat \ {0}
  BY SplitsAssumption
<1>3. Width \in Nat \ {0}
  BY <1>2 DEF Width
<1>. DEFINE lead == TrainDays * Day
<1>4. lead \in Int
  BY <1>2
<1>5. ASSUME NEW k \in Int PROVE (TrainDays + k * TestDays) * Day = lead + k * Width
  BY <1>2, <1>5 DEF Width
<1>6. ASSUME NEW k \in Int PROVE k * Width \in Int /\ (k + 1) * Width = k * Width + Width
  BY <1>3, <1>6
<1>7. ASSUME NEW k \in Int PROVE StartOf(rows, k) = first + lead + k * Width
  <2>. HIDE DEF lead, first
  <2>1. k * Width \in Int
    BY <1>6
  <2>2. StartOf(rows, k) = first + (lead + k * Width)
    BY <1>5 DEF StartOf, first
  <2>. QED BY <1>1, <1>4, <2>1, <2>2
<1>8. ASSUME NEW j \in Int, NEW k \in Int, j < k PROVE j * Width + Width <= k * Width
  <2>1. (k - (j + 1)) \in Nat
    BY <1>8
  <2>2. (k - (j + 1)) * Width \in Nat
    BY <1>3, <2>1
  <2>3. k * Width = (j + 1) * Width + (k - (j + 1)) * Width
    BY <1>3, <2>1
  <2>. QED BY <1>3, <1>6, <2>2, <2>3
<1>. HIDE DEF lead, first
<1>9. \A k \in Int : k + 1 \in Int
  OBVIOUS
<1>. QED BY <1>1, <1>3, <1>4, <1>6, <1>7, <1>8, <1>9

\* The starts are finitely many of the grid, and their windows end in time.
LEMMA StartsAre ==
  ASSUME NEW rows, Dated(rows), rows # {}
  PROVE  /\ End(rows) \in Nat /\ \A r \in rows : r.decision < End(rows)
         /\ TestStarts(rows) = {s \in {StartOf(rows, k) : k \in 0 .. End(rows)} : s + Width <= End(rows)}
         /\ IsFiniteSet(TestStarts(rows))
<1>1. IsFiniteSet(Decisions(rows)) /\ Decisions(rows) \subseteq Nat /\ Decisions(rows) # {}
  BY DecisionsAre
<1>2. Greatest(Decisions(rows), Max(Decisions(rows)))
  BY <1>1, Extremes
<1>3. /\ Max(Decisions(rows)) \in Nat
      /\ \A r \in rows : r.decision \in Nat /\ r.decision <= Max(Decisions(rows))
  BY <1>1, <1>2, DecisionsAre DEF Greatest
<1>4. End(rows) \in Nat /\ \A r \in rows : r.decision < End(rows)
  BY <1>3 DEF End
<1>. DEFINE G == {StartOf(rows, k) : k \in 0 .. End(rows)}
            g == [k \in 0 .. End(rows) |-> StartOf(rows, k)]
<1>5. TestStarts(rows) = {s \in G : s + Width <= End(rows)}
  BY DEF TestStarts, StartOf, Width
<1>6. g \in Surjection(0 .. End(rows), G)
  BY DEF Surjection
<1>7. IsFiniteSet(0 .. End(rows))
  BY <1>4, FS_Interval
<1>8. IsFiniteSet(G)
  BY <1>6, <1>7, FS_Surjection
<1>9. IsFiniteSet(TestStarts(rows))
  <2>1. TestStarts(rows) \in SUBSET G
    BY <1>5
  <2>. QED BY <1>8, <2>1, FS_Subset
<1>. QED BY <1>4, <1>5, <1>9

\* A walk-forward window and that of a technical smoke.
WindowAt(s) == [start |-> s, end |-> s + Width, smoke |-> FALSE]
Smoke(rows) == [start |-> SeventyPercent(rows, 0), end |-> End(rows), smoke |-> TRUE]

\* A window is one of the grid or the only one, of a technical smoke.
LEMMA WindowsAre ==
  ASSUME NEW rows, Dated(rows), rows # {}
  PROVE  /\ TestStarts(rows) = {} => Windows(rows) = {Smoke(rows)}
         /\ TestStarts(rows) # {} => Windows(rows) = {WindowAt(s) : s \in Kept(TestStarts(rows))}
         /\ \A w \in Windows(rows) : w.start \in Int /\ w.end \in Int
<1>1. /\ TestStarts(rows) = {} => Windows(rows) = {Smoke(rows)}
      /\ TestStarts(rows) # {} => Windows(rows) = {WindowAt(s) : s \in Kept(TestStarts(rows))}
  BY DEF Windows, Smoke, WindowAt, Width
<1>2. Smoke(rows).start \in Int /\ Smoke(rows).end \in Int
  <2>1. SeventyPercent(rows, 0) \in Decisions(rows) /\ Decisions(rows) \subseteq Nat
    BY SeventyPercentDecided, DecisionsAre
  <2>. QED BY <2>1, StartsAre DEF Smoke
<1>3. ASSUME NEW s \in Kept(TestStarts(rows)) PROVE WindowAt(s).start \in Int /\ WindowAt(s).end \in Int
  <2>1. PICK k \in 0 .. End(rows) : s = StartOf(rows, k)
    BY StartsAre DEF Kept
  <2>2. s \in Int /\ s + Width \in Int
    BY <2>1, Grid, StartsAre
  <2>. QED BY <2>2 DEF WindowAt
<1>4. \A w \in Windows(rows) : w.start \in Int /\ w.end \in Int
  <2>1. CASE TestStarts(rows) = {}
    BY <1>1, <1>2, <2>1
  <2>2. CASE TestStarts(rows) # {}
    <3>1. SUFFICES ASSUME NEW w \in Windows(rows) PROVE w.start \in Int /\ w.end \in Int
      OBVIOUS
    <3>2. PICK s \in Kept(TestStarts(rows)) : w = WindowAt(s)
      BY <1>1, <2>2, <3>1
    <3>. QED BY <1>3, <3>2
  <2>. QED BY <2>1, <2>2
<1>. QED BY <1>1, <1>4

\* Between two windows of the grid every decision is in a window of the grid.
LEMMA WindowBetween ==
  ASSUME NEW rows, Dated(rows), rows # {}, NEW j \in Nat, NEW l \in Nat, NEW d \in Int,
         StartOf(rows, j) <= d, d < StartOf(rows, l) + Width
  PROVE  \E k \in j .. l : StartOf(rows, k) <= d /\ d < StartOf(rows, k) + Width
<1>. DEFINE from(k) == StartOf(rows, k)
<1>1. /\ Width \in Nat /\ \A k \in Int : from(k) \in Int /\ from(k + 1) = from(k) + Width
      /\ \A i, k \in Int : i < k => from(i) + Width <= from(k)
  BY Grid
<1>. HIDE DEF from
<1>2. from(j) <= d /\ d < from(l) + Width
  BY DEF from
<1>3. j <= l
  BY <1>1, <1>2
<1>4. SUFFICES ASSUME \A k \in j .. l : ~ (from(k) <= d /\ d < from(k) + Width) PROVE FALSE
  BY DEF from
<1>. DEFINE n == l - j
            T == {i \in 0 .. n : from(j + i) <= d}
<1>5. n \in Nat /\ j + 0 = j /\ j + n = l /\ 0 \in 0 .. n /\ n \in 0 .. n
  BY <1>3
<1>6. 0 \in T
  BY <1>2, <1>5
<1>7. ASSUME NEW i \in 0 .. n - 1, i \in T PROVE i + 1 \in T
  <2>1. j + i \in j .. l /\ j + i \in Int /\ i + 1 \in 0 .. n /\ j + (i + 1) = (j + i) + 1
    BY <1>5
  <2>2. from(j + i) <= d /\ from(j + i) \in Int
    BY <1>1, <1>7, <2>1
  <2>3. from(j + i) + Width <= d
    BY <1>1, <1>4, <2>1, <2>2
  <2>. QED BY <1>1, <2>1, <2>3
<1>8. \A i \in 0 .. n : i \in T
  <2>. HIDE DEF T
  <2>. QED BY <1>5, <1>6, <1>7, UpTo
<1>9. from(l) <= d
  BY <1>5, <1>8
<1>10. l \in j .. l
  BY <1>3
<1>. QED BY <1>2, <1>4, <1>9, <1>10

-----------------------------------------------------------------------------
(* What is learned and what is judged. *)

\* A split is an accepted fold with its accepted calibration.
SplitOf(rows, w) == [fold |-> Fold(rows, w), parts |-> Calibration(Fold(rows, w))]

\* Splits are those of all windows, or there are none.
LEMMA SplitsAre ==
  ASSUME NEW rows, Splits(rows) # {}
  PROVE  /\ rows # {} /\ Splits(rows) = {SplitOf(rows, w) : w \in Windows(rows)}
         /\ \A w \in Windows(rows) :
              /\ FoldAccepted(Fold(rows, w))
              /\ CalibrationAccepted(Fold(rows, w), Calibration(Fold(rows, w)))
<1>1. /\ Folds(rows) # {}
      /\ Splits(rows) = {[fold |-> f, parts |-> Calibration(f)] : f \in Folds(rows)}
      /\ \A f \in Folds(rows) : CalibrationAccepted(f, Calibration(f))
  BY DEF Splits
<1>2. /\ rows # {} /\ Folds(rows) = {Fold(rows, w) : w \in Windows(rows)}
      /\ \A f \in Folds(rows) : FoldAccepted(f)
  BY <1>1 DEF Folds
<1>3. Splits(rows) = {SplitOf(rows, w) : w \in Windows(rows)}
  BY <1>1, <1>2 DEF SplitOf
<1>. QED BY <1>1, <1>2, <1>3

\* Within a fold, labels end the embargo before what they are judged by.
LEMMA FoldPurged ==
  ASSUME NEW rows, Dated(rows), rows # {}, NEW w \in Windows(rows),
         NEW f, f = Fold(rows, w), FoldAccepted(f),
         NEW parts, parts = Calibration(f), CalibrationAccepted(f, parts)
  PROVE  /\ \A r \in parts.fit, c \in parts.calibration : r.end + Embargo <= c.decision
         /\ \A r \in f.train, t \in f.test : r.end + Embargo <= t.decision
         /\ parts.fit \cup parts.calibration \subseteq f.train
         /\ AllClasses(parts.fit) /\ f.test # {} /\ parts.calibration # {}
<1>1. /\ Embargo \in Nat /\ CalibrationDays \in Nat /\ Day \in Nat
      /\ MinimumTrain \in Nat \ {0} /\ MinimumTest \in Nat \ {0} /\ MinimumCalibration \in Nat \ {0}
  BY SplitsAssumption
<1>2. w.start \in Int /\ f.window = w
  BY WindowsAre DEF Fold
<1>3. \A r \in f.train : r \in rows /\ r.end <= w.start - Embargo
  BY DEF Fold, KnownBefore
<1>4. \A t \in f.test : t \in rows /\ w.start <= t.decision
  BY DEF Fold
<1>5. \A r \in rows : r.decision \in Nat /\ r.end \in Nat
  BY DEF Dated
<1>6. Dated(f.train) /\ Dated(f.test)
  BY <1>3, <1>4, SomeDated
<1>7. f.train # {} /\ f.test # {}
  <2>1. Cardinality(f.train) >= MinimumTrain /\ Cardinality(f.test) >= MinimumTest
    BY DEF FoldAccepted
  <2>2. ~ (0 >= MinimumTrain) /\ ~ (0 >= MinimumTest) /\ Cardinality({}) = 0
    BY <1>1, FS_EmptySet
  <2>. QED BY <2>1, <2>2
<1>. DEFINE start == CalibrationStart(f)
<1>8. start \in Int
  <2>. DEFINE desired == w.start - Embargo - CalibrationDays * Day
  <2>1. CalibrationDays * Day \in Int
    BY <1>1
  <2>2. desired \in Int
    BY <1>1, <1>2, <2>1
  <2>3. SeventyPercent(f.train, 1) \in Int
    BY <1>6, <1>7, SeventyPercentDecided, DecisionsAre
  <2>4. start = desired \/ start = SeventyPercent(f.train, 1)
    BY <1>2 DEF CalibrationStart
  <2>. QED BY <2>2, <2>3, <2>4
<1>9. /\ parts.fit = KnownBefore(f.train, start)
      /\ parts.calibration = {r \in f.train : r.decision >= start}
  BY DEF Calibration
<1>. HIDE DEF start
<1>10. ASSUME NEW r \in parts.fit, NEW c \in parts.calibration PROVE r.end + Embargo <= c.decision
  <2>1. r \in f.train /\ r.end <= start - Embargo /\ c \in f.train /\ c.decision >= start
    BY <1>9 DEF KnownBefore
  <2>2. r.end \in Nat /\ c.decision \in Nat
    BY <1>3, <1>5, <2>1
  <2>. QED BY <1>1, <1>8, <2>1, <2>2
<1>11. ASSUME NEW r \in f.train, NEW t \in f.test PROVE r.end + Embargo <= t.decision
  <2>1. r.end <= w.start - Embargo /\ w.start <= t.decision /\ r.end \in Nat /\ t.decision \in Nat
    BY <1>3, <1>4, <1>5
  <2>. QED BY <1>1, <1>2, <2>1
<1>12. parts.fit \cup parts.calibration \subseteq f.train
  BY <1>9 DEF KnownBefore
<1>13. AllClasses(parts.fit) /\ Cardinality(parts.calibration) >= MinimumCalibration
  BY DEF CalibrationAccepted
<1>14. parts.calibration # {}
  <2>1. ~ (0 >= MinimumCalibration) /\ Cardinality({}) = 0
    BY <1>1, FS_EmptySet
  <2>. QED BY <1>13, <2>1
<1>. QED BY <1>7, <1>10, <1>11, <1>12, <1>13, <1>14

\* Two windows share no decision.
LEMMA WindowsApart ==
  ASSUME NEW rows, Dated(rows), rows # {}, NEW w \in Windows(rows), NEW v \in Windows(rows), w # v,
         NEW d \in Int, w.start <= d, d < w.end, v.start <= d, d < v.end
  PROVE  FALSE
<1>1. TestStarts(rows) # {}
  BY WindowsAre
<1>2. PICK s \in Kept(TestStarts(rows)), t \in Kept(TestStarts(rows)) : w = WindowAt(s) /\ v = WindowAt(t)
  BY <1>1, WindowsAre
<1>3. PICK j \in 0 .. End(rows), k \in 0 .. End(rows) : s = StartOf(rows, j) /\ t = StartOf(rows, k)
  BY StartsAre DEF Kept
<1>4. j \in Int /\ k \in Int /\ j # k
  BY <1>2, <1>3, StartsAre
<1>5. /\ s \in Int /\ t \in Int /\ Width \in Nat
      /\ j < k => s + Width <= t
      /\ k < j => t + Width <= s
  BY <1>3, <1>4, Grid
<1>6. s <= d /\ d < s + Width /\ t <= d /\ d < t + Width
  BY <1>2 DEF WindowAt
<1>. QED BY <1>4, <1>5, <1>6

\* A decision between tested ones is tested.
LEMMA AllBetweenTested ==
  ASSUME NEW rows, Dated(rows), rows # {}, NEW w \in Windows(rows), NEW v \in Windows(rows),
         NEW r \in rows, NEW a \in Int, NEW b \in Int, w.start <= a, b < v.end,
         a <= r.decision, r.decision <= b
  PROVE  \E u \in Windows(rows) : u.start <= r.decision /\ r.decision < u.end
<1>. DEFINE d == r.decision
            starts == TestStarts(rows)
<1>1. d \in Nat /\ d < End(rows) /\ w.start \in Int /\ v.end \in Int
  BY WindowsAre, StartsAre DEF Dated
<1>2. w.start <= d /\ d < v.end
  <2>. HIDE DEF d
  <2>1. a <= d /\ d <= b
    BY DEF d
  <2>. QED BY <1>1, <2>1
<1>3. CASE starts = {}
  <2>1. w = Smoke(rows) /\ w.end = End(rows)
    BY <1>3, WindowsAre DEF Smoke
  <2>. QED BY <1>1, <1>2, <2>1
<1>4. CASE starts # {}
  <2>1. PICK s \in Kept(starts), t \in Kept(starts) : w = WindowAt(s) /\ v = WindowAt(t)
    BY <1>4, WindowsAre
  <2>2. /\ w.start = s /\ v.end = t + Width
        /\ s \in starts /\ Cardinality({x \in starts : x > s}) < MaximumFolds
        /\ t \in starts /\ t + Width <= End(rows)
    BY <2>1, StartsAre DEF WindowAt, Kept
  <2>3. PICK j \in 0 .. End(rows), l \in 0 .. End(rows) : s = StartOf(rows, j) /\ t = StartOf(rows, l)
    BY <2>2, StartsAre
  <2>4. j \in Nat /\ l \in Nat
    BY <2>3, StartsAre
  <2>5. PICK k \in j .. l : StartOf(rows, k) <= d /\ d < StartOf(rows, k) + Width
    <3>. HIDE DEF d
    <3>1. StartOf(rows, j) <= d /\ d < StartOf(rows, l) + Width /\ d \in Int
      BY <1>1, <1>2, <2>2, <2>3
    <3>. QED BY <2>4, <3>1, WindowBetween
  <2>. DEFINE u == StartOf(rows, k)
  <2>6. /\ k \in Nat /\ k \in 0 .. End(rows) /\ u \in Int /\ s \in Int /\ t \in Int
        /\ Width \in Nat /\ s <= u /\ u <= t
    <3>1. k \in 0 .. End(rows) /\ k \in Int /\ j \in Int /\ l \in Int
      BY <2>3, <2>4, StartsAre
    <3>2. /\ u \in Int /\ s \in Int /\ t \in Int /\ Width \in Nat
          /\ j < k => s + Width <= u
          /\ k < l => u + Width <= t
      BY <2>3, <3>1, Grid
    <3>3. (j = k \/ j < k) /\ (k = l \/ k < l) /\ k \in Nat
      BY <2>4
    <3>. HIDE DEF u
    <3>4. (j = k => s = u) /\ (k = l => u = t)
      BY <2>3 DEF u
    <3>. QED BY <3>1, <3>2, <3>3, <3>4
  <2>. HIDE DEF u
  <2>7. u + Width <= End(rows)
    <3>1. End(rows) \in Nat
      BY StartsAre
    <3>. QED BY <2>2, <2>6, <3>1
  <2>8. u \in starts
    <3>1. u \in {StartOf(rows, i) : i \in 0 .. End(rows)}
      BY <2>6 DEF u
    <3>. QED BY <2>7, <3>1, StartsAre
  <2>9. Cardinality({x \in starts : x > u}) < MaximumFolds
    <3>. DEFINE S == {x \in starts : x > s}
                U == {x \in starts : x > u}
    <3>1. ASSUME NEW x \in starts PROVE x \in Int
      <4>1. PICK i \in 0 .. End(rows) : x = StartOf(rows, i)
        BY StartsAre
      <4>2. i \in Int
        BY StartsAre
      <4>. QED BY <4>1, <4>2, Grid
    <3>2. U \in SUBSET S
      BY <2>6, <3>1
    <3>3. S \in SUBSET starts /\ IsFiniteSet(starts)
      BY StartsAre
    <3>. HIDE DEF S, U
    <3>4. IsFiniteSet(S) /\ IsFiniteSet(U) /\ Cardinality(U) <= Cardinality(S)
      BY <3>2, <3>3, FS_Subset
    <3>5. Cardinality(S) \in Nat /\ Cardinality(U) \in Nat /\ MaximumFolds \in Nat
      BY <3>4, FS_CardinalityType, SplitsAssumption
    <3>6. Cardinality(S) < MaximumFolds
      BY <2>2 DEF S
    <3>7. Cardinality(U) < MaximumFolds
      BY <3>4, <3>5, <3>6
    <3>. QED BY <3>7 DEF U
  <2>10. WindowAt(u) \in Windows(rows)
    BY <1>4, <2>8, <2>9, WindowsAre DEF Kept
  <2>11. WindowAt(u).start <= d /\ d < WindowAt(u).end
    BY <2>5 DEF WindowAt, u
  <2>. QED BY <2>10, <2>11
<1>. QED BY <1>3, <1>4

\* No row that fits a model, in a fold or in the calibration inside it, has a label
\* that is still open the embargo before the rows that judge it; parts of different
\* folds test different decisions, and all of the span they cover
\* (build_temporal_folds, build_calibration_split and their execution variants).
THEOREM SplitsPurged ==
  ASSUME NEW rows, Dated(rows)
  PROVE  Purged(rows, Splits(rows))
<1>1. CASE Splits(rows) = {}
  <2>1. UNION {s.fold.test : s \in {}} = {}
    OBVIOUS
  <2>. QED BY <1>1, <2>1 DEF Purged
<1>2. CASE Splits(rows) # {}
  <2>1. /\ rows # {} /\ Splits(rows) = {SplitOf(rows, w) : w \in Windows(rows)}
        /\ \A w \in Windows(rows) :
              /\ FoldAccepted(Fold(rows, w))
              /\ CalibrationAccepted(Fold(rows, w), Calibration(Fold(rows, w)))
    BY <1>2, SplitsAre
  <2>2. \A w \in Windows(rows) :
          /\ SplitOf(rows, w) \in Splits(rows)
          /\ SplitOf(rows, w).fold = Fold(rows, w)
          /\ SplitOf(rows, w).parts = Calibration(Fold(rows, w))
          /\ Fold(rows, w).test = {r \in rows : w.start <= r.decision /\ r.decision < w.end}
    BY <2>1 DEF SplitOf, Fold
  <2>3. ASSUME NEW s \in Splits(rows)
        PROVE  /\ \A r \in s.parts.fit, c \in s.parts.calibration : r.end + Embargo <= c.decision
               /\ \A r \in s.fold.train, t \in s.fold.test : r.end + Embargo <= t.decision
               /\ s.parts.fit \cup s.parts.calibration \subseteq s.fold.train
               /\ AllClasses(s.parts.fit) /\ s.fold.test # {} /\ s.parts.calibration # {}
    <3>1. PICK w \in Windows(rows) : s = SplitOf(rows, w)
      BY <2>1
    <3>2. s.fold = Fold(rows, w) /\ s.parts = Calibration(s.fold)
      BY <2>2, <3>1
    <3>3. FoldAccepted(s.fold) /\ CalibrationAccepted(s.fold, s.parts)
      BY <2>1, <3>2
    <3>. QED BY <2>1, <3>2, <3>3, FoldPurged
  <2>4. ASSUME NEW s \in Splits(rows), NEW t \in Splits(rows), s # t
        PROVE  Decisions(s.fold.test) \cap Decisions(t.fold.test) = {}
    <3>1. PICK w \in Windows(rows), v \in Windows(rows) : s = SplitOf(rows, w) /\ t = SplitOf(rows, v)
      BY <2>1
    <3>2. w # v
      BY <2>4, <3>1
    <3>3. SUFFICES ASSUME NEW d \in Decisions(s.fold.test), d \in Decisions(t.fold.test) PROVE FALSE
      OBVIOUS
    <3>4. d \in Int /\ w.start <= d /\ d < w.end /\ v.start <= d /\ d < v.end
      <4>1. PICK x \in s.fold.test : d = x.decision
        BY <3>3 DEF Decisions
      <4>2. PICK y \in t.fold.test : d = y.decision
        BY <3>3 DEF Decisions
      <4>3. x \in Fold(rows, w).test /\ y \in Fold(rows, v).test
        BY <2>2, <3>1, <4>1, <4>2
      <4>4. x \in rows /\ w.start <= x.decision /\ x.decision < w.end
        BY <2>2, <4>3
      <4>5. v.start <= y.decision /\ y.decision < v.end
        BY <2>2, <4>3
      <4>6. d \in Int
        BY <4>1, <4>4 DEF Dated
      <4>. QED BY <4>1, <4>2, <4>4, <4>5, <4>6
    <3>. QED BY <2>1, <3>2, <3>4, WindowsApart
  <2>. DEFINE tested == UNION {s.fold.test : s \in Splits(rows)}
  <2>5. ASSUME NEW r \in rows, NEW a \in tested, NEW b \in tested,
               a.decision <= r.decision, r.decision <= b.decision
        PROVE  r \in tested
    <3>1. PICK s \in Splits(rows), t \in Splits(rows) : a \in s.fold.test /\ b \in t.fold.test
      OBVIOUS
    <3>2. PICK w \in Windows(rows), v \in Windows(rows) : s = SplitOf(rows, w) /\ t = SplitOf(rows, v)
      BY <2>1
    <3>3. a \in Fold(rows, w).test /\ b \in Fold(rows, v).test
      BY <2>2, <3>1, <3>2
    <3>4. /\ a.decision \in Int /\ b.decision \in Int
          /\ w.start <= a.decision /\ b.decision < v.end
      BY <2>2, <3>3 DEF Dated
    <3>5. PICK u \in Windows(rows) : u.start <= r.decision /\ r.decision < u.end
      BY <2>1, <2>5, <3>4, AllBetweenTested
    <3>6. r \in Fold(rows, u).test
      BY <2>2, <3>5
    <3>7. SplitOf(rows, u) \in Splits(rows) /\ r \in SplitOf(rows, u).fold.test
      BY <2>2, <3>6
    <3>. QED BY <3>7
  <2>. QED BY <2>3, <2>4, <2>5 DEF Purged
<1>. QED BY <1>1, <1>2

-----------------------------------------------------------------------------
(* The replay.  Each decision is followed with what is known of the report so far:
   its attempts stand one behind the other, and its deque and rolling return are those
   of the attempts that can still count. *)

(* Returns add up.  What a set of attempts has returned together does not depend on
   the order in which they are taken. *)

Paying(S) == IsFiniteSet(S) /\ \A a \in S : a.return \in Int

Returned(S) == MapThenSumSet(LAMBDA a : a.return, S)

ReturnsOf(S) == [a \in S |-> a.return]

\* The sum of a set is among the sums of its subsets (MapThenSumSet).
LEMMA ReturnedIsSummed ==
  ASSUME NEW S, Paying(S)
  PROVE  \E h : Summed(h, S, ReturnsOf(S)) /\ Returned(S) = h[S]
<1>. DEFINE v == ReturnsOf(S)
            Def(f) == [t \in SUBSET S |-> IF t = {} THEN 0
                                          ELSE (CHOOSE x \in t : TRUE).return + f[t \ {CHOOSE x \in t : TRUE}]]
            iter == CHOOSE f : f = Def(f)
<1>1. Returned(S) = iter[S]
  BY DEF Returned, MapThenSumSet, MapThenFoldSet
<1>2. ASSUME NEW t \in SUBSET S, t # {} PROVE v[CHOOSE x \in t : TRUE] = (CHOOSE x \in t : TRUE).return
  BY <1>2 DEF ReturnsOf
<1>3. Valued(S, v)
  BY DEF Valued, Paying, ReturnsOf
<1>. HIDE DEF v
<1>4. PICK h : Summed(h, S, v)
  BY <1>3, SummedExists
<1>5. h = Def(h)
  BY <1>2, <1>4 DEF Summed
<1>6. iter = Def(iter)
  <2>. HIDE DEF Def
  <2>. QED BY <1>5
<1>. HIDE DEF iter
<1>7. iter[{}] = 0 /\ iter = [t \in SUBSET S |-> iter[t]]
  BY <1>6
<1>8. \A t \in SUBSET S : t # {} => iter[t] = v[CHOOSE x \in t : TRUE] + iter[t \ {CHOOSE x \in t : TRUE}]
  BY <1>2, <1>6
<1>9. Summed(iter, S, v)
  BY <1>3, <1>7, <1>8, SumsFound
<1>. QED BY <1>1, <1>9 DEF v

\* What a set has returned is the return of any of its elements and that of the others.
LEMMA ReturnedAdds ==
  ASSUME NEW S, Paying(S)
  PROVE  /\ Returned(S) \in Int /\ Returned({}) = 0
         /\ \A x \in S : Returned(S) = x.return + Returned(S \ {x})
<1>1. PICK h : Summed(h, S, ReturnsOf(S)) /\ Returned(S) = h[S]
  BY ReturnedIsSummed
<1>2. ASSUME NEW U \in SUBSET S PROVE Returned(U) = h[U]
  <2>. DEFINE v == ReturnsOf(S)
              w == ReturnsOf(U)
  <2>1. Paying(U)
    BY FS_Subset DEF Paying
  <2>2. Valued(S, v) /\ \A a \in U : v[a] = w[a]
    BY DEF Valued, Paying, ReturnsOf
  <2>3. Summed(h, S, v)
    BY <1>1
  <2>4. PICK g : Summed(g, U, w) /\ Returned(U) = g[U]
    BY <2>1, ReturnedIsSummed
  <2>. HIDE DEF v, w
  <2>5. \A t \in SUBSET U : h[t] = g[t]
    BY <2>2, <2>3, <2>4, SumsAgree
  <2>. QED BY <2>4, <2>5
<1>3. \A t \in SUBSET S : h[t] \in Int /\ \A x \in t : h[t] = ReturnsOf(S)[x] + h[t \ {x}]
  <2>1. Valued(S, ReturnsOf(S))
    BY DEF Valued, Paying, ReturnsOf
  <2>2. Adding(h, S, ReturnsOf(S))
    BY <1>1, <2>1, SumsAdd
  <2>. QED BY <2>2 DEF Adding
<1>4. ASSUME NEW x \in S PROVE Returned(S) = x.return + Returned(S \ {x})
  <2>1. S \in SUBSET S /\ S \ {x} \in SUBSET S /\ ReturnsOf(S)[x] = x.return
    BY DEF ReturnsOf
  <2>2. h[S] = x.return + h[S \ {x}] /\ Returned(S \ {x}) = h[S \ {x}]
    BY <1>2, <1>3, <2>1
  <2>. QED BY <1>1, <2>2
<1>5. Returned({}) = 0
  <2>1. {} \in SUBSET S /\ h[{}] = 0
    BY <1>1 DEF Summed
  <2>. QED BY <1>2, <2>1
<1>6. Returned(S) \in Int
  <2>1. S \in SUBSET S
    OBVIOUS
  <2>. QED BY <1>1, <1>3, <2>1
<1>. QED BY <1>4, <1>5, <1>6

\* Attempts that returned nothing change no sum.
LEMMA NothingReturned ==
  ASSUME NEW S, Paying(S)
  PROVE  Returned(S) = Returned({a \in S : a.return # 0})
<1>. DEFINE Real(t) == {a \in t : a.return # 0}
            Good == {t \in SUBSET S : Returned(t) = Returned(Real(t))}
<1>1. \A t \in SUBSET S : Paying(t)
  BY FS_Subset DEF Paying
<1>2. {} \in Good
  <2>1. Real({}) = {}
    OBVIOUS
  <2>. QED BY <2>1
<1>3. ASSUME NEW t \in SUBSET S, t # {}, \A x \in t : t \ {x} \in Good PROVE t \in Good
  <2>1. PICK x \in t : TRUE
    BY <1>3
  <2>2. Paying(t) /\ Paying(Real(t)) /\ Paying(t \ {x}) /\ x.return \in Int
    <3>1. Real(t) \in SUBSET S /\ t \ {x} \in SUBSET S
      OBVIOUS
    <3>. QED BY <1>1, <3>1 DEF Paying
  <2>3. Returned(t) = x.return + Returned(t \ {x}) /\ Returned(t \ {x}) \in Int
    BY <2>2, ReturnedAdds
  <2>4. Returned(t \ {x}) = Returned(Real(t \ {x}))
    BY <1>3
  <2>5. CASE x.return = 0
    <3>1. Real(t \ {x}) = Real(t)
      BY <2>5
    <3>. HIDE DEF Real
    <3>2. Returned(t) = Returned(Real(t))
      BY <2>3, <2>4, <2>5, <3>1
    <3>. QED BY <3>2
  <2>6. CASE x.return # 0
    <3>1. Real(t \ {x}) = Real(t) \ {x} /\ x \in Real(t)
      BY <2>6
    <3>. HIDE DEF Real
    <3>2. Returned(Real(t)) = x.return + Returned(Real(t) \ {x})
      BY <2>2, <3>1, ReturnedAdds
    <3>3. Returned(t) = Returned(Real(t))
      BY <2>3, <2>4, <3>1, <3>2
    <3>. QED BY <3>3
  <2>. QED BY <2>5, <2>6
<1>4. S \in Good
  <2>1. IsFiniteSet(S) /\ S \in SUBSET S
    BY DEF Paying
  <2>. HIDE DEF Good
  <2>. QED BY <1>2, <1>3, <2>1, BySize
<1>. QED BY <1>4

-----------------------------------------------------------------------------
(* Candidates *)

\* Rows as an evaluation predicts them: one for a symbol and side of a decision, and
\* every order ends behind its decision.
Replayed(rows) ==
  /\ IsFiniteSet(rows)
  /\ \A r \in rows :
       /\ r.decision \in Nat /\ r.expected \in Int /\ r.return \in Int
       /\ r.symbol \in Int /\ r.side \in {"LONG", "SHORT"}
       /\ ExitOf(r) \in Int /\ ExitOf(r) > r.decision
  /\ \A r, o \in rows : r.decision = o.decision /\ r.symbol = o.symbol /\ r.side = o.side => r = o

Group(rows, d) == {r \in rows : r.decision = d}

\* Of the candidates of a decision that are expected to earn enough, the one that is
\* taken is preferred to all others (run_execution_one_position_backtest).
LEMMA BestIs ==
  ASSUME NEW rows, Replayed(rows), NEW d, NEW group, group = Group(rows, d), Eligible(group) # {}
  PROVE  Best(group) \in Eligible(group) /\ \A o \in Eligible(group) \ {Best(group)} : Preferred(Best(group), o)
<1>. DEFINE S == Eligible(group)
            Good == {t \in SUBSET S : t # {} => \E r \in t : \A o \in t \ {r} : Preferred(r, o)}
<1>1. /\ S \subseteq rows /\ IsFiniteSet(S)
      /\ \A r \in S : r.expected \in Int /\ r.symbol \in Int /\ r.side \in {"LONG", "SHORT"}
      /\ \A r, o \in S : r.symbol = o.symbol /\ r.side = o.side => r = o
  <2>1. S \subseteq rows /\ \A r \in S : r.decision = d
    BY DEF Eligible, Group
  <2>. HIDE DEF S
  <2>. QED BY <2>1, FS_Subset DEF Replayed
<1>2. \A a, b \in S : a # b => Preferred(a, b) \/ Preferred(b, a)
  <2>1. ASSUME NEW a \in S, NEW b \in S, a # b PROVE Preferred(a, b) \/ Preferred(b, a)
    <3>1. /\ a.expected \in Int /\ b.expected \in Int /\ a.symbol \in Int /\ b.symbol \in Int
          /\ a.side \in {"LONG", "SHORT"} /\ b.side \in {"LONG", "SHORT"}
          /\ ~ (a.symbol = b.symbol /\ a.side = b.side)
      BY <1>1, <2>1
    <3>. QED BY <3>1 DEF Preferred
  <2>. QED BY <2>1
<1>3. \A a, b, c \in S : a # b /\ b # c /\ a # c /\ Preferred(a, b) /\ Preferred(b, c) => Preferred(a, c)
  <2>1. ASSUME NEW a \in S, NEW b \in S, NEW c \in S, a # b, b # c, a # c, Preferred(a, b), Preferred(b, c)
        PROVE  Preferred(a, c)
    <3>1. /\ a.expected \in Int /\ b.expected \in Int /\ a.symbol \in Int /\ b.symbol \in Int
          /\ c.expected \in Int /\ c.symbol \in Int
      BY <1>1
    <3>. QED BY <2>1, <3>1 DEF Preferred
  <2>. QED BY <2>1
<1>4. {} \in Good
  OBVIOUS
<1>5. ASSUME NEW t \in SUBSET S, t # {}, \A x \in t : t \ {x} \in Good PROVE t \in Good
  <2>1. PICK x \in t : TRUE
    BY <1>5
  <2>. DEFINE u == t \ {x}
  <2>2. u \in SUBSET S /\ (u # {} => \E r \in u : \A o \in u \ {r} : Preferred(r, o))
    BY <1>5
  <2>. HIDE DEF S
  <2>3. CASE u = {}
    <3>1. \A o \in t \ {x} : Preferred(x, o)
      BY <2>3
    <3>. QED BY <3>1
  <2>4. CASE u # {}
    <3>1. PICK r \in u : \A o \in u \ {r} : Preferred(r, o)
      BY <2>2, <2>4
    <3>2. r \in t /\ r # x /\ r \in S /\ x \in S
      BY <2>1, <3>1
    <3>3. CASE Preferred(r, x)
      <4>1. \A o \in t \ {r} : Preferred(r, o)
        BY <3>1, <3>3
      <4>. QED BY <3>2, <4>1
    <3>4. CASE Preferred(x, r)
      <4>1. ASSUME NEW o \in t \ {x} PROVE Preferred(x, o)
        <5>1. CASE o = r
          BY <3>4, <5>1
        <5>2. CASE o # r
          <6>1. o \in u \ {r} /\ o \in S /\ o # x
            BY <4>1, <5>2
          <6>2. Preferred(r, o)
            BY <3>1, <6>1
          <6>. QED BY <1>3, <3>2, <3>4, <5>2, <6>1, <6>2
        <5>. QED BY <5>1, <5>2
      <4>. QED BY <2>1, <4>1
    <3>. QED BY <1>2, <3>2, <3>3, <3>4
  <2>. QED BY <2>3, <2>4
<1>6. S \in Good
  <2>1. S \in SUBSET S
    OBVIOUS
  <2>. HIDE DEF Good, S
  <2>. QED BY <1>1, <1>4, <1>5, <2>1, BySize
<1>7. \E r \in S : \A o \in S \ {r} : Preferred(r, o)
  BY <1>6
<1>. QED BY <1>7 DEF Best

-----------------------------------------------------------------------------
(* The rolling loss *)

Entries == [at : Int, return : Int]

\* What is left when entries leave the window one after the other.
LEMMA TakenOff ==
  ASSUME NEW base \in Int, NEW s \in Seq(Entries)
  PROVE  \E f \in [0 .. Len(s) -> Int] :
            /\ f[0] = base /\ FoldLeft(LAMBDA sum, entry : sum - entry.return, base, s) = f[Len(s)]
            /\ \A i \in 1 .. Len(s) : f[i] = f[i - 1] - s[i].return
<1>. DEFINE n == Len(s)
            Totals == Int
            G == [p \in (1 .. n) \X Int |-> p[2] - s[p[1]].return]
            Def(f) == [t \in SUBSET (1 .. n) |-> IF t = {} THEN base
                                                 ELSE f[t \ {Max(t)}] - s[Max(t)].return]
            iter == CHOOSE f : f = Def(f)
<1>1. n \in Nat /\ DOMAIN s = 1 .. n
  BY LenProperties
<1>2. ASSUME NEW i \in 1 .. n PROVE s[i].return \in Int
  <2>1. s[i] \in Entries
    BY ElementOfSeq
  <2>. QED BY <2>1 DEF Entries
<1>3. \A i \in 1 .. n, x \in Int : G[<<i, x>>] = x - s[i].return /\ G[<<i, x>>] \in Int
  <2>1. \A i \in 1 .. n, x \in Int : G[<<i, x>>] = x - s[i].return
    OBVIOUS
  <2>2. \A i \in 1 .. n, x \in Int : x - s[i].return \in Int
    BY <1>2
  <2>. HIDE DEF G
  <2>. QED BY <2>1, <2>2
<1>4. FoldLeft(LAMBDA sum, entry : sum - entry.return, base, s) = iter[1 .. n]
  BY <1>1 DEF FoldLeft, MapThenFoldSet
<1>. HIDE DEF n, G
<1>5. Closed(G, 1 .. n, Totals) /\ base \in Totals
  BY <1>3 DEF Closed
<1>6. PICK h : MaxFold(h, n, Totals, base, G)
  <2>. HIDE DEF Totals
  <2>. QED BY <1>1, <1>5, FoldLeftExists
<1>7. h \in [SUBSET (1 .. n) -> Int] /\ h[{}] = base
  BY <1>6 DEF MaxFold
<1>8. ASSUME NEW t \in SUBSET (1 .. n), t # {}
      PROVE  Max(t) \in 1 .. n /\ h[t] = h[t \ {Max(t)}] - s[Max(t)].return
  <2>1. Max(t) \in 1 .. n /\ h[t] = G[<<Max(t), h[t \ {Max(t)}]>>]
    BY <1>6, <1>8 DEF MaxFold
  <2>2. h[t \ {Max(t)}] \in Int
    BY <1>7
  <2>. QED BY <1>3, <2>1, <2>2
<1>9. h = Def(h)
  BY <1>7, <1>8
<1>10. iter = Def(iter)
  <2>. HIDE DEF Def
  <2>. QED BY <1>9
<1>. HIDE DEF iter
<1>11. iter[{}] = base
  BY <1>10
<1>12. ASSUME NEW t \in SUBSET (1 .. n), t # {}, iter[t \ {Max(t)}] \in Int
       PROVE  iter[t] = G[<<Max(t), iter[t \ {Max(t)}]>>]
  <2>1. iter[t] = iter[t \ {Max(t)}] - s[Max(t)].return
    BY <1>10, <1>12
  <2>. QED BY <1>3, <1>8, <1>12, <2>1
<1>13. PICK f : Recursion(f, n, Totals, base, G) /\ f[n] = iter[1 .. n]
  <2>1. Unfolds(iter, n, Totals, base, G)
    BY <1>11, <1>12 DEF Unfolds
  <2>. HIDE DEF Totals
  <2>. QED BY <1>1, <1>5, <2>1, FoldLeftRuns
<1>14. f \in [0 .. n -> Int] /\ f[0] = base
  BY <1>13 DEF Recursion
<1>15. ASSUME NEW i \in 1 .. n PROVE f[i] = f[i - 1] - s[i].return
  <2>1. f[i - 1] \in Int /\ f[i] = G[<<i, f[i - 1]>>]
    <3>1. i - 1 \in 0 .. n
      BY <1>1
    <3>. QED BY <1>13, <3>1 DEF Recursion
  <2>. QED BY <1>3, <2>1
<1>. QED BY <1>4, <1>13, <1>14, <1>15 DEF n

\* The deque is emptied up to the first entry that is still in the window.
GoneOf(realised, d) ==
  LET first == Live(realised, d)
  IN  IF first = 0 THEN Len(realised) ELSE first - 1

Ascending(realised) == \A i, j \in 1 .. Len(realised) : i < j => realised[i].at < realised[j].at

\* In the order of their ends, those before the window are the first ones.
LEMMA GoneAre ==
  ASSUME NEW s \in Seq(Entries), Ascending(s), NEW d \in Int
  PROVE  /\ GoneOf(s, d) \in 0 .. Len(s)
         /\ \A i \in 1 .. Len(s) : s[i].at < d - Window <=> i <= GoneOf(s, d)
<1>. DEFINE n == Len(s)
            I == {i \in 1 .. n : ~ (s[i].at < d - Window)}
<1>1. n \in Nat /\ Window \in Nat /\ \A i \in 1 .. n : s[i].at \in Int
  <2>1. \A i \in 1 .. n : s[i] \in Entries
    BY ElementOfSeq
  <2>. QED BY <2>1, LenProperties, BacktestAssumption DEF Entries
<1>2. Live(s, d) = IF I # {} THEN Min(I) ELSE 0
  BY DEF Live, SelectInSeq
<1>3. I \subseteq 1 .. n
  OBVIOUS
<1>4. \A i \in 1 .. n : i \in I <=> ~ (s[i].at < d - Window)
  OBVIOUS
<1>. HIDE DEF n, I
<1>5. CASE I = {}
  <2>1. GoneOf(s, d) = n
    BY <1>2, <1>5 DEF GoneOf, n
  <2>2. \A i \in 1 .. n : s[i].at < d - Window
    BY <1>4, <1>5
  <2>. QED BY <1>1, <2>1, <2>2 DEF n
<1>6. CASE I # {}
  <2>. DEFINE m == Min(I)
  <2>1. m \in I /\ \A i \in I : m <= i
    <3>0. 1 \in Int /\ n \in Int
      BY <1>1
    <3>1. IsFiniteSet(1 .. n)
      BY <3>0, FS_Interval
    <3>2. IsFiniteSet(I)
      BY <1>3, <3>1, FS_Subset
    <3>3. I \subseteq Int
      BY <1>1, <1>3
    <3>. QED BY <1>6, <3>2, <3>3, Extremes DEF Least
  <2>2. Live(s, d) = m
    BY <1>2, <1>6
  <2>. HIDE DEF m
  <2>3. m \in 1 .. n /\ m # 0
    BY <1>1, <1>3, <2>1
  <2>4. GoneOf(s, d) = m - 1
    BY <2>2, <2>3 DEF GoneOf
  <2>5. ASSUME NEW i \in 1 .. n PROVE s[i].at < d - Window <=> i <= m - 1
    <3>1. CASE i < m
      <4>1. i \notin I /\ i <= m - 1
        BY <1>1, <2>1, <2>3, <3>1
      <4>. QED BY <1>4, <4>1
    <3>2. CASE i = m
      <4>1. ~ (s[i].at < d - Window) /\ ~ (i <= m - 1)
        BY <1>1, <1>4, <2>1, <2>3, <3>2
      <4>. QED BY <4>1
    <3>3. CASE i > m
      <4>1. s[m].at < s[i].at
        BY <1>1, <2>3, <3>3 DEF Ascending, n
      <4>2. ~ (s[m].at < d - Window)
        BY <1>4, <2>1, <2>3
      <4>3. ~ (s[i].at < d - Window)
        BY <1>1, <2>3, <4>1, <4>2
      <4>. QED BY <1>1, <2>3, <3>3, <4>3
    <3>. QED BY <1>1, <2>3, <3>1, <3>2, <3>3
  <2>6. m - 1 \in 0 .. n
    BY <1>1, <2>3
  <2>. QED BY <2>4, <2>5, <2>6 DEF n
<1>. QED BY <1>5, <1>6

\* Attempts that can be told by their ends.
Ended(P) ==
  /\ Paying(P) /\ \A a \in P : a.exit \in Int
  /\ \A a, b \in P : a.exit = b.exit => a = b

\* The entries of the deque are those of the attempts in P.
Lists(s, P) ==
  /\ \A i \in 1 .. Len(s) : \E a \in P : s[i].at = a.exit /\ s[i].return = a.return
  /\ \A a \in P : \E i \in 1 .. Len(s) : s[i].at = a.exit /\ s[i].return = a.return

From(P, c) == {a \in P : c <= a.exit}

\* The attempts behind the first i entries.
Remaining(P, s, i) == {a \in P : \A j \in 1 .. i : a.exit # s[j].at}

\* What an entry takes off the sum is what the attempt brought.
LEMMA EntryTakesOff ==
  ASSUME NEW P, Ended(P), NEW s \in Seq(Entries), Ascending(s), Lists(s, P), NEW i \in 1 .. Len(s)
  PROVE  /\ Returned(Remaining(P, s, i)) = Returned(Remaining(P, s, i - 1)) - s[i].return
         /\ Returned(Remaining(P, s, i)) \in Int
<1>1. Len(s) \in Nat /\ i - 1 \in Nat /\ \A j \in 1 .. i - 1 : j \in 1 .. Len(s) /\ j < i
  BY LenProperties
<1>2. PICK a \in P : s[i].at = a.exit /\ s[i].return = a.return
  BY DEF Lists
<1>. DEFINE B == Remaining(P, s, i - 1)
<1>3. a \in B
  <2>1. \A j \in 1 .. i - 1 : s[j].at < s[i].at
    BY <1>1 DEF Ascending
  <2>2. \A j \in 1 .. Len(s) : s[j].at \in Int
    <3>1. \A j \in 1 .. Len(s) : s[j] \in Entries
      BY ElementOfSeq
    <3>. QED BY <3>1 DEF Entries
  <2>3. \A j \in 1 .. i - 1 : a.exit # s[j].at
    BY <1>1, <1>2, <2>1, <2>2
  <2>. QED BY <2>3 DEF Remaining
<1>4. Remaining(P, s, i) = B \ {a}
  <2>1. ASSUME NEW b \in P PROVE b \in Remaining(P, s, i) <=> b \in B /\ b # a
    <3>1. b.exit = s[i].at <=> b = a
      BY <1>2 DEF Ended
    <3>2. 1 .. i = (1 .. i - 1) \cup {i}
      BY <1>1
    <3>. QED BY <3>1, <3>2 DEF Remaining
  <2>2. B \subseteq P /\ Remaining(P, s, i) \subseteq P
    BY DEF Remaining
  <2>. QED BY <2>1, <2>2
<1>5. Paying(B) /\ Paying(B \ {a})
  <2>1. B \subseteq P
    BY DEF Remaining
  <2>. QED BY <2>1, FS_Subset DEF Paying, Ended
<1>. HIDE DEF B
<1>6. Returned(B) = a.return + Returned(B \ {a}) /\ Returned(B \ {a}) \in Int /\ a.return \in Int
  BY <1>3, <1>5, ReturnedAdds DEF Paying
<1>. QED BY <1>2, <1>4, <1>6 DEF B

\* When the deque has been emptied up to the window, the rolling return is that of the
\* attempts that are still in it, and their entries are left (_expire of the replay).
LEMMA WindowSlides ==
  ASSUME NEW P, Ended(P), NEW s \in Seq(Entries), Ascending(s), Lists(s, P), NEW d \in Int
  PROVE  LET k == GoneOf(s, d)
             rest == SubSeq(s, k + 1, Len(s))
         IN  /\ FoldLeft(LAMBDA sum, entry : sum - entry.return, Returned(P), SubSeq(s, 1, k))
                  = Returned(From(P, d - Window))
             /\ Returned(From(P, d - Window)) \in Int
             /\ rest \in Seq(Entries) /\ Ascending(rest) /\ Lists(rest, From(P, d - Window))
<1>. DEFINE n == Len(s)
            k == GoneOf(s, d)
            gone == SubSeq(s, 1, k)
            rest == SubSeq(s, k + 1, Len(s))
            c == d - Window
<1>1. n \in Nat /\ c \in Int /\ \A i \in 1 .. n : s[i] \in Entries /\ s[i].at \in Int
  <2>1. \A i \in 1 .. n : s[i] \in Entries
    BY ElementOfSeq
  <2>. QED BY <2>1, LenProperties, BacktestAssumption DEF Entries
<1>2. k \in 0 .. n /\ \A i \in 1 .. n : s[i].at < c <=> i <= k
  BY GoneAre
<1>. HIDE DEF k
<1>3. k \in Nat /\ 1 .. k \subseteq 1 .. n
  BY <1>1, <1>2
<1>4. gone \in Seq(Entries) /\ Len(gone) = k /\ \A i \in 1 .. k : gone[i] = s[i]
  <2>1. \A i \in 1 .. k : s[i] \in Entries
    BY <1>1, <1>3
  <2>2. /\ gone \in Seq(Entries) /\ Len(gone) = IF 1 <= k THEN k - 1 + 1 ELSE 0
        /\ \A i \in 1 .. k - 1 + 1 : gone[i] = s[1 + i - 1]
    BY <1>3, <2>1, SubSeqProperties
  <2>. QED BY <1>3, <2>2
<1>5. /\ rest \in Seq(Entries) /\ Len(rest) = n - k
      /\ \A i \in 1 .. n - k : rest[i] = s[k + i] /\ k + i \in 1 .. n
  <2>1. \A i \in k + 1 .. n : s[i] \in Entries
    BY <1>1, <1>3
  <2>2. /\ rest \in Seq(Entries) /\ Len(rest) = IF k + 1 <= n THEN n - (k + 1) + 1 ELSE 0
        /\ \A i \in 1 .. n - (k + 1) + 1 : rest[i] = s[(k + 1) + i - 1]
    BY <1>1, <1>3, <2>1, SubSeqProperties
  <2>. QED BY <1>1, <1>2, <2>2
<1>. HIDE DEF gone, rest, n, c
<1>6. Remaining(P, s, 0) = P /\ Returned(P) \in Int
  BY ReturnedAdds DEF Remaining, Ended
<1>7. \A i \in 1 .. n : /\ Returned(Remaining(P, s, i)) = Returned(Remaining(P, s, i - 1)) - s[i].return
                       /\ Returned(Remaining(P, s, i)) \in Int
  BY EntryTakesOff DEF n
<1>8. FoldLeft(LAMBDA sum, entry : sum - entry.return, Returned(P), gone) = Returned(Remaining(P, s, k))
  <2>. DEFINE m == Len(gone)
              base == Returned(P)
              left == FoldLeft(LAMBDA sum, entry : sum - entry.return, base, gone)
  <2>0. gone \in Seq(Entries) /\ base \in Int
    BY <1>4, <1>6
  <2>10. PICK f \in [0 .. m -> Int] :
            /\ f[0] = base /\ left = f[m]
            /\ \A i \in 1 .. m : f[i] = f[i - 1] - gone[i].return
    BY <2>0, TakenOff
  <2>1. /\ f \in [0 .. k -> Int] /\ f[0] = Returned(P)
        /\ FoldLeft(LAMBDA sum, entry : sum - entry.return, Returned(P), gone) = f[k]
        /\ \A i \in 1 .. k : f[i] = f[i - 1] - gone[i].return
    <3>. HIDE DEF left
    <3>1. m = k
      BY <1>4
    <3>2. f \in [0 .. k -> Int] /\ f[0] = base /\ left = f[k] /\ \A i \in 1 .. k : f[i] = f[i - 1] - gone[i].return
      BY <2>10, <3>1
    <3>. QED BY <3>2 DEF left
  <2>. DEFINE T == {i \in 0 .. k : f[i] = Returned(Remaining(P, s, i))}
  <2>2. 0 \in T
    <3>1. 0 \in 0 .. k
      BY <1>3
    <3>2. f[0] = Returned(Remaining(P, s, 0))
      BY <1>6, <2>1
    <3>. QED BY <3>1, <3>2
  <2>3. ASSUME NEW i \in 0 .. k - 1, i \in T PROVE i + 1 \in T
    <3>1. i + 1 \in 1 .. k /\ i + 1 \in 0 .. k /\ (i + 1) - 1 = i /\ i + 1 \in 1 .. n
      BY <1>3
    <3>2. f[i + 1] = f[i] - gone[i + 1].return /\ gone[i + 1] = s[i + 1]
      BY <1>4, <2>1, <3>1
    <3>3. Returned(Remaining(P, s, i + 1)) = Returned(Remaining(P, s, i)) - s[i + 1].return
      BY <1>7, <3>1
    <3>4. f[i + 1] = Returned(Remaining(P, s, i + 1))
      BY <2>3, <3>2, <3>3
    <3>. QED BY <3>1, <3>4
  <2>4. \A i \in 0 .. k : i \in T
    <3>. HIDE DEF T
    <3>. QED BY <1>3, <2>2, <2>3, UpTo
  <2>5. k \in 0 .. k
    BY <1>3
  <2>6. k \in T
    BY <2>4, <2>5
  <2>. QED BY <2>1, <2>6
<1>9. Remaining(P, s, k) = From(P, c)
  <2>1. ASSUME NEW a \in P PROVE a \in Remaining(P, s, k) <=> a \in From(P, c)
    <3>1. PICK j \in 1 .. n : s[j].at = a.exit
      BY DEF Lists, n
    <3>2. a.exit \in Int /\ \A i \in 1 .. n : s[i].at = a.exit => i = j
      <4>1. ASSUME NEW i \in 1 .. n, s[i].at = a.exit, i # j PROVE FALSE
        <5>1. i < j \/ j < i
          BY <1>1, <4>1
        <5>2. s[i].at < s[j].at \/ s[j].at < s[i].at
          BY <5>1 DEF Ascending, n
        <5>. QED BY <1>1, <3>1, <4>1, <5>2
      <4>. QED BY <4>1 DEF Ended
    <3>3. a \in Remaining(P, s, k) <=> ~ (j <= k)
      <4>1. a \in Remaining(P, s, k) <=> \A i \in 1 .. k : a.exit # s[i].at
        BY DEF Remaining
      <4>2. j <= k <=> j \in 1 .. k
        BY <1>1, <1>3
      <4>. QED BY <1>3, <3>1, <3>2, <4>1, <4>2
    <3>4. a \in From(P, c) <=> ~ (s[j].at < c)
      BY <1>1, <3>1, <3>2 DEF From
    <3>. QED BY <1>2, <3>3, <3>4
  <2>2. Remaining(P, s, k) \subseteq P /\ From(P, c) \subseteq P
    BY DEF Remaining, From
  <2>. QED BY <2>1, <2>2
<1>10. Returned(From(P, c)) \in Int
  <2>1. Paying(From(P, c))
    <3>1. From(P, c) \subseteq P
      BY DEF From
    <3>. QED BY <3>1, FS_Subset DEF Paying, Ended
  <2>. QED BY <2>1, ReturnedAdds
<1>11. Ascending(rest)
  <2>1. ASSUME NEW i \in 1 .. n - k, NEW j \in 1 .. n - k, i < j PROVE rest[i].at < rest[j].at
    <3>1. k + i \in 1 .. n /\ k + j \in 1 .. n /\ k + i < k + j
      BY <1>1, <1>3, <1>5, <2>1
    <3>2. s[k + i].at < s[k + j].at
      BY <3>1 DEF Ascending, n
    <3>. QED BY <1>5, <3>2
  <2>. QED BY <1>5, <2>1 DEF Ascending
<1>12. Lists(rest, From(P, c))
  <2>1. ASSUME NEW i \in 1 .. n - k
        PROVE  \E a \in From(P, c) : rest[i].at = a.exit /\ rest[i].return = a.return
    <3>1. k + i \in 1 .. n /\ rest[i] = s[k + i] /\ ~ (k + i <= k)
      BY <1>1, <1>3, <1>5
    <3>2. PICK a \in P : s[k + i].at = a.exit /\ s[k + i].return = a.return
      BY <3>1 DEF Lists, n
    <3>3. a \in From(P, c)
      <4>1. ~ (s[k + i].at < c)
        BY <1>2, <3>1
      <4>2. a.exit \in Int
        BY DEF Ended
      <4>. QED BY <1>1, <3>2, <4>1, <4>2 DEF From
    <3>. QED BY <3>1, <3>2, <3>3
  <2>2. ASSUME NEW a \in From(P, c)
        PROVE  \E i \in 1 .. n - k : rest[i].at = a.exit /\ rest[i].return = a.return
    <3>1. a \in P /\ c <= a.exit /\ a.exit \in Int
      BY DEF From, Ended
    <3>2. PICK j \in 1 .. n : s[j].at = a.exit /\ s[j].return = a.return
      BY <3>1 DEF Lists, n
    <3>3. ~ (j <= k)
      <4>1. ~ (s[j].at < c)
        BY <1>1, <3>1, <3>2
      <4>. QED BY <1>2, <4>1
    <3>4. j - k \in 1 .. n - k /\ k + (j - k) = j
      BY <1>1, <1>3, <3>3
    <3>5. rest[j - k] = s[j]
      BY <1>5, <3>4
    <3>. QED BY <3>2, <3>4, <3>5
  <2>. QED BY <1>5, <2>1, <2>2 DEF Lists
<1>. QED BY <1>5, <1>8, <1>9, <1>10, <1>11, <1>12 DEF k, gone, rest, c, n

-----------------------------------------------------------------------------
(* The report, decision by decision *)

Real(tries) == {a \in tries : a.return # 0}

LostAt(tries, d) == Returned({a \in tries : d - Window <= a.exit /\ a.exit <= d})

OpenAt(tries, d) == \E a \in tries : a.row.decision < d /\ d < a.exit

ReasonAt(tries, d) ==
  IF OpenAt(tries, d) THEN "open" ELSE IF LostAt(tries, d) <= -LossLimit THEN "loss" ELSE "threshold"

\* The attempts at the decisions in t, one behind the other; the last ends at until.
Orderly(rows, t, tries, until) ==
  /\ IsFiniteSet(tries) /\ until \in Int
  /\ \A a \in tries :
       /\ a.row \in rows /\ a.row.decision \in t /\ a.row.decision \in Int
       /\ a.exit \in Int /\ a.return \in Int /\ a.row.decision < a.exit /\ a.exit <= until
  /\ \A a, b \in tries : /\ a.row.decision < b.row.decision => a.exit <= b.row.decision
                         /\ a.row.decision = b.row.decision => a = b
  /\ until = -1 \/ \E a \in tries : a.exit = until

ChosenWell(rows, tries) ==
  \A a \in tries :
    /\ LostAt(tries, a.row.decision) > -LossLimit
    /\ a.row.expected >= MinimumExpected
    /\ \A r \in Group(rows, a.row.decision) \ {a.row} : r.expected < a.row.expected \/ Preferred(a.row, r)

PassedTruly(rows, t, tries, skipped) ==
  \A d \in t \ {a.row.decision : a \in tries} :
    /\ OpenAt(tries, d) \/ LostAt(tries, d) <= -LossLimit \/ Eligible(Group(rows, d)) = {}
    /\ [decision |-> d, reason |-> ReasonAt(tries, d)] \in skipped

\* The deque and the rolling return, when those that ended before c have left.
LedgerAt(c, tries, realised, rolling) ==
  /\ Ascending(realised) /\ Lists(realised, From(Real(tries), c))
  /\ rolling = Returned(From(Real(tries), c))

\* Attempts that stand one behind the other end at different times.
LEMMA OrderlyEnds ==
  ASSUME NEW rows, NEW t, NEW tries, NEW until, Orderly(rows, t, tries, until), NEW c
  PROVE  Ended(tries) /\ Ended(From(Real(tries), c))
<1>1. IsFiniteSet(tries) /\ \A a \in tries : a.exit \in Int /\ a.return \in Int
  BY DEF Orderly
<1>2. ASSUME NEW a \in tries, NEW b \in tries, a.exit = b.exit PROVE a = b
  <2>1. /\ a.row.decision \in Int /\ b.row.decision \in Int /\ a.exit \in Int /\ b.exit \in Int
        /\ a.row.decision < a.exit /\ b.row.decision < b.exit
        /\ a.row.decision < b.row.decision => a.exit <= b.row.decision
        /\ b.row.decision < a.row.decision => b.exit <= a.row.decision
        /\ a.row.decision = b.row.decision => a = b
    BY DEF Orderly
  <2>. QED BY <1>2, <2>1
<1>3. Ended(tries)
  BY <1>1, <1>2 DEF Ended, Paying
<1>4. From(Real(tries), c) \subseteq tries
  BY DEF From, Real
<1>. QED BY <1>3, <1>4, FS_Subset DEF Ended, Paying

\* What the deque and the rolling return become, and that they are a ledger again.
Slid(d, tries, s, x) ==
  LET k == GoneOf(s, d)
      rest == SubSeq(s, k + 1, Len(s))
      left == FoldLeft(LAMBDA sum, entry : sum - entry.return, x, SubSeq(s, 1, k))
  IN  rest \in Seq(Entries) /\ left \in Int /\ LedgerAt(d - Window, tries, rest, left)

\* Before a decision is taken the deque is brought up to its time.
LEMMA LedgerSlides ==
  ASSUME NEW rows, NEW t, NEW tries, NEW until, Orderly(rows, t, tries, until),
         NEW c \in Int, NEW s \in Seq(Entries), NEW x \in Int, LedgerAt(c, tries, s, x),
         NEW d \in Int, c <= d - Window
  PROVE  Slid(d, tries, s, x)
<1>. DEFINE P == From(Real(tries), c)
            k == GoneOf(s, d)
            rest == SubSeq(s, k + 1, Len(s))
            left == FoldLeft(LAMBDA sum, entry : sum - entry.return, x, SubSeq(s, 1, k))
<1>1. Ended(P) /\ Ascending(s) /\ Lists(s, P) /\ x = Returned(P)
  BY OrderlyEnds DEF LedgerAt
<1>2. From(P, d - Window) = From(Real(tries), d - Window)
  <2>1. \A a \in tries : a.exit \in Int
    BY DEF Orderly
  <2>2. d - Window \in Int
    BY BacktestAssumption
  <2>. DEFINE e == d - Window
  <2>3. c <= e /\ e \in Int
    BY <2>2
  <2>. HIDE DEF e
  <2>4. From(P, e) = From(Real(tries), e)
    BY <2>1, <2>3 DEF From, Real
  <2>. QED BY <2>4 DEF e
<1>. HIDE DEF P
<1>3. /\ left = Returned(From(P, d - Window)) /\ Returned(From(P, d - Window)) \in Int
      /\ rest \in Seq(Entries) /\ Ascending(rest) /\ Lists(rest, From(P, d - Window))
  BY <1>1, WindowSlides
<1>. HIDE DEF left, rest
<1>4. rest \in Seq(Entries) /\ left \in Int /\ LedgerAt(d - Window, tries, rest, left)
  BY <1>2, <1>3 DEF LedgerAt
<1>. QED BY <1>4 DEF left, rest, Slid

\* When all attempts have ended, the rolling return is that of the 24 hours before.
LEMMA RollingIsLost ==
  ASSUME NEW rows, NEW t, NEW tries, NEW until, Orderly(rows, t, tries, until),
         NEW d \in Int, until <= d, NEW s, NEW x, LedgerAt(d - Window, tries, s, x)
  PROVE  LostAt(tries, d) = x /\ ~ OpenAt(tries, d)
<1>. DEFINE W == From(tries, d - Window)
<1>1. \A a \in tries : a.exit \in Int /\ a.exit <= d
  BY DEF Orderly
<1>2. {a \in tries : d - Window <= a.exit /\ a.exit <= d} = W
  BY <1>1 DEF From
<1>3. Paying(W)
  <2>1. W \subseteq tries
    BY DEF From
  <2>. QED BY <2>1, OrderlyEnds, FS_Subset DEF Ended, Paying
<1>4. {a \in W : a.return # 0} = From(Real(tries), d - Window)
  BY DEF From, Real
<1>. HIDE DEF W
<1>5. Returned(W) = Returned(From(Real(tries), d - Window))
  BY <1>3, <1>4, NothingReturned
<1>6. ~ OpenAt(tries, d)
  BY <1>1 DEF OpenAt
<1>. QED BY <1>2, <1>5, <1>6 DEF LedgerAt, LostAt

\* An attempt changes nothing of what was lost and open at its decision or before it.
LEMMA LaterChangesNothing ==
  ASSUME NEW tries, NEW n, NEW d \in Int, n.row.decision = d, n.exit \in Int, d < n.exit,
         NEW e \in Int, e <= d
  PROVE  /\ LostAt(tries \cup {n}, e) = LostAt(tries, e)
         /\ OpenAt(tries \cup {n}, e) = OpenAt(tries, e)
         /\ ReasonAt(tries \cup {n}, e) = ReasonAt(tries, e)
<1>1. {a \in tries \cup {n} : e - Window <= a.exit /\ a.exit <= e} = {a \in tries : e - Window <= a.exit /\ a.exit <= e}
  OBVIOUS
<1>2. LostAt(tries \cup {n}, e) = LostAt(tries, e)
  BY <1>1 DEF LostAt
<1>3. OpenAt(tries \cup {n}, e) = OpenAt(tries, e)
  BY DEF OpenAt
<1>. QED BY <1>2, <1>3 DEF ReasonAt

WithReason(skipped, d, reason) == skipped \cup {[decision |-> d, reason |-> reason]}

\* A decision that is passed over leaves the attempts as they are.
LEMMA PassesOver ==
  ASSUME NEW rows, NEW t, NEW tries, NEW until, Orderly(rows, t, tries, until),
         NEW d \in Int, NEW skipped, PassedTruly(rows, t, tries, skipped),
         OpenAt(tries, d) \/ LostAt(tries, d) <= -LossLimit \/ Eligible(Group(rows, d)) = {}
  PROVE  /\ Orderly(rows, t \cup {d}, tries, until)
         /\ PassedTruly(rows, t \cup {d}, tries, WithReason(skipped, d, ReasonAt(tries, d)))
<1>1. Orderly(rows, t \cup {d}, tries, until)
  BY DEF Orderly
<1>. DEFINE more == skipped \cup {[decision |-> d, reason |-> ReasonAt(tries, d)]}
<1>2. ASSUME NEW e \in (t \cup {d}) \ {a.row.decision : a \in tries}
      PROVE  /\ OpenAt(tries, e) \/ LostAt(tries, e) <= -LossLimit \/ Eligible(Group(rows, e)) = {}
             /\ [decision |-> e, reason |-> ReasonAt(tries, e)] \in more
  <2>1. CASE e = d
    BY <2>1
  <2>2. CASE e # d
    <3>1. e \in t \ {a.row.decision : a \in tries}
      BY <2>2
    <3>2. /\ OpenAt(tries, e) \/ LostAt(tries, e) <= -LossLimit \/ Eligible(Group(rows, e)) = {}
          /\ [decision |-> e, reason |-> ReasonAt(tries, e)] \in skipped
      BY <3>1 DEF PassedTruly
    <3>. QED BY <3>2
  <2>. QED BY <2>1, <2>2
<1>3. PassedTruly(rows, t \cup {d}, tries, more)
  <2>. HIDE DEF more
  <2>. QED BY <1>2 DEF PassedTruly
<1>. QED BY <1>1, <1>3 DEF WithReason

\* An attempt at d stands behind all others, and all others keep their reasons.
LEMMA AttemptStands ==
  ASSUME NEW rows, NEW t, NEW tries, NEW until, Orderly(rows, t, tries, until),
         NEW d \in Int, until <= d, \A e \in t : e \in Int /\ e < d, NEW skipped,
         PassedTruly(rows, t, tries, skipped), ChosenWell(rows, tries),
         NEW n, n.row \in rows, n.row.decision = d, n.exit \in Int, d < n.exit, n.return \in Int,
         LostAt(tries, d) > -LossLimit, n.row.expected >= MinimumExpected,
         \A r \in Group(rows, d) \ {n.row} : r.expected < n.row.expected \/ Preferred(n.row, r)
  PROVE  /\ Orderly(rows, t \cup {d}, tries \cup {n}, n.exit)
         /\ ChosenWell(rows, tries \cup {n})
         /\ PassedTruly(rows, t \cup {d}, tries \cup {n}, skipped)
<1>. DEFINE all == tries \cup {n}
<1>1. /\ IsFiniteSet(tries) /\ until \in Int
      /\ \A a \in tries :
           /\ a.row \in rows /\ a.row.decision \in t /\ a.row.decision \in Int
           /\ a.exit \in Int /\ a.return \in Int /\ a.row.decision < a.exit /\ a.exit <= until
      /\ \A a, b \in tries : /\ a.row.decision < b.row.decision => a.exit <= b.row.decision
                             /\ a.row.decision = b.row.decision => a = b
  BY DEF Orderly
<1>2. \A a \in tries : a.row.decision < d /\ a.exit <= d /\ a.exit < n.exit
  BY <1>1
<1>3. Orderly(rows, t \cup {d}, all, n.exit)
  <2>1. IsFiniteSet(all)
    BY <1>1, FS_AddElement
  <2>2. \A a \in all :
           /\ a.row \in rows /\ a.row.decision \in t \cup {d} /\ a.row.decision \in Int
           /\ a.exit \in Int /\ a.return \in Int /\ a.row.decision < a.exit /\ a.exit <= n.exit
    BY <1>1, <1>2
  <2>3. ASSUME NEW a \in all, NEW b \in all
        PROVE  /\ a.row.decision < b.row.decision => a.exit <= b.row.decision
               /\ a.row.decision = b.row.decision => a = b
    <3>1. CASE a \in tries /\ b \in tries
      BY <1>1, <3>1
    <3>2. CASE a \in tries /\ b = n
      BY <1>1, <1>2, <3>2
    <3>3. CASE a = n /\ b \in tries
      BY <1>1, <1>2, <3>3
    <3>4. CASE a = n /\ b = n
      BY <3>4
    <3>. QED BY <3>1, <3>2, <3>3, <3>4
  <2>4. n.exit \in Int /\ \E a \in all : a.exit = n.exit
    OBVIOUS
  <2>. HIDE DEF all
  <2>. QED BY <2>1, <2>2, <2>3, <2>4 DEF Orderly
<1>4. \A e \in t \cup {d} : /\ LostAt(all, e) = LostAt(tries, e)
                          /\ OpenAt(all, e) = OpenAt(tries, e)
                          /\ ReasonAt(all, e) = ReasonAt(tries, e)
  <2>1. \A e \in t \cup {d} : e \in Int /\ e <= d
    OBVIOUS
  <2>. QED BY <2>1, LaterChangesNothing
<1>5. ChosenWell(rows, all)
  <2>1. ASSUME NEW a \in all
        PROVE  /\ LostAt(all, a.row.decision) > -LossLimit
               /\ a.row.expected >= MinimumExpected
               /\ \A r \in Group(rows, a.row.decision) \ {a.row} : r.expected < a.row.expected \/ Preferred(a.row, r)
    <3>1. CASE a \in tries
      <4>1. /\ LostAt(tries, a.row.decision) > -LossLimit
            /\ a.row.expected >= MinimumExpected
            /\ \A r \in Group(rows, a.row.decision) \ {a.row} : r.expected < a.row.expected \/ Preferred(a.row, r)
        BY <3>1 DEF ChosenWell
      <4>2. LostAt(all, a.row.decision) = LostAt(tries, a.row.decision)
        BY <1>1, <1>4, <3>1
      <4>. QED BY <4>1, <4>2
    <3>2. CASE a = n
      <4>1. LostAt(all, d) = LostAt(tries, d)
        BY <1>4
      <4>. HIDE DEF all
      <4>. QED BY <3>2, <4>1
    <3>. QED BY <3>1, <3>2
  <2>. HIDE DEF all
  <2>. QED BY <2>1 DEF ChosenWell
<1>6. PassedTruly(rows, t \cup {d}, all, skipped)
  <2>1. ASSUME NEW e \in (t \cup {d}) \ {a.row.decision : a \in all}
        PROVE  /\ OpenAt(all, e) \/ LostAt(all, e) <= -LossLimit \/ Eligible(Group(rows, e)) = {}
               /\ [decision |-> e, reason |-> ReasonAt(all, e)] \in skipped
    <3>1. e \in t \ {a.row.decision : a \in tries}
      OBVIOUS
    <3>2. /\ OpenAt(tries, e) \/ LostAt(tries, e) <= -LossLimit \/ Eligible(Group(rows, e)) = {}
          /\ [decision |-> e, reason |-> ReasonAt(tries, e)] \in skipped
      BY <3>1 DEF PassedTruly
    <3>3. /\ LostAt(all, e) = LostAt(tries, e) /\ OpenAt(all, e) = OpenAt(tries, e)
          /\ ReasonAt(all, e) = ReasonAt(tries, e)
      BY <1>4
    <3>. HIDE DEF all
    <3>. QED BY <3>2, <3>3
  <2>. HIDE DEF all
  <2>. QED BY <2>1 DEF PassedTruly
<1>. QED BY <1>3, <1>5, <1>6

Longer(s, n) == IF n.return = 0 THEN s ELSE Append(s, [at |-> n.exit, return |-> n.return])

\* The entry of an attempt that returned something stands at the end of the deque.
LEMMA EntryIsAdded ==
  ASSUME NEW rows, NEW t, NEW tries, NEW until, Orderly(rows, t, tries, until),
         NEW d \in Int, until <= d, NEW s \in Seq(Entries), NEW x \in Int, LedgerAt(d - Window, tries, s, x),
         NEW n, n.exit \in Int, d < n.exit, n.return \in Int,
         NEW longer, longer = Longer(s, n)
  PROVE  longer \in Seq(Entries) /\ LedgerAt(d - Window, tries \cup {n}, longer, x + n.return)
<1>. DEFINE c == d - Window
            P == From(Real(tries), c)
            all == tries \cup {n}
<1>1. c \in Int /\ c <= n.exit
  BY BacktestAssumption
<1>2. Ascending(s) /\ Lists(s, P) /\ x = Returned(P) /\ Ended(P)
  BY OrderlyEnds DEF LedgerAt
<1>3. \A a \in tries : a.exit \in Int /\ a.exit <= d /\ a.exit < n.exit
  BY DEF Orderly
<1>4. CASE n.return = 0
  <2>1. From(Real(all), c) = P
    BY <1>4 DEF From, Real
  <2>2. x + n.return = x /\ longer = s
    BY <1>4 DEF Longer
  <2>. QED BY <1>2, <2>1, <2>2 DEF LedgerAt
<1>5. CASE n.return # 0
  <2>. DEFINE entry == [at |-> n.exit, return |-> n.return]
              Q == From(Real(all), c)
  <2>1. Q = P \cup {n} /\ n \notin P /\ n \in Q
    <3>1. n \in Q
      BY <1>1, <1>5 DEF From, Real
    <3>2. n \notin P
      <4>1. n \notin tries
        BY <1>3
      <4>. QED BY <4>1 DEF From, Real
    <3>3. Q = P \cup {n}
      BY <3>1 DEF From, Real
    <3>. QED BY <3>1, <3>2, <3>3
  <2>2. /\ entry \in Entries /\ entry.at = n.exit /\ entry.return = n.return
    BY DEF Entries
  <2>3. longer = Append(s, entry)
    BY <1>5 DEF Longer
  <2>4. P \subseteq tries
    BY DEF From, Real
  <2>. HIDE DEF P, Q, entry, c
  <2>5. Paying(Q) /\ Q \ {n} = P
    <3>1. IsFiniteSet(Q)
      BY <1>2, <2>1, FS_AddElement DEF Ended, Paying
    <3>2. \A a \in Q : a.return \in Int
      BY <1>2, <2>1 DEF Ended, Paying
    <3>. QED BY <2>1, <3>1, <3>2 DEF Paying
  <2>6. Returned(Q) = x + n.return
    <3>1. Returned(Q) = n.return + Returned(P)
      BY <2>1, <2>5, ReturnedAdds
    <3>. QED BY <1>2, <3>1
  <2>. DEFINE m == Len(s)
  <2>7. /\ longer \in Seq(Entries) /\ Len(longer) = m + 1 /\ longer[m + 1] = entry /\ m \in Nat
        /\ \A i \in 1 .. m : longer[i] = s[i]
    BY <2>2, <2>3, AppendProperties, LenProperties
  <2>. HIDE DEF m
  <2>8. \A i \in 1 .. m : s[i].at < n.exit
    <3>1. ASSUME NEW i \in 1 .. m PROVE s[i].at < n.exit
      <4>1. PICK a \in P : s[i].at = a.exit
        BY <1>2 DEF Lists, m
      <4>. QED BY <1>3, <2>4, <4>1
    <3>. QED BY <3>1
  <2>9. Ascending(longer)
    <3>1. ASSUME NEW i \in 1 .. m + 1, NEW j \in 1 .. m + 1, i < j PROVE longer[i].at < longer[j].at
      <4>1. i \in 1 .. m /\ longer[i] = s[i]
        BY <2>7, <3>1
      <4>2. CASE j = m + 1
        BY <2>2, <2>7, <2>8, <4>1, <4>2
      <4>3. CASE j # m + 1
        <5>1. j \in 1 .. m /\ longer[j] = s[j]
          BY <2>7, <4>3
        <5>2. s[i].at < s[j].at
          BY <1>2, <3>1, <4>1, <5>1 DEF Ascending, m
        <5>. QED BY <4>1, <5>1, <5>2
      <4>. QED BY <4>2, <4>3
    <3>. QED BY <2>7, <3>1 DEF Ascending
  <2>10. Lists(longer, Q)
    <3>1. ASSUME NEW i \in 1 .. m + 1
          PROVE  \E a \in Q : longer[i].at = a.exit /\ longer[i].return = a.return
      <4>1. CASE i = m + 1
        BY <2>1, <2>2, <2>7, <4>1
      <4>2. CASE i # m + 1
        <5>1. i \in 1 .. m /\ longer[i] = s[i]
          BY <2>7, <4>2
        <5>2. PICK a \in P : s[i].at = a.exit /\ s[i].return = a.return
          BY <1>2, <5>1 DEF Lists, m
        <5>. QED BY <2>1, <5>1, <5>2
      <4>. QED BY <4>1, <4>2
    <3>2. ASSUME NEW a \in Q
          PROVE  \E i \in 1 .. m + 1 : longer[i].at = a.exit /\ longer[i].return = a.return
      <4>1. CASE a = n
        <5>1. m + 1 \in 1 .. m + 1
          BY <2>7
        <5>. QED BY <2>2, <2>7, <4>1, <5>1
      <4>2. CASE a \in P
        <5>1. PICK i \in 1 .. m : s[i].at = a.exit /\ s[i].return = a.return
          BY <1>2, <4>2 DEF Lists, m
        <5>2. i \in 1 .. m + 1 /\ longer[i] = s[i]
          BY <2>7
        <5>. QED BY <5>1, <5>2
      <4>. QED BY <2>1, <4>1, <4>2
    <3>. QED BY <2>7, <3>1, <3>2 DEF Lists
  <2>11. longer \in Seq(Entries) /\ LedgerAt(c, all, longer, x + n.return)
    BY <2>6, <2>7, <2>9, <2>10 DEF LedgerAt, Q
  <2>. QED BY <2>11 DEF c
<1>. QED BY <1>4, <1>5

-----------------------------------------------------------------------------
(* The report of all decisions *)

Tried(rows) == [row : rows, exit : Int, return : Int]

Reasons == {"open", "loss", "threshold"}

Reports(rows) ==
  [until : Int, realised : Seq(Entries), rolling : Int, attempts : Seq(Tried(rows)),
   skipped : SUBSET [decision : Nat, reason : Reasons]]

\* Whatever is decided later than all of t is decided when those before c have left.
LedgerOf(t, tries, realised, rolling) ==
  \E c \in Int : /\ LedgerAt(c, tries, realised, rolling)
                 /\ \A d \in Nat : (\A e \in t : e < d) => c <= d - Window

\* The report when the decisions in t have been taken.
SoFar(rows, t, book) ==
  /\ book \in Reports(rows)
  /\ Orderly(rows, t, Range(book.attempts), book.until)
  /\ ChosenWell(rows, Range(book.attempts))
  /\ PassedTruly(rows, t, Range(book.attempts), book.skipped)
  /\ LedgerOf(t, Range(book.attempts), book.realised, book.rolling)

\* Before the first decision.
LEMMA SoFarStarts ==
  ASSUME NEW rows, Replayed(rows)
  PROVE  SoFar(rows, {}, Start)
<1>1. Start.attempts = <<>> /\ Start.until = -1 /\ Start.realised = <<>> /\ Start.rolling = 0 /\ Start.skipped = {}
  BY DEF Start
<1>2. <<>> \in Seq(Entries) /\ <<>> \in Seq(Tried(rows)) /\ Len(<<>>) = 0
  BY EmptySeq
<1>3. Start \in Reports(rows)
  BY <1>2 DEF Start, Reports
<1>4. Range(Start.attempts) = {}
  BY <1>1 DEF Range
<1>5. Orderly(rows, {}, {}, -1)
  BY FS_EmptySet DEF Orderly
<1>6. ChosenWell(rows, {}) /\ PassedTruly(rows, {}, {}, {})
  BY DEF ChosenWell, PassedTruly
<1>7. LedgerOf({}, {}, <<>>, 0)
  <2>. DEFINE c == -Window
  <2>1. c \in Int /\ \A d \in Nat : c <= d - Window
    BY BacktestAssumption
  <2>. HIDE DEF c
  <2>2. From(Real({}), c) = {}
    BY DEF From, Real
  <2>3. Returned({}) = 0
    <3>1. Paying({})
      BY FS_EmptySet DEF Paying
    <3>. QED BY <3>1, ReturnedAdds
  <2>4. Ascending(<<>>) /\ Lists(<<>>, {})
    BY <1>2 DEF Ascending, Lists
  <2>5. LedgerAt(c, {}, <<>>, 0)
    BY <2>2, <2>3, <2>4 DEF LedgerAt
  <2>. QED BY <2>1, <2>5 DEF LedgerOf
<1>. QED BY <1>1, <1>3, <1>4, <1>5, <1>6, <1>7 DEF SoFar

\* The book when the window has moved to d.
Moved(old, book, rows, d) ==
  /\ book \in Reports(rows) /\ book.until = old.until /\ book.attempts = old.attempts /\ book.skipped = old.skipped
  /\ LedgerAt(d - Window, Range(book.attempts), book.realised, book.rolling)

\* The window moves to a decision behind those that have been taken.
LEMMA ExpireMoves ==
  ASSUME NEW rows, NEW t, NEW old, SoFar(rows, t, old), NEW d \in Nat, \A e \in t : e < d
  PROVE  Moved(old, Expire(old, d), rows, d)
<1>. DEFINE tries == Range(old.attempts)
            s == old.realised
            x == old.rolling
            k == GoneOf(s, d)
            rest == SubSeq(s, k + 1, Len(s))
            left == FoldLeft(LAMBDA sum, entry : sum - entry.return, x, SubSeq(s, 1, k))
            book == Expire(old, d)
<1>1. old \in Reports(rows) /\ s \in Seq(Entries) /\ x \in Int
  BY DEF SoFar, Reports
<1>2. book = [old EXCEPT !.realised = rest, !.rolling = left]
  BY DEF Expire, GoneOf
<1>3. PICK c \in Int : LedgerAt(c, tries, s, x) /\ c <= d - Window
  BY DEF SoFar, LedgerOf
<1>4. Orderly(rows, t, tries, old.until)
  BY DEF SoFar
<1>. HIDE DEF tries
<1>. HIDE DEF s, x
<1>5. rest \in Seq(Entries) /\ left \in Int /\ LedgerAt(d - Window, tries, rest, left)
  <2>. HIDE DEF book
  <2>1. Slid(d, tries, s, x)
    BY <1>1, <1>3, <1>4, LedgerSlides
  <2>. QED BY <2>1 DEF Slid
<1>. HIDE DEF rest, left, book
<1>6. /\ book \in Reports(rows) /\ book.until = old.until /\ book.attempts = old.attempts /\ book.skipped = old.skipped
      /\ book.realised = rest /\ book.rolling = left
  BY <1>1, <1>2, <1>5 DEF Reports
<1>. QED BY <1>5, <1>6 DEF Moved, book, tries

\* The ledger of a decision serves those behind it.
LEMMA LedgerServes ==
  ASSUME NEW t, NEW d \in Nat, NEW tries, NEW s, NEW x, LedgerAt(d - Window, tries, s, x)
  PROVE  LedgerOf(t \cup {d}, tries, s, x)
<1>1. d - Window \in Int /\ \A e \in Nat : d < e => d - Window <= e - Window
  BY BacktestAssumption
<1>. QED BY <1>1 DEF LedgerOf

\* A decision is skipped with its reason.
LEMMA SkipKeeps ==
  ASSUME NEW rows, NEW t, NEW old, SoFar(rows, t, old), NEW d \in Nat, NEW book, Moved(old, book, rows, d),
         \/ OpenAt(Range(old.attempts), d) \/ LostAt(Range(old.attempts), d) <= -LossLimit
         \/ Eligible(Group(rows, d)) = {}
  PROVE  SoFar(rows, t \cup {d}, Skip(book, d, ReasonAt(Range(old.attempts), d)))
<1>. DEFINE tries == Range(old.attempts)
            reason == ReasonAt(tries, d)
            new == Skip(book, d, reason)
<1>1. Orderly(rows, t, tries, old.until) /\ PassedTruly(rows, t, tries, old.skipped) /\ ChosenWell(rows, tries)
  BY DEF SoFar
<1>2. /\ Orderly(rows, t \cup {d}, tries, old.until)
      /\ PassedTruly(rows, t \cup {d}, tries, WithReason(old.skipped, d, reason))
  <2>. HIDE DEF tries
  <2>1. OpenAt(tries, d) \/ LostAt(tries, d) <= -LossLimit \/ Eligible(Group(rows, d)) = {}
    BY DEF tries
  <2>. DEFINE until == old.until
              skipped == old.skipped
  <2>. HIDE DEF until, skipped
  <2>2. Orderly(rows, t, tries, until) /\ PassedTruly(rows, t, tries, skipped) /\ d \in Int
    BY <1>1 DEF until, skipped
  <2>. HIDE DEF new
  <2>3. /\ Orderly(rows, t \cup {d}, tries, until)
        /\ PassedTruly(rows, t \cup {d}, tries, WithReason(skipped, d, ReasonAt(tries, d)))
    BY <2>1, <2>2, PassesOver
  <2>. QED BY <2>3 DEF until, skipped
<1>3. /\ new \in Reports(rows) /\ new.until = old.until /\ new.attempts = old.attempts
      /\ new.skipped = old.skipped \cup {[decision |-> d, reason |-> reason]}
      /\ new.realised = book.realised /\ new.rolling = book.rolling
  <2>1. reason \in Reasons
    BY DEF ReasonAt, Reasons
  <2>. DEFINE one == [decision |-> d, reason |-> reason]
              Ones == [decision : Nat, reason : Reasons]
  <2>. HIDE DEF reason
  <2>2. one \in Ones /\ new = [book EXCEPT !.skipped = @ \cup {one}]
    BY <2>1 DEF Skip
  <2>3. /\ book \in Reports(rows) /\ book.until = old.until /\ book.attempts = old.attempts
        /\ book.skipped = old.skipped
    BY DEF Moved
  <2>. HIDE DEF one, new, Ones
  <2>4. new \in Reports(rows) /\ new.until = old.until /\ new.attempts = old.attempts
        /\ new.skipped = old.skipped \cup {one} /\ new.realised = book.realised /\ new.rolling = book.rolling
    BY <2>2, <2>3 DEF Reports, Ones
  <2>. QED BY <2>4 DEF one, new
<1>4. LedgerOf(t \cup {d}, tries, new.realised, new.rolling)
  <2>1. LedgerAt(d - Window, tries, new.realised, new.rolling)
    BY <1>3 DEF Moved
  <2>. QED BY <2>1, LedgerServes
<1>. QED BY <1>1, <1>2, <1>3, <1>4 DEF SoFar, WithReason

\* The best candidate is tried.
LEMMA AttemptKeeps ==
  ASSUME NEW rows, Replayed(rows), NEW t, NEW old, SoFar(rows, t, old), NEW d \in Nat, \A e \in t : e \in Nat /\ e < d,
         NEW book, Moved(old, book, rows, d), old.until <= d,
         LostAt(Range(old.attempts), d) > -LossLimit, Eligible(Group(rows, d)) # {}
  PROVE  SoFar(rows, t \cup {d}, Attempt(book, Best(Group(rows, d))))
<1>. DEFINE tries == Range(old.attempts)
            row == Best(Group(rows, d))
            exit == ExitOf(row)
            return == IF row.status = "NO_FILL" THEN 0 ELSE row.return
            n == [row |-> row, exit |-> exit, return |-> return]
            longer == IF return = 0 THEN book.realised
                      ELSE Append(book.realised, [at |-> exit, return |-> return])
            new == Attempt(book, row)
<1>1. row \in Eligible(Group(rows, d)) /\ \A o \in Eligible(Group(rows, d)) \ {row} : Preferred(row, o)
  BY BestIs
<1>. HIDE DEF row
<1>2. row \in rows /\ row.decision = d /\ row.expected >= MinimumExpected
  BY <1>1 DEF Eligible, Group
<1>3. \A r \in Group(rows, d) \ {row} : r.expected < row.expected \/ Preferred(row, r)
  <2>1. ASSUME NEW r \in Group(rows, d) \ {row} PROVE r.expected < row.expected \/ Preferred(row, r)
    <3>1. r.expected \in Int /\ row.expected \in Int /\ MinimumExpected \in Int
      BY <1>2, BacktestAssumption DEF Replayed, Group
    <3>2. CASE r.expected >= MinimumExpected
      BY <1>1, <3>2 DEF Eligible
    <3>3. CASE r.expected < MinimumExpected
      BY <1>2, <3>1, <3>3
    <3>. QED BY <3>1, <3>2, <3>3
  <2>. QED BY <2>1
<1>4. exit \in Int /\ d < exit /\ return \in Int
  BY <1>2 DEF Replayed
<1>. HIDE DEF exit, return
<1>5. n.row = row /\ n.exit = exit /\ n.return = return /\ n \in Tried(rows)
  BY <1>2, <1>4 DEF Tried
<1>6. /\ Orderly(rows, t, tries, old.until) /\ PassedTruly(rows, t, tries, old.skipped) /\ ChosenWell(rows, tries)
      /\ LostAt(tries, d) > -LossLimit
  BY DEF SoFar
<1>7. /\ book \in Reports(rows) /\ book.attempts = old.attempts /\ book.skipped = old.skipped
      /\ LedgerAt(d - Window, tries, book.realised, book.rolling)
      /\ book.realised \in Seq(Entries) /\ book.rolling \in Int /\ book.attempts \in Seq(Tried(rows))
  BY DEF Moved, Reports
<1>. HIDE DEF n
<1>8. Append(book.attempts, n) \in Seq(Tried(rows)) /\ Range(Append(book.attempts, n)) = tries \cup {n}
  BY <1>5, <1>7, AppendProperties, RangeGrows
<1>. HIDE DEF tries
<1>9. /\ Orderly(rows, t \cup {d}, tries \cup {n}, n.exit)
      /\ ChosenWell(rows, tries \cup {n})
      /\ PassedTruly(rows, t \cup {d}, tries \cup {n}, old.skipped)
  <2>1. /\ n.row \in rows /\ n.row.decision = d /\ n.exit \in Int /\ d < n.exit /\ n.return \in Int
        /\ n.row.expected >= MinimumExpected
        /\ \A r \in Group(rows, d) \ {n.row} : r.expected < n.row.expected \/ Preferred(n.row, r)
    BY <1>2, <1>3, <1>4, <1>5
  <2>2. \A e \in t : e \in Int /\ e < d
    OBVIOUS
  <2>. QED BY <1>6, <2>1, <2>2, AttemptStands
<1>10. longer \in Seq(Entries) /\ LedgerAt(d - Window, tries \cup {n}, longer, book.rolling + return)
  <2>1. longer = Longer(book.realised, n)
    BY <1>5 DEF Longer
  <2>2. n.exit \in Int /\ d < n.exit /\ n.return \in Int
    BY <1>4, <1>5
  <2>. DEFINE s == book.realised
              x == book.rolling
              until == old.until
  <2>3. /\ Orderly(rows, t, tries, until) /\ until <= d /\ s \in Seq(Entries) /\ x \in Int
        /\ LedgerAt(d - Window, tries, s, x) /\ longer = Longer(s, n) /\ d \in Int
    BY <1>6, <1>7, <2>1
  <2>. HIDE DEF longer, s, x, until
  <2>4. longer \in Seq(Entries) /\ LedgerAt(d - Window, tries \cup {n}, longer, x + n.return)
    BY <2>2, <2>3, EntryIsAdded
  <2>. QED BY <1>5, <2>4 DEF x
<1>11. new = [book EXCEPT !.until = exit, !.attempts = Append(book.attempts, n),
                          !.rolling = book.rolling + return, !.realised = longer]
  BY DEF Attempt, exit, return, n
<1>. DEFINE tried == Append(book.attempts, n)
            sum == book.rolling + return
<1>12. sum \in Int
  BY <1>4, <1>7
<1>. HIDE DEF longer, new, tried, sum
<1>13. /\ new \in Reports(rows) /\ new.until = exit /\ new.attempts = tried
       /\ new.skipped = old.skipped /\ new.realised = longer /\ new.rolling = sum
  <2>1. new = [book EXCEPT !.until = exit, !.attempts = tried, !.rolling = sum, !.realised = longer]
    BY <1>11 DEF tried, sum
  <2>2. tried \in Seq(Tried(rows))
    BY <1>8 DEF tried
  <2>. QED BY <1>4, <1>7, <1>10, <1>12, <2>1, <2>2 DEF Reports
<1>14. Range(new.attempts) = tries \cup {n}
  BY <1>8, <1>13 DEF tried
<1>15. LedgerOf(t \cup {d}, tries \cup {n}, longer, sum)
  BY <1>10, LedgerServes DEF sum
<1>16. SoFar(rows, t \cup {d}, new)
  BY <1>5, <1>9, <1>13, <1>14, <1>15 DEF SoFar
<1>. QED BY <1>16 DEF new, row

\* A decision behind all that have been taken is passed over truly or tried well.
LEMMA DecideKeeps ==
  ASSUME NEW rows, Replayed(rows), NEW t, NEW old, SoFar(rows, t, old),
         NEW d \in Nat, \A e \in t : e \in Nat /\ e < d
  PROVE  SoFar(rows, t \cup {d}, Decide(old, d, Group(rows, d)))
<1>. DEFINE tries == Range(old.attempts)
            book == Expire(old, d)
<1>1. Moved(old, book, rows, d)
  BY ExpireMoves
<1>2. Orderly(rows, t, tries, old.until)
  BY DEF SoFar
<1>3. /\ old.until \in Int /\ book.until = old.until
      /\ LedgerAt(d - Window, tries, book.realised, book.rolling) /\ book.rolling \in Int
  BY <1>1, <1>2 DEF Moved, Orderly, Reports
<1>. HIDE DEF book
<1>4. LossLimit \in Int
  BY BacktestAssumption
<1>5. CASE d < old.until
  <2>1. OpenAt(tries, d)
    <3>1. PICK a \in tries : a.exit = old.until /\ a.row.decision \in t
      BY <1>2, <1>5 DEF Orderly
    <3>. QED BY <1>5, <3>1 DEF OpenAt
  <2>2. ReasonAt(tries, d) = "open"
    BY <2>1 DEF ReasonAt
  <2>3. SoFar(rows, t \cup {d}, Skip(book, d, ReasonAt(tries, d)))
    BY <1>1, <2>1, <2>2, SkipKeeps
  <2>4. Decide(old, d, Group(rows, d)) = Skip(book, d, "open")
    BY <1>3, <1>5 DEF Decide, book
  <2>. QED BY <2>2, <2>3, <2>4
<1>6. CASE ~ (d < old.until)
  <2>1. old.until <= d
    BY <1>3, <1>6
  <2>2. LostAt(tries, d) = book.rolling /\ ~ OpenAt(tries, d)
    BY <1>2, <1>3, <2>1, RollingIsLost
  <2>3. CASE book.rolling <= -LossLimit
    <3>1. ReasonAt(tries, d) = "loss"
      BY <2>2, <2>3 DEF ReasonAt
    <3>2. SoFar(rows, t \cup {d}, Skip(book, d, ReasonAt(tries, d)))
      BY <1>1, <2>2, <2>3, <3>1, SkipKeeps
    <3>3. Decide(old, d, Group(rows, d)) = Skip(book, d, "loss")
      BY <1>3, <1>6, <2>3 DEF Decide, book
    <3>. QED BY <3>1, <3>2, <3>3
  <2>4. CASE ~ (book.rolling <= -LossLimit) /\ Eligible(Group(rows, d)) = {}
    <3>1. ReasonAt(tries, d) = "threshold"
      BY <2>2, <2>4 DEF ReasonAt
    <3>2. SoFar(rows, t \cup {d}, Skip(book, d, ReasonAt(tries, d)))
      BY <1>1, <2>2, <2>4, <3>1, SkipKeeps
    <3>3. Decide(old, d, Group(rows, d)) = Skip(book, d, "threshold")
      BY <1>3, <1>6, <2>4 DEF Decide, book
    <3>. QED BY <3>1, <3>2, <3>3
  <2>5. CASE ~ (book.rolling <= -LossLimit) /\ Eligible(Group(rows, d)) # {}
    <3>1. LostAt(tries, d) > -LossLimit
      BY <1>3, <1>4, <2>2, <2>5
    <3>2. SoFar(rows, t \cup {d}, Attempt(book, Best(Group(rows, d))))
      BY <1>1, <2>1, <2>5, <3>1, AttemptKeeps
    <3>3. Decide(old, d, Group(rows, d)) = Attempt(book, Best(Group(rows, d)))
      BY <1>3, <1>6, <2>5 DEF Decide, book
    <3>. QED BY <3>2, <3>3
  <2>. QED BY <2>3, <2>4, <2>5
<1>. QED BY <1>5, <1>6

\* The decisions of finitely many rows are finitely many.
LEMMA DecisionsFinite ==
  ASSUME NEW rows, Replayed(rows)
  PROVE  IsFiniteSet(Decisions(rows)) /\ Decisions(rows) \subseteq Nat
<1>. DEFINE g == [r \in rows |-> r.decision]
            D == Decisions(rows)
<1>1. D = {g[r] : r \in rows} /\ IsFiniteSet(rows) /\ \A r \in rows : r.decision \in Nat
  BY DEF Decisions, Replayed
<1>2. g \in [rows -> D] /\ \A d \in D : \E r \in rows : g[r] = d
  BY DEF Decisions
<1>. HIDE DEF g, D
<1>3. g \in Surjection(rows, D)
  BY <1>2 DEF Surjection
<1>4. IsFiniteSet(D)
  BY <1>1, <1>3, FS_Surjection
<1>5. D \subseteq Nat
  BY <1>1 DEF D, Decisions
<1>. QED BY <1>4, <1>5 DEF D

\* The decisions are taken in the order of their times.
Takes(rows, f) ==
  /\ f[{}] = Start
  /\ \A t \in SUBSET Decisions(rows) :
       t # {} /\ SoFar(rows, t \ {Max(t)}, f[t \ {Max(t)}])
         => f[t] = Decide(f[t \ {Max(t)}], Max(t), Group(rows, Max(t)))

\* The latest decision of a set.
LEMMA LatestDecision ==
  ASSUME NEW rows, Replayed(rows), NEW t \in SUBSET Decisions(rows), t # {}
  PROVE  Max(t) \in t /\ Max(t) \in Nat /\ \A e \in t \ {Max(t)} : e \in Nat /\ e < Max(t)
<1>1. IsFiniteSet(t) /\ t \subseteq Nat
  BY DecisionsFinite, FS_Subset
<1>2. t \subseteq Int
  BY <1>1
<1>3. Greatest(t, Max(t))
  BY <1>1, <1>2, Extremes
<1>. DEFINE m == Max(t)
<1>. HIDE DEF m
<1>4. m \in t /\ \A e \in t : e <= m
  BY <1>3 DEF Greatest, m
<1>5. m \in Nat /\ \A e \in t \ {m} : e \in Nat /\ e < m
  BY <1>1, <1>4
<1>. QED BY <1>4, <1>5 DEF m

\* The report of any first decisions is what it should be.
LEMMA TakenSoFar ==
  ASSUME NEW rows, Replayed(rows), NEW f, Takes(rows, f)
  PROVE  \A t \in SUBSET Decisions(rows) : SoFar(rows, t, f[t])
<1>. DEFINE D == Decisions(rows)
            Good == {t \in SUBSET D : SoFar(rows, t, f[t])}
<1>1. {} \in Good
  <2>1. SoFar(rows, {}, f[{}])
    BY SoFarStarts DEF Takes
  <2>. QED BY <2>1
<1>2. ASSUME NEW t \in SUBSET D, t # {}, \A x \in t : t \ {x} \in Good PROVE t \in Good
  <2>. DEFINE m == Max(t)
  <2>1. m \in t /\ m \in Nat /\ \A e \in t \ {m} : e \in Nat /\ e < m
    BY <1>2, LatestDecision
  <2>2. SoFar(rows, t \ {m}, f[t \ {m}])
    BY <1>2, <2>1
  <2>3. f[t] = Decide(f[t \ {m}], m, Group(rows, m))
    BY <1>2, <2>2 DEF Takes
  <2>. DEFINE u == t \ {m}
  <2>4. t = u \cup {m}
    BY <2>1
  <2>. HIDE DEF m, u
  <2>5. SoFar(rows, u, f[u]) /\ f[t] = Decide(f[u], m, Group(rows, m))
    BY <2>2, <2>3 DEF u
  <2>6. \A e \in u : e \in Nat /\ e < m
    BY <2>1 DEF u
  <2>7. SoFar(rows, u \cup {m}, Decide(f[u], m, Group(rows, m)))
    BY <2>1, <2>5, <2>6, DecideKeeps
  <2>. QED BY <2>4, <2>5, <2>7
<1>3. IsFiniteSet(D)
  BY DecisionsFinite
<1>4. \A t \in SUBSET D : t \in Good
  <2>. HIDE DEF Good, D
  <2>. QED BY <1>1, <1>2, <1>3, BySize
<1>. QED BY <1>4

\* The replay takes all decisions, one after the other.
LEMMA ReplayIsSoFar ==
  ASSUME NEW rows, Replayed(rows)
  PROVE  SoFar(rows, Decisions(rows), Backtested(rows))
<1>. DEFINE D == Decisions(rows)
            V == Reports(rows)
            ch == [t \in SUBSET D |-> Max(t)]
            G == [p \in D \X V |-> LET next == Decide(p[2], p[1], Group(rows, p[1]))
                                   IN  IF next \in V THEN next ELSE Start]
            Def(f) == [t \in SUBSET D |-> IF t = {} THEN Start
                                          ELSE Decide(f[t \ {Max(t)}], Max(t), {r \in rows : r.decision = Max(t)})]
            iter == CHOOSE f : f = Def(f)
<1>1. IsFiniteSet(D)
  BY DecisionsFinite
<1>2. Start \in V
  BY SoFarStarts DEF SoFar
<1>3. Backtested(rows) = iter[D]
  BY DEF Backtested, MapThenFoldSet, Decisions
<1>4. \A d \in D, x \in V :
         /\ G[<<d, x>>] \in V
         /\ Decide(x, d, Group(rows, d)) \in V => G[<<d, x>>] = Decide(x, d, Group(rows, d))
  <2>. HIDE DEF V, D
  <2>. QED BY <1>2
<1>5. \A t \in SUBSET D : ch[t] = Max(t) /\ (t # {} => Max(t) \in t)
  BY LatestDecision
<1>. HIDE DEF G, ch, V
<1>6. Closed(G, D, V) /\ Chooses(ch, D)
  BY <1>4, <1>5 DEF Closed, Chooses
<1>. HIDE DEF D
<1>7. PICK h : FoldOf(h, D, V, Start, ch, G)
  BY <1>1, <1>2, <1>6, FoldExists
<1>8. /\ h \in [SUBSET D -> V] /\ h[{}] = Start
      /\ \A t \in SUBSET D : t # {} => h[t] = G[<<ch[t], h[t \ {ch[t]}]>>]
  BY <1>7 DEF FoldOf
<1>9. ASSUME NEW t \in SUBSET D, t # {}, SoFar(rows, t \ {Max(t)}, h[t \ {Max(t)}])
      PROVE  h[t] = Decide(h[t \ {Max(t)}], Max(t), Group(rows, Max(t)))
  <2>. DEFINE m == Max(t)
              u == t \ {m}
  <2>1. m \in Nat /\ m \in D /\ \A e \in u : e \in Nat /\ e < m
    BY <1>9, LatestDecision DEF D
  <2>2. SoFar(rows, u, h[u]) /\ h[t] = G[<<m, h[u]>>] /\ h[u] \in V
    BY <1>5, <1>8, <1>9
  <2>. HIDE DEF m, u
  <2>3. SoFar(rows, u \cup {m}, Decide(h[u], m, Group(rows, m)))
    BY <2>1, <2>2, DecideKeeps
  <2>4. Decide(h[u], m, Group(rows, m)) \in V
    BY <2>3 DEF SoFar, V
  <2>5. h[t] = Decide(h[u], m, Group(rows, m))
    BY <1>4, <2>1, <2>2, <2>4
  <2>. QED BY <2>5 DEF m, u
<1>10. Takes(rows, h)
  BY <1>8, <1>9 DEF Takes, D
<1>11. \A t \in SUBSET D : SoFar(rows, t, h[t])
  BY <1>10, TakenSoFar DEF D
<1>12. ASSUME NEW t \in SUBSET D, t # {}
       PROVE  h[t] = Decide(h[t \ {Max(t)}], Max(t), Group(rows, Max(t)))
  <2>1. t \ {Max(t)} \in SUBSET D
    OBVIOUS
  <2>2. SoFar(rows, t \ {Max(t)}, h[t \ {Max(t)}])
    BY <1>11, <2>1
  <2>. QED BY <1>9, <1>12, <2>2
<1>13. h = Def(h)
  BY <1>8, <1>12 DEF Group
<1>14. iter = Def(iter)
  <2>. HIDE DEF Def
  <2>. QED BY <1>13
<1>. HIDE DEF iter
<1>15. iter[{}] = Start
  BY <1>14
<1>16. ASSUME NEW t \in SUBSET D, t # {}
       PROVE  iter[t] = Decide(iter[t \ {Max(t)}], Max(t), Group(rows, Max(t)))
  BY <1>14, <1>16 DEF Group
<1>17. Takes(rows, iter)
  BY <1>15, <1>16 DEF Takes, D
<1>18. SoFar(rows, D, iter[D])
  <2>1. D \in SUBSET D
    OBVIOUS
  <2>. QED BY <1>17, <2>1, TakenSoFar DEF D
<1>. QED BY <1>3, <1>18 DEF D

\* The report of a replay can be told from its rows, for any rows, any window and any
\* limits (run_execution_one_position_backtest).
THEOREM ReplayHonest ==
  ASSUME NEW rows, Replayed(rows)
  PROVE  BacktestHonest(rows)
<1>. DEFINE report == Backtested(rows)
            tries == Range(report.attempts)
<1>1. /\ Orderly(rows, Decisions(rows), tries, report.until) /\ ChosenWell(rows, tries)
      /\ PassedTruly(rows, Decisions(rows), tries, report.skipped)
  BY ReplayIsSoFar DEF SoFar
<1>2. \A a, b \in tries : a.row.decision < b.row.decision => a.exit <= b.row.decision
  BY <1>1 DEF Orderly
<1>. HIDE DEF report, tries
<1>3. ASSUME NEW a \in tries
      PROVE  /\ LostAt(tries, a.row.decision) > -LossLimit
             /\ a.row.expected >= MinimumExpected
             /\ \A r \in Group(rows, a.row.decision) \ {a.row} : r.expected < a.row.expected \/ Preferred(a.row, r)
  BY <1>1 DEF ChosenWell
<1>4. ASSUME NEW d \in Decisions(rows) \ {a.row.decision : a \in tries}
      PROVE  /\ OpenAt(tries, d) \/ LostAt(tries, d) <= -LossLimit \/ Eligible(Group(rows, d)) = {}
             /\ [decision |-> d, reason |-> ReasonAt(tries, d)] \in report.skipped
  BY <1>1 DEF PassedTruly
<1>. QED BY <1>2, <1>3, <1>4
         DEF BacktestHonest, LostAt, OpenAt, ReasonAt, Group, Decisions, Returned, report, tries

-----------------------------------------------------------------------------
(* The labels of an order.  The series has every trade once, in order; the fill is
   followed trade by trade; what decides the outcome is the first touch. *)

\* R puts the numbers up to n in a row.
InARow(R, n) ==
  /\ \A a \in 1 .. n : <<a, a>> \notin R
  /\ \A a, b \in 1 .. n : a = b \/ <<a, b>> \in R \/ <<b, a>> \in R
  /\ \A a, b, c \in 1 .. n : <<a, b>> \in R /\ <<b, c>> \in R => <<a, c>> \in R

AheadOf(R, n, a) == {m \in 1 .. n : <<m, a>> \in R}

\* One of them has k - 1 others before it, and no other has, for each place k; who has
\* fewer before it is before the other.
LEMMA PlacesTaken ==
  ASSUME NEW n \in Nat, NEW R, InARow(R, n)
  PROVE  /\ \A a \in 1 .. n : 1 + Cardinality(AheadOf(R, n, a)) \in 1 .. n
         /\ \A a, b \in 1 .. n : <<a, b>> \in R <=>
              Cardinality(AheadOf(R, n, a)) < Cardinality(AheadOf(R, n, b))
         /\ \A k \in 1 .. n : \E a \in 1 .. n : 1 + Cardinality(AheadOf(R, n, a)) = k
<1>. DEFINE D == 1 .. n
            rank == [a \in D |-> 1 + Cardinality(AheadOf(R, n, a))]
<1>1. IsFiniteSet(D) /\ Cardinality(D) = n
  BY FS_Interval
<1>2. ASSUME NEW a \in D
      PROVE  /\ IsFiniteSet(AheadOf(R, n, a)) /\ Cardinality(AheadOf(R, n, a)) \in Nat
             /\ rank[a] \in D
  <2>1. AheadOf(R, n, a) \in SUBSET (D \ {a})
    BY DEF AheadOf, InARow
  <2>2. IsFiniteSet(D \ {a}) /\ Cardinality(D \ {a}) = n - 1
    BY <1>1, FS_RemoveElement
  <2>3. IsFiniteSet(AheadOf(R, n, a)) /\ Cardinality(AheadOf(R, n, a)) <= n - 1
    BY <2>1, <2>2, FS_Subset
  <2>4. Cardinality(AheadOf(R, n, a)) \in Nat
    BY <2>3, FS_CardinalityType
  <2>. QED BY <2>3, <2>4
<1>3. ASSUME NEW a \in D, NEW b \in D, <<a, b>> \in R
      PROVE  Cardinality(AheadOf(R, n, a)) < Cardinality(AheadOf(R, n, b))
  <2>1. AheadOf(R, n, a) \in SUBSET AheadOf(R, n, b)
    BY <1>3 DEF AheadOf, InARow
  <2>2. a \in AheadOf(R, n, b) /\ a \notin AheadOf(R, n, a)
    BY <1>3 DEF AheadOf, InARow
  <2>3. AheadOf(R, n, a) # AheadOf(R, n, b)
    BY <2>2
  <2>4. /\ Cardinality(AheadOf(R, n, a)) <= Cardinality(AheadOf(R, n, b))
        /\ Cardinality(AheadOf(R, n, b)) = Cardinality(AheadOf(R, n, a)) =>
             AheadOf(R, n, b) = AheadOf(R, n, a)
    BY <1>2, <2>1, FS_Subset
  <2>. QED BY <1>2, <2>3, <2>4
<1>4. ASSUME NEW a \in D, NEW b \in D, Cardinality(AheadOf(R, n, a)) < Cardinality(AheadOf(R, n, b))
      PROVE  <<a, b>> \in R
  <2>1. a # b /\ <<b, a>> \notin R
    BY <1>2, <1>3, <1>4
  <2>. QED BY <2>1 DEF InARow
<1>5. rank \in Injection(D, D)
  <2>1. rank \in [D -> D]
    BY <1>2
  <2>2. ASSUME NEW a \in D, NEW b \in D, rank[a] = rank[b] PROVE a = b
    <3>1. Cardinality(AheadOf(R, n, a)) = Cardinality(AheadOf(R, n, b))
      BY <1>2, <2>2
    <3>2. <<a, b>> \notin R /\ <<b, a>> \notin R
      BY <1>2, <1>3, <3>1
    <3>. QED BY <3>2 DEF InARow
  <2>. QED BY <2>1, <2>2 DEF Injection, IsInjective
<1>6. rank \in Surjection(D, D)
  BY <1>1, <1>5, FS_Injection
<1>7. ASSUME NEW k \in D PROVE \E a \in D : 1 + Cardinality(AheadOf(R, n, a)) = k
  <2>1. \E a \in D : rank[a] = k
    BY <1>6 DEF Surjection
  <2>. QED BY <2>1
<1>. QED BY <1>2, <1>3, <1>4, <1>7

-----------------------------------------------------------------------------
\* Rows of trades, as they are read.
Ticks(trades) ==
  /\ trades \in Seq(Range(trades))
  /\ \A t \in Range(trades) :
       t.at \in Int /\ t.order \in Int /\ t.price \in Int /\ t.size \in Nat

\* The m-th trade comes before the n-th in the series.
Sooner(trades, m, n) ==
  KeyBefore(trades[m], trades[n]) \/ (m < n /\ Tied(trades[m], trades[n]))

\* pi[k] is the trade that stands at the k-th place.
Sorts(pi, trades, s) ==
  /\ pi \in [DOMAIN trades -> DOMAIN trades]
  /\ \A n \in DOMAIN trades : \E k \in DOMAIN trades : pi[k] = n
  /\ s = [k \in DOMAIN trades |-> trades[pi[k]]]
  /\ \A i, j \in DOMAIN trades : i < j <=> Sooner(trades, pi[i], pi[j])

\* The series has every trade once, by time and order (_TradeSeries.__init__).
LEMMA OrderedSorts ==
  ASSUME NEW trades, Ticks(trades)
  PROVE  \E pi : Sorts(pi, trades, Ordered(trades))
<1>. DEFINE n == Len(trades)
            R == {p \in (1 .. n) \X (1 .. n) : Sooner(trades, p[1], p[2])}
            Rank(a) == 1 + Cardinality({m \in DOMAIN trades :
                        KeyBefore(trades[m], trades[a]) \/ (m < a /\ Tied(trades[m], trades[a]))})
            count == [a \in 1 .. n |-> 1 + Cardinality(AheadOf(R, n, a))]
            pi == [k \in DOMAIN trades |-> CHOOSE a \in DOMAIN trades : Rank(a) = k]
<1>1. n \in Nat /\ DOMAIN trades = 1 .. n
  BY LenProperties DEF Ticks
<1>2. Ordered(trades) = [k \in DOMAIN trades |-> trades[CHOOSE a \in DOMAIN trades : Rank(a) = k]]
  BY DEF Ordered
<1>3. \A a, b \in 1 .. n : <<a, b>> \in R <=> Sooner(trades, a, b)
  OBVIOUS
<1>4. /\ \A a, b \in 1 .. n : <<a, b>> \in R <=>
           Cardinality(AheadOf(R, n, a)) < Cardinality(AheadOf(R, n, b))
      /\ \A a \in 1 .. n : count[a] \in 1 .. n /\ IsFiniteSet(AheadOf(R, n, a))
      /\ \A k \in 1 .. n : \E a \in 1 .. n : count[a] = k
      /\ InARow(R, n)
  <2>. HIDE DEF n, R
  <2>1. \A m \in 1 .. n : trades[m].at \in Int /\ trades[m].order \in Int
    BY <1>1 DEF Ticks, Range
  <2>2. InARow(R, n)
    <3>1. \A a \in 1 .. n : ~ Sooner(trades, a, a)
      BY <1>1, <2>1 DEF Sooner, KeyBefore, Tied
    <3>2. \A a, b \in 1 .. n : a = b \/ Sooner(trades, a, b) \/ Sooner(trades, b, a)
      BY <1>1, <2>1 DEF Sooner, KeyBefore, Tied
    <3>3. ASSUME NEW a \in 1 .. n, NEW b \in 1 .. n, NEW c \in 1 .. n,
                 Sooner(trades, a, b), Sooner(trades, b, c)
          PROVE  Sooner(trades, a, c)
      BY <1>1, <2>1, <3>3 DEF Sooner, KeyBefore, Tied
    <3>. QED BY <1>3, <3>1, <3>2, <3>3 DEF InARow
  <2>3. \A a \in 1 .. n : 1 + Cardinality(AheadOf(R, n, a)) \in 1 .. n
    BY <1>1, <2>2, PlacesTaken
  <2>4. \A a, b \in 1 .. n : <<a, b>> \in R <=>
              Cardinality(AheadOf(R, n, a)) < Cardinality(AheadOf(R, n, b))
    BY <1>1, <2>2, PlacesTaken
  <2>5. \A k \in 1 .. n : \E a \in 1 .. n : 1 + Cardinality(AheadOf(R, n, a)) = k
    BY <1>1, <2>2, PlacesTaken
  <2>6. ASSUME NEW a \in 1 .. n PROVE IsFiniteSet(AheadOf(R, n, a))
    <3>1. AheadOf(R, n, a) \in SUBSET (1 .. n)
      BY DEF AheadOf
    <3>2. IsFiniteSet(1 .. n)
      BY <1>1, FS_Interval
    <3>. QED BY <3>1, <3>2, FS_Subset
  <2>. QED BY <2>2, <2>3, <2>4, <2>5, <2>6
<1>. HIDE DEF R, n
<1>5. \A a \in 1 .. n : AheadOf(R, n, a) = {m \in DOMAIN trades :
          KeyBefore(trades[m], trades[a]) \/ (m < a /\ Tied(trades[m], trades[a]))}
  BY <1>1, <1>3 DEF AheadOf, Sooner
<1>6. \A a \in 1 .. n : Rank(a) = count[a]
  BY <1>5
<1>7. \A a, b \in 1 .. n : <<a, b>> \in R <=> count[a] < count[b]
  <2>1. ASSUME NEW a \in 1 .. n, NEW b \in 1 .. n PROVE <<a, b>> \in R <=> count[a] < count[b]
    <3>1. Cardinality(AheadOf(R, n, a)) \in Nat /\ Cardinality(AheadOf(R, n, b)) \in Nat
      BY <1>4, FS_CardinalityType
    <3>2. <<a, b>> \in R <=> Cardinality(AheadOf(R, n, a)) < Cardinality(AheadOf(R, n, b))
      BY <1>4
    <3>3. count[a] = 1 + Cardinality(AheadOf(R, n, a)) /\ count[b] = 1 + Cardinality(AheadOf(R, n, b))
      OBVIOUS
    <3>. HIDE DEF count
    <3>. QED BY <3>1, <3>2, <3>3
  <2>. QED BY <2>1
<1>. HIDE DEF count, Rank
<1>8. \A k \in 1 .. n : pi[k] \in 1 .. n /\ count[pi[k]] = k
  <2>1. ASSUME NEW k \in 1 .. n PROVE pi[k] \in 1 .. n /\ count[pi[k]] = k
    <3>1. PICK a \in 1 .. n : count[a] = k
      BY <1>4
    <3>2. Rank(a) = k
      BY <1>6, <3>1
    <3>3. pi[k] = CHOOSE b \in 1 .. n : Rank(b) = k
      BY <1>1
    <3>4. pi[k] \in 1 .. n /\ Rank(pi[k]) = k
      BY <3>2, <3>3
    <3>. QED BY <1>6, <3>4
  <2>. QED BY <2>1
<1>9. Ordered(trades) = [k \in 1 .. n |-> trades[pi[k]]]
  BY <1>1, <1>2
<1>10. pi \in [1 .. n -> 1 .. n]
  BY <1>1, <1>8
<1>. HIDE DEF pi
<1>11. ASSUME NEW a \in 1 .. n PROVE \E k \in 1 .. n : pi[k] = a
  <2>. DEFINE b == pi[count[a]]
  <2>1. count[a] \in 1 .. n /\ count[b] = count[a] /\ b \in 1 .. n
    BY <1>4, <1>8
  <2>. HIDE DEF b
  <2>2. ~ (count[a] < count[b]) /\ ~ (count[b] < count[a])
    BY <1>1, <2>1
  <2>3. <<a, b>> \notin R /\ <<b, a>> \notin R
    BY <1>7, <2>1, <2>2
  <2>4. a = b
    BY <1>4, <2>1, <2>3 DEF InARow
  <2>. QED BY <2>1, <2>4 DEF b
<1>12. \A i, j \in 1 .. n : i < j <=> Sooner(trades, pi[i], pi[j])
  <2>1. ASSUME NEW i \in 1 .. n, NEW j \in 1 .. n PROVE i < j <=> Sooner(trades, pi[i], pi[j])
    <3>1. pi[i] \in 1 .. n /\ pi[j] \in 1 .. n /\ count[pi[i]] = i /\ count[pi[j]] = j
      BY <1>8
    <3>. QED BY <1>3, <1>7, <3>1
  <2>. QED BY <2>1
<1>. QED BY <1>1, <1>9, <1>10, <1>11, <1>12 DEF Sorts

\* No trade of a series is behind a later one.
InTime(s) == \A i, j \in DOMAIN s : i < j => ~ KeyBefore(s[j], s[i])

\* The series in order.
LEMMA OrderedTicks ==
  ASSUME NEW trades, Ticks(trades)
  PROVE  /\ Ticks(Ordered(trades)) /\ InTime(Ordered(trades))
         /\ DOMAIN Ordered(trades) = DOMAIN trades /\ Len(Ordered(trades)) = Len(trades)
<1>. DEFINE s == Ordered(trades)
            n == Len(trades)
<1>1. PICK pi : Sorts(pi, trades, s)
  BY OrderedSorts
<1>. HIDE DEF s
<1>2. n \in Nat /\ DOMAIN trades = 1 .. n
  BY LenProperties DEF Ticks
<1>3. s = [k \in 1 .. n |-> trades[pi[k]]] /\ \A k \in 1 .. n : pi[k] \in 1 .. n
  BY <1>1, <1>2 DEF Sorts
<1>. HIDE DEF n
<1>4. \A k \in 1 .. n : s[k] \in Range(trades) /\ s[k] \in Range(s)
  BY <1>2, <1>3 DEF Range
<1>5. s \in Seq(Range(s)) /\ Len(s) = n
  BY <1>2, <1>3, <1>4, SeqDef
<1>6. \A t \in Range(s) : t \in Range(trades)
  BY <1>3, <1>4 DEF Range
<1>7. Ticks(s)
  BY <1>5, <1>6 DEF Ticks
<1>8. ASSUME NEW i \in 1 .. n, NEW j \in 1 .. n, i < j PROVE ~ KeyBefore(s[j], s[i])
  <2>1. Sooner(trades, pi[i], pi[j]) /\ s[i] = trades[pi[i]] /\ s[j] = trades[pi[j]]
    BY <1>1, <1>2, <1>3, <1>8 DEF Sorts
  <2>2. s[i].at \in Int /\ s[j].at \in Int /\ s[i].order \in Int /\ s[j].order \in Int
    BY <1>4, <1>7 DEF Ticks
  <2>. QED BY <2>1, <2>2 DEF Sooner, KeyBefore, Tied
<1>9. InTime(s)
  BY <1>3, <1>8 DEF InTime
<1>. QED BY <1>2, <1>3, <1>5, <1>7, <1>9 DEF s, n
-----------------------------------------------------------------------------
\* The trades behind the fill that count and are at a barrier in time.
Touches(s, side, entry, full, to, eligibleOnly) ==
  {n \in DOMAIN s : /\ n > full /\ s[n].at <= to /\ (eligibleOnly => s[n].visible)
                    /\ AtTarget(side, entry, s[n]) \/ AtStop(side, entry, s[n])}

OutcomeTells(s, side, entry, hits, result) ==
  /\ result.hit # None =>
       /\ result.hit \in hits /\ \A n \in hits : result.hit <= n
       /\ result.outcome = IF AtTarget(side, entry, s[result.hit]) THEN "TP_FIRST" ELSE "SL_FIRST"
       /\ \A n \in hits : Tied(s[n], s[result.hit]) =>
            (AtTarget(side, entry, s[n]) <=> AtTarget(side, entry, s[result.hit]))
  /\ result.outcome = "TIMEOUT" => hits = {}
  /\ result.outcome = "AMBIGUOUS" =>
       \E n, m \in hits : /\ Tied(s[n], s[m]) /\ AtStop(side, entry, s[n])
                          /\ AtTarget(side, entry, s[m])

\* No price is at both barriers.
LEMMA BarriersApart ==
  ASSUME NEW side, NEW entry \in Int, NEW t, t.price \in Int
  PROVE  ~ (AtTarget(side, entry, t) /\ AtStop(side, entry, t))
BY LabelsAssumption DEF AtTarget, AtStop, Worth

\* Of two trades the earlier in the series has the lower key or the same.
LEMMA KeysInTime ==
  ASSUME NEW s, Ticks(s), InTime(s), NEW i \in DOMAIN s, NEW j \in DOMAIN s, i <= j
  PROVE  KeyBefore(s[i], s[j]) \/ Tied(s[i], s[j])
<1>1. s[i].at \in Int /\ s[j].at \in Int /\ s[i].order \in Int /\ s[j].order \in Int /\ i \in Int /\ j \in Int
  BY LenProperties DEF Ticks, Range
<1>2. i < j \/ i = j
  BY <1>1
<1>. QED BY <1>1, <1>2 DEF InTime, KeyBefore, Tied

\* The first second with a touch decides as the first touch does
\* (_TradeSeries.barrier_outcome).
LEMMA BarrierTells ==
  ASSUME NEW s, Ticks(s), InTime(s), NEW side, NEW entry \in Int, NEW full \in Int, NEW to \in Int,
         NEW eligibleOnly \in BOOLEAN
  PROVE  OutcomeTells(s, side, entry, Touches(s, side, entry, full, to, eligibleOnly),
                      BarrierOutcome(s, side, entry, full, to, eligibleOnly))
<1>. DEFINE future == {n \in After(s, full) : s[n].at <= to /\ (eligibleOnly => s[n].visible)}
            hits == {n \in future : AtTarget(side, entry, s[n]) \/ AtStop(side, entry, s[n])}
            Bucket(n) == s[n].at \div SecondTicks
            bucket == {n \in hits : Bucket(n) = Bucket(Min(hits))}
            T == {n \in bucket : AtTarget(side, entry, s[n])}
            P == {n \in bucket : AtStop(side, entry, s[n])}
            target == FirstOf(T)
            stop == FirstOf(P)
            result == BarrierOutcome(s, side, entry, full, to, eligibleOnly)
<1>1. Touches(s, side, entry, full, to, eligibleOnly) = hits
  BY DEF Touches, After
<1>2. result = IF hits = {} THEN [outcome |-> "TIMEOUT", hit |-> None]
               ELSE IF target # None /\ stop # None /\ Tied(s[target], s[stop])
                 THEN [outcome |-> "AMBIGUOUS", hit |-> None]
               ELSE IF stop = None \/ (target # None /\ KeyBefore(s[target], s[stop]))
                 THEN [outcome |-> "TP_FIRST", hit |-> target]
               ELSE [outcome |-> "SL_FIRST", hit |-> stop]
  BY DEF BarrierOutcome
<1>3. /\ Len(s) \in Nat /\ DOMAIN s = 1 .. Len(s)
      /\ \A n \in DOMAIN s : s[n].at \in Int /\ s[n].order \in Int /\ s[n].price \in Int
  BY LenProperties DEF Ticks, Range
<1>4. /\ hits \subseteq 1 .. Len(s) /\ bucket \subseteq hits
      /\ \A n \in hits : AtTarget(side, entry, s[n]) \/ AtStop(side, entry, s[n])
      /\ T \subseteq bucket /\ P \subseteq bucket /\ bucket = T \cup P
  BY <1>3 DEF After
<1>5. \A n \in hits : ~ (AtTarget(side, entry, s[n]) /\ AtStop(side, entry, s[n]))
  BY <1>3, <1>4, BarriersApart
<1>. SUFFICES OutcomeTells(s, side, entry, hits, result)
  BY <1>1
<1>. HIDE DEF result
<1>6. CASE hits = {}
  BY <1>2, <1>6 DEF OutcomeTells
<1>7. CASE hits # {}
  <2>. DEFINE m == Min(hits)
  <2>1. ASSUME NEW S, S \subseteq hits, S # {} PROVE Least(S, FirstOf(S)) /\ FirstOf(S) = Min(S) /\ FirstOf(S) # None
    <3>1. IsFiniteSet(S) /\ S \subseteq Int
      <4>. HIDE DEF hits
      <4>1. S \in SUBSET (1 .. Len(s))
        BY <1>4, <2>1
      <4>2. IsFiniteSet(1 .. Len(s))
        BY <1>3, FS_Interval
      <4>3. IsFiniteSet(S)
        BY <4>1, <4>2, FS_Subset
      <4>. QED BY <1>3, <4>1, <4>3
    <3>2. Least(S, Min(S))
      BY <2>1, <3>1, Extremes
    <3>. QED BY <2>1, <3>1, <3>2, LabelsAssumption DEF FirstOf, Least
  <2>2. m \in bucket /\ \A n \in hits : m <= n
    <3>1. Least(hits, m)
      BY <1>7, <2>1
    <3>. QED BY <3>1 DEF Least
  <2>3. \A n \in hits : Tied(s[n], s[m]) => n \in bucket
    BY DEF Tied
  <2>. HIDE DEF hits, m, T, P, bucket
  <2>4. /\ (T # {} => Least(T, target) /\ target # None) /\ (T = {} => target = None)
        /\ (P # {} => Least(P, stop) /\ stop # None) /\ (P = {} => stop = None)
    <3>1. T \subseteq hits /\ P \subseteq hits
      BY <1>4
    <3>. QED BY <2>1, <3>1 DEF FirstOf
  <2>. HIDE DEF target, stop
  <2>5. \A i, j \in hits : i <= j => KeyBefore(s[i], s[j]) \/ Tied(s[i], s[j])
    BY <1>3, <1>4, KeysInTime
  <2>6. \A i, j \in hits : i < j => ~ KeyBefore(s[j], s[i])
    BY <1>3, <1>4 DEF InTime
  <2>7. \A n \in hits : n \in Int /\ s[n].at \in Int /\ s[n].order \in Int
    BY <1>3, <1>4
  <2>8. CASE target # None /\ stop # None /\ Tied(s[target], s[stop])
    <3>1. target \in T /\ stop \in P
      BY <2>4, <2>8 DEF Least
    <3>2. /\ target \in hits /\ stop \in hits /\ Tied(s[stop], s[target])
          /\ AtTarget(side, entry, s[target]) /\ AtStop(side, entry, s[stop])
      BY <1>4, <2>8, <3>1 DEF T, P, Tied
    <3>3. result.outcome = "AMBIGUOUS" /\ result.hit = None
      BY <1>2, <1>7, <2>8
    <3>. QED BY <3>2, <3>3 DEF OutcomeTells
  <2>9. CASE ~ (target # None /\ stop # None /\ Tied(s[target], s[stop]))
    <3>1. CASE stop = None \/ (target # None /\ KeyBefore(s[target], s[stop]))
      <4>1. result = [outcome |-> "TP_FIRST", hit |-> target]
        BY <1>2, <1>7, <2>9, <3>1
      <4>2. target \in T /\ target \in hits /\ m <= target
        BY <1>4, <2>2, <2>4, <3>1 DEF Least
      <4>3. m \notin P
        <5>1. SUFFICES ASSUME m \in P PROVE FALSE
          OBVIOUS
        <5>2. stop = m /\ m \in hits
          <6>1. stop \in P /\ stop <= m
            BY <2>4, <5>1 DEF Least
          <6>2. stop \in hits /\ m \in hits
            BY <1>4, <2>2, <6>1
          <6>. QED BY <2>2, <2>7, <6>1, <6>2
        <5>3. target # m
          BY <1>5, <4>2, <5>1, <5>2 DEF T, P
        <5>4. KeyBefore(s[target], s[m])
          BY <2>4, <3>1, <5>1, <5>2
        <5>. QED BY <2>6, <2>7, <4>2, <5>2, <5>3, <5>4
      <4>4. target = m
        BY <1>4, <2>2, <2>4, <2>7, <4>2, <4>3 DEF Least
      <4>5. ASSUME NEW n \in hits, Tied(s[n], s[m]) PROVE AtTarget(side, entry, s[n])
        <5>1. SUFFICES ASSUME n \in P PROVE FALSE
          BY <1>4, <2>3, <4>5 DEF T
        <5>2. stop \in P /\ stop <= n /\ stop \in hits /\ stop # None /\ target # None
          BY <1>4, <2>4, <4>2, <5>1 DEF Least
        <5>3. KeyBefore(s[m], s[stop]) /\ (KeyBefore(s[stop], s[n]) \/ Tied(s[stop], s[n]))
          BY <2>5, <3>1, <4>4, <5>2
        <5>. QED BY <2>2, <2>7, <4>2, <4>4, <4>5, <5>2, <5>3 DEF KeyBefore, Tied
      <4>6. AtTarget(side, entry, s[m])
        BY <4>2, <4>4 DEF T
      <4>7. result.outcome = "TP_FIRST" /\ result.hit = m /\ m \in hits
        BY <4>1, <4>2, <4>4
      <4>. QED BY <2>2, <4>5, <4>6, <4>7 DEF OutcomeTells
    <3>2. CASE ~ (stop = None \/ (target # None /\ KeyBefore(s[target], s[stop])))
      <4>1. result = [outcome |-> "SL_FIRST", hit |-> stop]
        BY <1>2, <1>7, <2>9, <3>2
      <4>2. stop \in P /\ stop \in hits /\ m <= stop
        BY <1>4, <2>2, <2>4, <3>2 DEF Least
      <4>3. ASSUME NEW n \in T PROVE KeyBefore(s[stop], s[n])
        <5>1. target \in hits /\ target # None /\ target <= n /\ n \in hits
          BY <1>4, <2>4, <4>3 DEF Least
        <5>2. KeyBefore(s[stop], s[target])
          BY <2>7, <2>9, <3>2, <4>2, <5>1 DEF KeyBefore, Tied
        <5>3. KeyBefore(s[target], s[n]) \/ Tied(s[target], s[n])
          BY <2>5, <5>1
        <5>. QED BY <2>7, <4>2, <5>1, <5>2, <5>3 DEF KeyBefore, Tied
      <4>4. stop = m
        <5>1. m \notin T
          <6>1. SUFFICES ASSUME m \in T PROVE FALSE
            OBVIOUS
          <6>2. KeyBefore(s[stop], s[m]) /\ m \in hits
            BY <1>4, <4>3, <6>1
          <6>. QED BY <2>6, <2>7, <4>2, <6>2 DEF KeyBefore
        <5>. QED BY <1>4, <2>2, <2>4, <2>7, <4>2, <5>1 DEF Least
      <4>5. ASSUME NEW n \in hits, Tied(s[n], s[m]) PROVE ~ AtTarget(side, entry, s[n])
        <5>1. SUFFICES ASSUME n \in T PROVE FALSE
          BY <2>3, <4>5 DEF T
        <5>. QED BY <2>7, <4>2, <4>3, <4>4, <4>5, <5>1 DEF KeyBefore, Tied
      <4>6. ~ AtTarget(side, entry, s[m])
        BY <1>5, <4>2, <4>4 DEF P
      <4>7. result.outcome = "SL_FIRST" /\ result.hit = m /\ m \in hits
        BY <4>1, <4>2, <4>4
      <4>. QED BY <2>2, <4>5, <4>6, <4>7 DEF OutcomeTells
    <3>. QED BY <3>1, <3>2
  <2>. QED BY <2>8, <2>9
<1>. QED BY <1>6, <1>7
-----------------------------------------------------------------------------
(* Volumes add up. *)

SizesOf(trades, S) == [m \in S |-> trades[m].size]

\* The volume of a set of trades is among the sums of its subsets (MapThenSumSet).
LEMMA VolumeIsSummed ==
  ASSUME NEW trades, NEW S, Valued(S, SizesOf(trades, S))
  PROVE  \E h : Summed(h, S, SizesOf(trades, S)) /\ Volume(trades, S) = h[S]
<1>. DEFINE v == SizesOf(trades, S)
            Def(f) == [t \in SUBSET S |-> IF t = {} THEN 0
                                          ELSE trades[CHOOSE x \in t : TRUE].size + f[t \ {CHOOSE x \in t : TRUE}]]
            iter == CHOOSE f : f = Def(f)
<1>1. Volume(trades, S) = iter[S]
  BY DEF Volume, MapThenSumSet, MapThenFoldSet
<1>2. ASSUME NEW t \in SUBSET S, t # {}
      PROVE  v[CHOOSE x \in t : TRUE] = trades[CHOOSE x \in t : TRUE].size
  BY <1>2 DEF SizesOf
<1>. HIDE DEF v
<1>3. PICK h : Summed(h, S, v)
  BY SummedExists DEF v
<1>4. h = Def(h)
  <2>1. \A t \in SUBSET S : t # {} => h[t] = trades[CHOOSE x \in t : TRUE].size + h[t \ {CHOOSE x \in t : TRUE}]
    BY <1>2, <1>3 DEF Summed
  <2>2. h = [t \in SUBSET S |-> h[t]] /\ h[{}] = 0
    BY <1>3 DEF Summed
  <2>. QED BY <2>1, <2>2
<1>5. iter = Def(iter)
  <2>. HIDE DEF Def
  <2>. QED BY <1>4
<1>. HIDE DEF iter
<1>6. iter[{}] = 0 /\ iter = [t \in SUBSET S |-> iter[t]]
  BY <1>5
<1>7. \A t \in SUBSET S : t # {} => iter[t] = v[CHOOSE x \in t : TRUE] + iter[t \ {CHOOSE x \in t : TRUE}]
  BY <1>2, <1>5
<1>8. Summed(iter, S, v)
  BY <1>6, <1>7, SumsFound DEF v
<1>. QED BY <1>1, <1>8 DEF v

\* One trade more, not among the others, adds its size.
LEMMA VolumeAdds ==
  ASSUME NEW trades, Ticks(trades), NEW S \in SUBSET DOMAIN trades
  PROVE  /\ Volume(trades, S) \in Int /\ Volume(trades, {}) = 0
         /\ \A x \in S : Volume(trades, S) = trades[x].size + Volume(trades, S \ {x})
<1>1. ASSUME NEW U \in SUBSET DOMAIN trades PROVE Valued(U, SizesOf(trades, U))
  <2>1. IsFiniteSet(DOMAIN trades)
    <3>1. Len(trades) \in Nat /\ DOMAIN trades = 1 .. Len(trades)
      BY LenProperties DEF Ticks
    <3>. QED BY <3>1, FS_Interval
  <2>2. IsFiniteSet(U)
    BY <2>1, FS_Subset
  <2>3. \A a \in U : SizesOf(trades, U)[a] \in Int
    BY DEF Ticks, Range, SizesOf
  <2>. QED BY <2>2, <2>3 DEF Valued
<1>2. PICK h : Summed(h, S, SizesOf(trades, S)) /\ Volume(trades, S) = h[S]
  BY <1>1, VolumeIsSummed
<1>3. ASSUME NEW U \in SUBSET S PROVE Volume(trades, U) = h[U]
  <2>1. U \in SUBSET DOMAIN trades
    OBVIOUS
  <2>2. Valued(U, SizesOf(trades, U)) /\ Valued(S, SizesOf(trades, S))
    BY <1>1, <2>1
  <2>3. \A a \in U : SizesOf(trades, S)[a] = SizesOf(trades, U)[a]
    BY DEF SizesOf
  <2>4. PICK g : Summed(g, U, SizesOf(trades, U)) /\ Volume(trades, U) = g[U]
    BY <2>2, VolumeIsSummed
  <2>5. \A t \in SUBSET U : h[t] = g[t]
    <3>. DEFINE vS == SizesOf(trades, S)
                vU == SizesOf(trades, U)
    <3>1. Valued(S, vS) /\ Summed(h, S, vS) /\ Summed(g, U, vU) /\ \A a \in U : vS[a] = vU[a]
      BY <1>2, <2>2, <2>3, <2>4
    <3>. HIDE DEF vS, vU
    <3>. QED BY <3>1, SumsAgree
  <2>. QED BY <2>4, <2>5
<1>4. \A t \in SUBSET S : h[t] \in Int /\ \A x \in t : h[t] = SizesOf(trades, S)[x] + h[t \ {x}]
  <2>1. Valued(S, SizesOf(trades, S))
    BY <1>1
  <2>2. Adding(h, S, SizesOf(trades, S))
    BY <1>2, <2>1, SumsAdd
  <2>. QED BY <2>2 DEF Adding
<1>5. ASSUME NEW x \in S PROVE Volume(trades, S) = trades[x].size + Volume(trades, S \ {x})
  <2>1. SizesOf(trades, S)[x] = trades[x].size /\ S \ {x} \in SUBSET S /\ S \in SUBSET S
    BY DEF SizesOf
  <2>2. h[S] = trades[x].size + h[S \ {x}] /\ Volume(trades, S \ {x}) = h[S \ {x}]
    BY <1>3, <1>4, <2>1
  <2>. QED BY <1>2, <2>2
<1>6. Volume(trades, {}) = 0 /\ Volume(trades, S) \in Int
  <2>1. {} \in SUBSET S /\ h[{}] = 0 /\ S \in SUBSET S
    BY <1>2 DEF Summed
  <2>. QED BY <1>2, <1>3, <1>4, <2>1
<1>. QED BY <1>5, <1>6
-----------------------------------------------------------------------------
(* The fills of an order o at a series of trades *)

OrderValues == [side : {"LONG", "SHORT"}, entry : Int, queue : Nat, size : Nat \ {0}, from : Int, to : Int]

FillValues == [volume : Int, filled : Int, first : Int \cup {None}, full : Int \cup {None}]

FillOf(s, o) == MakerFill(s, o.side, o.entry, o.queue, o.size, o.from, o.to)

\* What the n-th trade of the series makes of a fill.
WithTrade(fill, s, o, n) ==
  IF n \in EntryTrades(s, o.from, o.to)
  THEN Deplete(fill, n, s[n], o.side, o.entry, o.queue, o.size) ELSE fill

MineBy(s, o, n) == Against(s, o.side, o.entry, o.from, o.to, n)

\* The trades up to the i-th with which the order has been reached.
Reached(s, o, i) ==
  {n \in 1 .. i : n \in MineBy(s, o, n) /\ Reaches(s, o.side, o.entry, o.queue, o.size, MineBy(s, o, n))}

FillTells(fill, s, o, i) ==
  /\ fill \in FillValues
  /\ fill.full = FirstOf(Reached(s, o, i))
  /\ Reached(s, o, i) = {} =>
       /\ \A m \in MineBy(s, o, i) : ~ Through(o.side, o.entry, s[m])
       /\ fill.volume = Volume(s, MineBy(s, o, i)) /\ fill.volume < o.queue + o.size
       /\ fill.filled = Executable(o.size, fill.volume, o.queue)

\* A trade makes a fill of a fill.
LEMMA WithTradeTyped ==
  ASSUME NEW s, Ticks(s), NEW o \in OrderValues, NEW fill \in FillValues, NEW n \in DOMAIN s
  PROVE  WithTrade(fill, s, o, n) \in FillValues
<1>1. n \in Int /\ s[n].size \in Int
  BY LenProperties DEF Ticks, Range
<1>2. o.size \in Int /\ o.queue \in Int
  BY DEF OrderValues
<1>3. ASSUME NEW volume \in Int, NEW filled \in Int PROVE Seen(fill, n, volume, filled, o.size) \in FillValues
  BY <1>1 DEF Seen, FillValues
<1>4. \A volume \in Int : Executable(o.size, volume, o.queue) \in Int
  BY <1>2 DEF Executable
<1>5. fill.volume \in Int /\ fill.volume + s[n].size \in Int
  BY <1>1 DEF FillValues
<1>6. Deplete(fill, n, s[n], o.side, o.entry, o.queue, o.size) \in FillValues
  BY <1>2, <1>3, <1>4, <1>5 DEF Deplete
<1>. QED BY <1>6 DEF WithTrade

\* The trades are taken one after the other (_maker_fills).
LEMMA FillRun ==
  ASSUME NEW s, Ticks(s), NEW o \in OrderValues
  PROVE  \E f \in [0 .. Len(s) -> FillValues] :
            /\ f[0] = NoFill /\ FillOf(s, o) = f[Len(s)]
            /\ \A i \in 1 .. Len(s) : f[i] = WithTrade(f[i - 1], s, o, i)
<1>. DEFINE n == Len(s)
            places == [k \in DOMAIN s |-> k]
            G == [p \in (1 .. n) \X FillValues |-> WithTrade(p[2], s, o, p[1])]
            Step(fill, k) ==
              IF k \in EntryTrades(s, o.from, o.to)
              THEN Deplete(fill, k, s[k], o.side, o.entry, o.queue, o.size) ELSE fill
            Def(f) == [t \in SUBSET (1 .. n) |-> IF t = {} THEN NoFill
                                                 ELSE Step(f[t \ {Max(t)}], places[Max(t)])]
            iter == CHOOSE f : f = Def(f)
<1>1. n \in Nat /\ DOMAIN s = 1 .. n /\ DOMAIN places = 1 .. n
  BY LenProperties DEF Ticks
<1>2. FillOf(s, o) = iter[1 .. n]
  BY <1>1 DEF FillOf, MakerFill, FoldLeft, MapThenFoldSet
<1>3. \A i \in 1 .. n : \A fill : Step(fill, places[i]) = WithTrade(fill, s, o, i)
  BY <1>1 DEF WithTrade
<1>4. \A i \in 1 .. n, x \in FillValues : G[<<i, x>>] = WithTrade(x, s, o, i) /\ G[<<i, x>>] \in FillValues
  BY <1>1, WithTradeTyped
<1>5. NoFill \in FillValues
  BY DEF NoFill, FillValues
<1>. HIDE DEF n, G, Step
<1>6. Closed(G, 1 .. n, FillValues)
  BY <1>4 DEF Closed
<1>7. PICK h : MaxFold(h, n, FillValues, NoFill, G)
  BY <1>1, <1>5, <1>6, FoldLeftExists
<1>8. h = Def(h) /\ \A t \in SUBSET (1 .. n) : t # {} => Max(t) \in 1 .. n
  <2>1. /\ h \in [SUBSET (1 .. n) -> FillValues] /\ h[{}] = NoFill
        /\ \A t \in SUBSET (1 .. n) : t # {} => Max(t) \in 1 .. n /\ h[t] = G[<<Max(t), h[t \ {Max(t)}]>>]
    BY <1>7 DEF MaxFold
  <2>2. ASSUME NEW t \in SUBSET (1 .. n), t # {}
        PROVE  h[t] = Step(h[t \ {Max(t)}], places[Max(t)])
    <3>. DEFINE m == Max(t)
                r == t \ {m}
    <3>1. m \in 1 .. n /\ h[t] = G[<<m, h[r]>>] /\ r \in SUBSET (1 .. n)
      BY <2>1, <2>2
    <3>. HIDE DEF m, r, places
    <3>2. h[r] \in FillValues
      BY <2>1, <3>1
    <3>3. h[t] = Step(h[r], places[m])
      BY <1>3, <1>4, <3>1, <3>2
    <3>. QED BY <3>3 DEF m, r
  <2>. HIDE DEF places
  <2>. QED BY <2>1, <2>2
<1>9. iter = Def(iter)
  <2>. HIDE DEF Def
  <2>. QED BY <1>8
<1>. HIDE DEF iter
<1>10. iter[{}] = NoFill
  BY <1>9
<1>11. ASSUME NEW t \in SUBSET (1 .. n), t # {}, iter[t \ {Max(t)}] \in FillValues
       PROVE  iter[t] = G[<<Max(t), iter[t \ {Max(t)}]>>]
  <2>. DEFINE m == Max(t)
              x == iter[t \ {m}]
  <2>1. m \in 1 .. n /\ x \in FillValues
    BY <1>8, <1>11
  <2>. HIDE DEF places
  <2>2. iter[t] = Step(x, places[m])
    BY <1>9, <1>11
  <2>. HIDE DEF m, x
  <2>3. iter[t] = G[<<m, x>>]
    BY <1>3, <1>4, <2>1, <2>2
  <2>. QED BY <2>3 DEF m, x
<1>12. PICK f : Recursion(f, n, FillValues, NoFill, G) /\ f[n] = iter[1 .. n]
  <2>1. Unfolds(iter, n, FillValues, NoFill, G)
    BY <1>10, <1>11 DEF Unfolds
  <2>. QED BY <1>1, <1>5, <1>6, <2>1, FoldLeftRuns
<1>13. f \in [0 .. n -> FillValues] /\ f[0] = NoFill
  BY <1>12 DEF Recursion
<1>14. ASSUME NEW i \in 1 .. n PROVE f[i] = WithTrade(f[i - 1], s, o, i)
  <2>1. f[i - 1] \in FillValues /\ f[i] = G[<<i, f[i - 1]>>]
    <3>1. i - 1 \in 0 .. n
      BY <1>1
    <3>. QED BY <1>12, <3>1 DEF Recursion
  <2>. QED BY <1>4, <2>1
<1>. QED BY <1>2, <1>12, <1>13, <1>14 DEF n

\* The first of some numbers up to i is one of them.
LEMMA FirstIsLeast ==
  ASSUME NEW n \in Nat, NEW S \in SUBSET (1 .. n)
  PROVE  IF S = {} THEN FirstOf(S) = None ELSE Least(S, FirstOf(S)) /\ FirstOf(S) \in Int /\ FirstOf(S) # None
<1>1. CASE S # {}
  <2>1. IsFiniteSet(1 .. n)
    BY FS_Interval
  <2>2. IsFiniteSet(S) /\ S \subseteq Int
    <3>1. IsFiniteSet(S)
      BY <2>1, FS_Subset
    <3>. QED BY <3>1
  <2>3. Least(S, Min(S))
    BY <1>1, <2>2, Extremes
  <2>. QED BY <1>1, <2>2, <2>3, LabelsAssumption DEF FirstOf, Least
<1>. QED BY <1>1 DEF FirstOf

\* The i-th trade is against the order, or leaves the trades against it.
LEMMA MineGrows ==
  ASSUME NEW s, Ticks(s), NEW o \in OrderValues, NEW i \in 1 .. Len(s)
  PROVE  /\ MineBy(s, o, i) \subseteq 1 .. i
         /\ i \notin MineBy(s, o, i - 1)
         /\ i \in MineBy(s, o, i) <=>
              i \in EntryTrades(s, o.from, o.to) /\ Contra(o.side, o.entry, s[i])
         /\ IF i \in MineBy(s, o, i) THEN MineBy(s, o, i) = MineBy(s, o, i - 1) \cup {i}
                                     ELSE MineBy(s, o, i) = MineBy(s, o, i - 1)
BY LenProperties DEF Ticks, MineBy, Against, EntryTrades

\* Full with the first trade that reaches the order, and else what its trades leave of
\* the queue.
LEMMA WithTradeTells ==
  ASSUME NEW s, Ticks(s), NEW o \in OrderValues, NEW i \in 1 .. Len(s),
         NEW fill, FillTells(fill, s, o, i - 1)
  PROVE  FillTells(WithTrade(fill, s, o, i), s, o, i)
<1>. DEFINE before == Reached(s, o, i - 1)
            now == Reached(s, o, i)
            mine == MineBy(s, o, i)
            past == MineBy(s, o, i - 1)
            next == WithTrade(fill, s, o, i)
            hit == i \in mine /\ Reaches(s, o.side, o.entry, o.queue, o.size, mine)
<1>1. /\ Len(s) \in Nat /\ DOMAIN s = 1 .. Len(s) /\ i \in DOMAIN s /\ i \in Int
      /\ s[i].size \in Int
  BY LenProperties DEF Ticks, Range
<1>2. /\ before \in SUBSET (1 .. (i - 1)) /\ now \in SUBSET (1 .. i) /\ i - 1 \in Nat /\ i \in Nat
      /\ now = IF hit THEN before \cup {i} ELSE before
  BY <1>1 DEF Reached
<1>3. /\ mine \subseteq 1 .. i /\ i \notin past
      /\ i \in mine <=> i \in EntryTrades(s, o.from, o.to) /\ Contra(o.side, o.entry, s[i])
      /\ IF i \in mine THEN mine = past \cup {i} ELSE mine = past
  BY MineGrows
<1>4. next \in FillValues /\ fill \in FillValues
  BY <1>1, WithTradeTyped DEF FillTells
<1>5. /\ o.size \in Nat /\ o.size > 0 /\ o.queue \in Nat
  BY DEF OrderValues
<1>6. fill.full = FirstOf(before)
  BY DEF FillTells
<1>. HIDE DEF before, now
<1>7. CASE before # {}
  <2>1. Least(before, fill.full) /\ fill.full \in Int /\ fill.full # None
    BY <1>2, <1>6, <1>7, FirstIsLeast
  <2>2. next = fill
    BY <2>1 DEF WithTrade, Deplete
  <2>3. now # {} /\ Least(now, FirstOf(now))
    BY <1>2, <1>7, FirstIsLeast
  <2>4. FirstOf(now) = fill.full
    <3>1. \A x \in now : x \in before \/ x = i
      BY <1>2
    <3>2. before \subseteq now /\ \A x \in before : x \in Int /\ x < i
      BY <1>2
    <3>3. fill.full \in now /\ \A x \in now : fill.full <= x
      BY <1>1, <2>1, <3>1, <3>2 DEF Least
    <3>4. FirstOf(now) \in Int /\ FirstOf(now) \in now /\ \A x \in now : FirstOf(now) <= x
      <4>1. FirstOf(now) \in now /\ \A x \in now : FirstOf(now) <= x
        BY <2>3 DEF Least
      <4>2. now \subseteq Int
        BY <1>2
      <4>. QED BY <4>1, <4>2
    <3>. QED BY <2>1, <3>3, <3>4
  <2>. QED BY <1>4, <2>2, <2>3, <2>4 DEF FillTells, now
<1>8. CASE before = {}
  <2>1. fill.full = None
    BY <1>6, <1>8 DEF FirstOf
  <2>2. /\ \A m \in past : ~ Through(o.side, o.entry, s[m])
        /\ fill.volume = Volume(s, past) /\ fill.volume < o.queue + o.size /\ fill.volume \in Int
        /\ fill.filled = Executable(o.size, fill.volume, o.queue)
    BY <1>4, <1>8 DEF FillTells, before, FillValues
  <2>. HIDE DEF past, mine
  <2>3. CASE i \notin mine
    <3>1. next = fill /\ now = {} /\ mine = past
      BY <1>2, <1>3, <1>8, <2>3 DEF WithTrade, Deplete
    <3>. QED BY <1>4, <2>1, <2>2, <3>1 DEF FillTells, now, mine, FirstOf
  <2>4. CASE i \in mine
    <3>1. mine = past \cup {i} /\ mine \in SUBSET DOMAIN s /\ mine \ {i} = past
      BY <1>1, <1>3, <2>4
    <3>2. Volume(s, mine) = s[i].size + Volume(s, past) /\ Volume(s, past) \in Int /\ Volume(s, mine) \in Int
      <4>1. past \in SUBSET DOMAIN s
        BY <3>1
      <4>2. /\ Volume(s, mine) \in Int /\ Volume(s, past) \in Int
            /\ \A x \in mine : Volume(s, mine) = s[x].size + Volume(s, mine \ {x})
        BY <3>1, <4>1, VolumeAdds
      <4>. QED BY <2>4, <3>1, <4>2
    <3>3. next = IF Through(o.side, o.entry, s[i]) THEN Seen(fill, i, fill.volume, o.size, o.size)
                 ELSE Seen(fill, i, Volume(s, mine), Executable(o.size, Volume(s, mine), o.queue), o.size)
      BY <1>1, <1>3, <2>1, <2>2, <2>4, <3>2 DEF WithTrade, Deplete
    <3>4. CASE hit
      <4>1. now = {i}
        BY <1>2, <1>8, <3>4
      <4>2. FirstOf(now) = i
        <5>1. Least(now, FirstOf(now))
          BY <1>2, <4>1, FirstIsLeast
        <5>. QED BY <4>1, <5>1 DEF Least
      <4>3. Through(o.side, o.entry, s[i]) \/ Volume(s, mine) >= o.queue + o.size
        BY <2>2, <3>1, <3>4 DEF Reaches
      <4>4. Volume(s, mine) >= o.queue + o.size => Executable(o.size, Volume(s, mine), o.queue) = o.size
        BY <1>5, <3>2 DEF Executable
      <4>5. next.full = i
        BY <3>3, <4>3, <4>4 DEF Seen
      <4>. QED BY <1>4, <4>1, <4>2, <4>5 DEF FillTells, now
    <3>5. CASE ~ hit
      <4>1. now = {}
        BY <1>2, <1>8, <3>5
      <4>2. ~ Through(o.side, o.entry, s[i]) /\ Volume(s, mine) < o.queue + o.size
        BY <1>5, <2>4, <3>2, <3>5 DEF Reaches
      <4>3. Executable(o.size, Volume(s, mine), o.queue) # o.size
        BY <1>5, <3>2, <4>2 DEF Executable
      <4>4. next = Seen(fill, i, Volume(s, mine), Executable(o.size, Volume(s, mine), o.queue), o.size)
        BY <3>3, <4>2
      <4>5. /\ next.full = None /\ next.volume = Volume(s, mine)
            /\ next.filled = Executable(o.size, next.volume, o.queue)
        BY <4>3, <4>4 DEF Seen
      <4>6. \A m \in mine : ~ Through(o.side, o.entry, s[m])
        BY <2>2, <3>1, <4>2
      <4>. QED BY <1>4, <4>1, <4>2, <4>5, <4>6 DEF FillTells, now, mine, FirstOf
    <3>. QED BY <3>4, <3>5
  <2>. QED BY <2>3, <2>4
<1>. QED BY <1>7, <1>8

\* The fill of all trades (_maker_fill).
LEMMA FillIsTold ==
  ASSUME NEW s, Ticks(s), NEW o \in OrderValues
  PROVE  FillTells(FillOf(s, o), s, o, Len(s))
<1>. DEFINE n == Len(s)
<1>1. n \in Nat /\ DOMAIN s = 1 .. n
  BY LenProperties DEF Ticks
<1>2. PICK f \in [0 .. n -> FillValues] :
         /\ f[0] = NoFill /\ FillOf(s, o) = f[n]
         /\ \A i \in 1 .. n : f[i] = WithTrade(f[i - 1], s, o, i)
  BY FillRun
<1>. DEFINE T == {i \in 0 .. n : FillTells(f[i], s, o, i)}
<1>. HIDE DEF n
<1>3. 0 \in T
  <2>1. Reached(s, o, 0) = {} /\ MineBy(s, o, 0) = {}
    BY <1>1 DEF Reached, MineBy, Against, EntryTrades
  <2>2. Volume(s, {}) = 0
    BY VolumeAdds
  <2>3. NoFill \in FillValues /\ o.size > 0 /\ o.queue >= 0 /\ o.size \in Int /\ o.queue \in Int
    BY DEF NoFill, FillValues, OrderValues
  <2>4. Executable(o.size, 0, o.queue) = 0 /\ 0 < o.queue + o.size
    BY <2>3 DEF Executable
  <2>5. NoFill.full = None /\ NoFill.volume = 0 /\ NoFill.filled = 0
    BY DEF NoFill
  <2>6. FillTells(NoFill, s, o, 0)
    BY <2>1, <2>2, <2>3, <2>4, <2>5 DEF FillTells, FirstOf
  <2>. QED BY <1>1, <1>2, <2>6
<1>4. ASSUME NEW i \in 0 .. n - 1, i \in T PROVE i + 1 \in T
  <2>1. i + 1 \in 1 .. Len(s) /\ (i + 1) - 1 = i /\ i + 1 \in 0 .. n
    BY <1>1 DEF n
  <2>2. f[i + 1] = WithTrade(f[i], s, o, i + 1)
    BY <1>2, <2>1 DEF n
  <2>3. FillTells(f[(i + 1) - 1], s, o, (i + 1) - 1)
    BY <1>4, <2>1
  <2>4. FillTells(WithTrade(f[i], s, o, i + 1), s, o, i + 1)
    BY <2>1, <2>3, WithTradeTells
  <2>. QED BY <2>1, <2>2, <2>4
<1>5. \A i \in 0 .. n : i \in T
  <2>. HIDE DEF T
  <2>. QED BY <1>1, <1>3, <1>4, UpTo
<1>6. n \in 0 .. n
  BY <1>1
<1>. QED BY <1>2, <1>5, <1>6 DEF n
-----------------------------------------------------------------------------
(* Labels of any market *)

\* Books in the order of their receipt; a connection is not replaced within an instant.
BooksRead(books) ==
  /\ books \in Seq(Range(books)) /\ \A b \in Range(books) : b.at \in Int
  /\ \A m, n \in DOMAIN books : m < n =>
       /\ books[m].at <= books[n].at
       /\ books[m].at = books[n].at => books[m].session = books[n].session

MarketRead(market, entry) ==
  /\ Ticks(market.trades) /\ BooksRead(market.books)
  /\ \A b \in Range(market.books) : b.sizes[entry] \in Nat \cup {None}

\* The books of a window without a gap are of one session, and so is the book before
\* any time in it (_OrderBookSeries.has_continuous_coverage).
LEMMA SessionHolds ==
  ASSUME NEW books, BooksRead(books), NEW from \in Int, NEW to \in Int, OneSession(books, from, to)
  PROVE  LET mine == books[Max(BooksBy(books, from))].session
         IN  /\ \A n \in DOMAIN books : books[n].at \in from .. to => books[n].session = mine
             /\ \A t \in from .. to : books[Max(BooksBy(books, t))].session = mine
<1>. DEFINE left == Max(BooksBy(books, from))
            right == Max(BooksBy(books, to))
<1>1. /\ Len(books) \in Nat /\ DOMAIN books = 1 .. Len(books)
      /\ \A n \in DOMAIN books : n \in Int /\ books[n].at \in Int
  BY LenProperties DEF BooksRead, Range
<1>2. from <= to /\ BooksBy(books, from) # {}
  BY DEF OneSession
<1>3. ASSUME NEW t \in Int, t >= from PROVE Greatest(BooksBy(books, t), Max(BooksBy(books, t)))
  <2>1. BooksBy(books, t) \in SUBSET (1 .. Len(books)) /\ BooksBy(books, t) # {}
    BY <1>1, <1>2, <1>3 DEF BooksBy
  <2>2. IsFiniteSet(1 .. Len(books))
    <3>1. Len(books) \in Int
      BY <1>1
    <3>. QED BY <3>1, FS_Interval
  <2>3. IsFiniteSet(BooksBy(books, t))
    BY <2>1, <2>2, FS_Subset
  <2>4. BooksBy(books, t) \subseteq Int
    BY <1>1, <2>1
  <2>. QED BY <2>1, <2>3, <2>4, Extremes
<1>4. /\ left \in DOMAIN books /\ books[left].at <= from /\ right \in DOMAIN books
      /\ \A n \in DOMAIN books : books[n].at <= to => n <= right
  BY <1>2, <1>3 DEF Greatest, BooksBy
<1>5. \A n \in left + 1 .. right : books[n].session = books[left].session
  BY DEF OneSession
<1>6. ASSUME NEW t \in from .. to PROVE books[Max(BooksBy(books, t))].session = books[left].session
  <2>. DEFINE k == Max(BooksBy(books, t))
  <2>1. Greatest(BooksBy(books, t), k)
    BY <1>3
  <2>2. k \in DOMAIN books /\ books[k].at <= t /\ left <= k
    BY <1>1, <1>4, <2>1 DEF Greatest, BooksBy
  <2>. HIDE DEF k, left, right
  <2>3. k <= right
    BY <1>1, <1>4, <2>2
  <2>4. k = left \/ k \in left + 1 .. right
    BY <1>1, <1>4, <2>2, <2>3
  <2>5. books[k].session = books[left].session
    BY <1>5, <2>4
  <2>. QED BY <2>5 DEF k, left
<1>7. ASSUME NEW n \in DOMAIN books, books[n].at \in from .. to PROVE books[n].session = books[left].session
  <2>. HIDE DEF left, right
  <2>1. n \in Int /\ left \in Int /\ right \in Int /\ books[n].at \in Int /\ books[left].at \in Int
    BY <1>1, <1>4
  <2>2. n <= right
    BY <1>4, <1>7
  <2>3. CASE n < left
    <3>1. books[n].at <= books[left].at
      BY <1>4, <2>3 DEF BooksRead
    <3>2. books[n].at = books[left].at
      BY <1>4, <1>7, <2>1, <3>1
    <3>. QED BY <1>4, <2>3, <3>2 DEF BooksRead
  <2>4. CASE n = left
    BY <2>4
  <2>5. CASE n > left
    BY <1>5, <2>1, <2>2, <2>5
  <2>. QED BY <2>1, <2>3, <2>4, <2>5
<1>. QED BY <1>6, <1>7

\* The first book behind submission (_activation_snapshot).
LEMMA ActivationTyped ==
  ASSUME NEW market, NEW side, NEW entry, MarketRead(market, entry), NEW submitted \in Int,
         Activation(market, side, entry, submitted) # None
  PROVE  /\ Activation(market, side, entry, submitted).at \in Int
         /\ Activation(market, side, entry, submitted).queue \in Nat \cup {None}
<1>. DEFINE books == market.books
            later == {n \in DOMAIN books : books[n].at >= submitted}
            book == books[Min(later)]
            order == Activation(market, side, entry, submitted)
<1>1. order = IF later = {} \/ (later # {} /\ book.at - submitted > ActivationDelay) THEN None
              ELSE IF ~PostOnly(book, side, entry) THEN [at |-> book.at, queue |-> None]
              ELSE IF QueueAhead(book, side, entry) = None THEN None
              ELSE [at |-> book.at, queue |-> QueueAhead(book, side, entry)]
  BY DEF Activation
<1>. HIDE DEF order
<1>2. later # {} /\ order # None
  BY <1>1 DEF order
<1>3. book \in Range(books)
  <2>1. Len(books) \in Nat /\ DOMAIN books = 1 .. Len(books)
    BY LenProperties DEF MarketRead, BooksRead
  <2>2. later \in SUBSET (1 .. Len(books)) /\ IsFiniteSet(1 .. Len(books))
    BY <2>1, FS_Interval
  <2>3. IsFiniteSet(later)
    BY <2>2, FS_Subset
  <2>4. later \subseteq Int
    BY <2>1, <2>2
  <2>5. Least(later, Min(later))
    BY <1>2, <2>3, <2>4, Extremes
  <2>. QED BY <2>5 DEF Least, Range
<1>4. book.at \in Int /\ QueueAhead(book, side, entry) \in Nat \cup {None}
  BY <1>3 DEF MarketRead, BooksRead, QueueAhead
<1>. HIDE DEF later, book
<1>. QED BY <1>1, <1>2, <1>4 DEF order

\* An order of the label builder.
OrderAt(order, d, side, entry, size) ==
  [side |-> side, entry |-> entry, queue |-> order.queue, size |-> size,
   from |-> order.at, to |-> d + Ttl]

\* What a row takes from the fill of its order and from the trades behind it.
RowTells(row, market, trades, order, o) ==
  LET fill == FillOf(trades, o)
      fullAt == trades[fill.full].at
      result == BarrierOutcome(trades, o.side, o.entry, fill.full, fullAt + Horizon, TRUE)
  IN /\ row.full = fill.full /\ row.filled = fill.filled /\ row.activation = o.from
     /\ Covers(market, o.from, o.to)
     /\ fill.full = None => row.status = Status(fill) /\ row.status # "FULL_FILL" /\ row.hit = None
     /\ fill.full # None =>
          /\ row.status = "FULL_FILL" /\ Covers(market, fullAt, fullAt + Horizon)
          /\ IF AtStop(o.side, o.entry, trades[fill.full])
             THEN row.outcome = "AMBIGUOUS" /\ row.hit = None
             ELSE row.outcome = result.outcome /\ row.hit = result.hit

\* The row that is written (_execution_label_rows).
LEMMA RowIsTold ==
  ASSUME NEW market, NEW d, NEW side, NEW entry, NEW size,
         Label(market, d, side, entry, size) # None
  PROVE  LET order == Activation(market, side, entry, d + Latency)
             row == Label(market, d, side, entry, size)
         IN  /\ order # None
             /\ order.queue = None => row.full = None /\ row.status = "NO_FILL"
             /\ order.queue # None =>
                  RowTells(row, market, Ordered(market.trades), order, OrderAt(order, d, side, entry, size))
<1>. DEFINE order == Activation(market, side, entry, d + Latency)
            trades == Ordered(market.trades)
            o == OrderAt(order, d, side, entry, size)
            fill == FillOf(trades, o)
            fullAt == trades[fill.full].at
            result == BarrierOutcome(trades, side, entry, fill.full, fullAt + Horizon, TRUE)
            row == Label(market, d, side, entry, size)
<1>1. /\ o.side = side /\ o.entry = entry /\ o.queue = order.queue /\ o.size = size
      /\ o.from = order.at /\ o.to = d + Ttl
  BY DEF OrderAt
<1>. HIDE DEF o
<1>2. fill = MakerFill(trades, side, entry, order.queue, size, order.at, d + Ttl)
  BY <1>1 DEF FillOf
<1>. HIDE DEF order, trades, fill
<1>3. row = IF order = None THEN None
            ELSE IF order.queue = None THEN LabelRow("NO_FILL", "NO_FILL", order.at, NoFill, None)
            ELSE IF ~Covers(market, order.at, d + Ttl) \/ LastReceived(trades) < d + Ttl THEN None
            ELSE IF fill.full = None THEN LabelRow(Status(fill), Status(fill), order.at, fill, None)
            ELSE PositionRow(market, trades, side, entry, order.at, fill)
  BY <1>2 DEF Label, order, trades
<1>4. PositionRow(market, trades, side, entry, order.at, fill) =
        IF ~Covers(market, fullAt, fullAt + Horizon) \/ LastReceived(trades) < fullAt + Horizon THEN None
        ELSE IF AtStop(side, entry, trades[fill.full])
          THEN LabelRow("FULL_FILL", "AMBIGUOUS", order.at, fill, None)
        ELSE LabelRow("FULL_FILL", result.outcome, order.at, fill, result.hit)
  BY DEF PositionRow
<1>5. \A status, outcome, hit : \A f :
        LET r == LabelRow(status, outcome, order.at, f, hit)
        IN  /\ r.status = status /\ r.outcome = outcome /\ r.activation = order.at
            /\ r.filled = f.filled /\ r.full = f.full /\ r.hit = hit
  BY DEF LabelRow
<1>. HIDE DEF row, fullAt, result
<1>6. row # None
  BY DEF row
<1>7. order # None
  BY <1>3, <1>6
<1>8. order.queue = None => row.full = None /\ row.status = "NO_FILL"
  BY <1>3, <1>5, <1>7 DEF NoFill
<1>9. ASSUME order.queue # None PROVE RowTells(row, market, trades, order, o)
  <2>1. Covers(market, order.at, d + Ttl)
    BY <1>3, <1>6, <1>7, <1>9
  <2>2. CASE fill.full = None
    <3>1. row = LabelRow(Status(fill), Status(fill), order.at, fill, None)
      BY <1>3, <1>6, <1>7, <1>9, <2>2
    <3>2. Status(fill) # "FULL_FILL"
      BY <2>2 DEF Status
    <3>3. row.status = Status(fill) /\ row.full = fill.full /\ row.filled = fill.filled
          /\ row.activation = order.at /\ row.hit = None
      BY <1>5, <3>1
    <3>. QED BY <1>1, <2>1, <2>2, <3>2, <3>3 DEF RowTells, fill
  <2>3. CASE fill.full # None
    <3>1. row = PositionRow(market, trades, side, entry, order.at, fill)
      BY <1>3, <1>6, <1>7, <1>9, <2>3
    <3>2. Covers(market, fullAt, fullAt + Horizon)
      BY <1>4, <1>6, <3>1
    <3>3. row = IF AtStop(side, entry, trades[fill.full])
                THEN LabelRow("FULL_FILL", "AMBIGUOUS", order.at, fill, None)
                ELSE LabelRow("FULL_FILL", result.outcome, order.at, fill, result.hit)
      BY <1>4, <1>6, <3>1
    <3>4. /\ row.full = fill.full /\ row.filled = fill.filled /\ row.activation = order.at
          /\ row.status = "FULL_FILL"
          /\ IF AtStop(side, entry, trades[fill.full])
             THEN row.outcome = "AMBIGUOUS" /\ row.hit = None
             ELSE row.outcome = result.outcome /\ row.hit = result.hit
      BY <1>5, <3>3
    <3>. QED BY <1>1, <2>1, <2>3, <3>2, <3>4 DEF RowTells, fill, fullAt, result
  <2>. QED BY <2>2, <2>3
<1>. QED BY <1>7, <1>8, <1>9 DEF row, order, trades, o

\* A fill is what the trades say: where it is full, and what is filled of it; and a
\* smaller order is not behind a larger one.
LEMMA FillsHonest ==
  ASSUME NEW market, NEW d \in Int, NEW side \in {"LONG", "SHORT"}, NEW entry \in Int,
         MarketRead(market, entry), NEW sizes \in SUBSET (Nat \ {0})
  PROVE  FillHonest(market, d, side, entry, sizes)
<1>. DEFINE trades == Ordered(market.trades)
            order == Activation(market, side, entry, d + Latency)
            Mine(n) == Against(trades, side, entry, order.at, d + Ttl, n)
            Fill(size) == Label(market, d, side, entry, size)
            full(size) == {n \in DOMAIN trades : n \in Mine(n)
                             /\ Reaches(trades, side, entry, order.queue, size, Mine(n))}
            o(size) == OrderAt(order, d, side, entry, size)
<1>1. /\ Ticks(trades) /\ Len(trades) \in Nat /\ DOMAIN trades = 1 .. Len(trades)
      /\ d + Latency \in Int /\ d + Ttl \in Int
  <2>1. Ticks(trades)
    BY OrderedTicks DEF MarketRead
  <2>. QED BY <2>1, LenProperties, LabelsAssumption DEF Ticks
<1>. HIDE DEF trades
<1>2. ASSUME NEW size \in sizes, Fill(size) # None, order.queue # None
      PROVE  /\ Fill(size).full = FirstOf(full(size))
             /\ Fill(size).status = "PARTIAL_FILL" =>
                  Fill(size).filled = Volume(trades, Mine(Len(trades))) - order.queue
             /\ order.queue \in Nat
  <2>. DEFINE p == o(size)
              row == Fill(size)
              fill == FillOf(trades, p)
  <2>1. order # None /\ RowTells(row, market, trades, order, p)
    BY <1>2, RowIsTold DEF trades
  <2>2. order.at \in Int /\ order.queue \in Nat
    BY <1>1, <1>2, <2>1, ActivationTyped
  <2>. HIDE DEF order
  <2>3. /\ p.side = side /\ p.entry = entry /\ p.queue = order.queue /\ p.size = size
        /\ p.from = order.at /\ p.to = d + Ttl /\ p \in OrderValues
    BY <1>1, <2>2 DEF OrderAt, OrderValues
  <2>. HIDE DEF p, row
  <2>4. FillTells(fill, trades, p, Len(trades))
    BY <1>1, <2>3, FillIsTold
  <2>5. \A n : MineBy(trades, p, n) = Mine(n)
    BY <2>3 DEF MineBy
  <2>6. Reached(trades, p, Len(trades)) = full(size)
    BY <1>1, <2>3, <2>5 DEF Reached
  <2>7. row.full = fill.full /\ row.filled = fill.filled /\ fill.full = FirstOf(full(size))
    BY <2>1, <2>4, <2>6 DEF RowTells, FillTells
  <2>8. ASSUME row.status = "PARTIAL_FILL" PROVE fill.filled = Volume(trades, Mine(Len(trades))) - order.queue
    <3>1. fill.full = None /\ Status(fill) = "PARTIAL_FILL" /\ fill.filled > 0
      BY <2>1, <2>8 DEF RowTells, Status
    <3>2. full(size) = {}
      <4>1. full(size) \in SUBSET (1 .. Len(trades))
        BY <1>1
      <4>. HIDE DEF full
      <4>. QED BY <1>1, <2>7, <3>1, <4>1, FirstIsLeast
    <3>3. /\ fill.volume = Volume(trades, Mine(Len(trades))) /\ fill.volume < order.queue + size
          /\ fill.filled = Executable(size, fill.volume, order.queue) /\ fill.volume \in Int
      BY <2>3, <2>4, <2>5, <2>6, <3>2 DEF FillTells, FillValues
    <3>4. size \in Nat /\ size > 0
      OBVIOUS
    <3>. HIDE DEF Mine, fill
    <3>. QED BY <2>2, <3>1, <3>3, <3>4 DEF Executable
  <2>. QED BY <2>2, <2>7, <2>8 DEF row
<1>3. ASSUME NEW size \in sizes, NEW less \in sizes, Fill(size) # None, order.queue # None, less < size,
             Fill(less) # None, Fill(size).full # None
      PROVE  Fill(less).full # None /\ Fill(less).full <= Fill(size).full
  <2>1. /\ Fill(size).full = FirstOf(full(size)) /\ Fill(less).full = FirstOf(full(less))
        /\ order.queue \in Nat
    BY <1>2, <1>3
  <2>2. \A n \in 1 .. Len(trades) : Volume(trades, Mine(n)) \in Int
    <3>1. \A n \in 1 .. Len(trades) : Mine(n) \in SUBSET DOMAIN trades
      BY DEF Against, EntryTrades
    <3>. HIDE DEF Mine
    <3>. QED BY <1>1, <3>1, VolumeAdds
  <2>3. less \in Int /\ size \in Int
    OBVIOUS
  <2>4. full(size) \subseteq full(less)
    <3>. HIDE DEF order, Mine
    <3>. QED BY <1>1, <1>3, <2>1, <2>2, <2>3 DEF Reaches
  <2>5. full(size) \in SUBSET (1 .. Len(trades)) /\ full(less) \in SUBSET (1 .. Len(trades))
    BY <1>1
  <2>. HIDE DEF full, Fill, order
  <2>6. full(size) # {} /\ Least(full(size), FirstOf(full(size)))
    BY <1>1, <1>3, <2>1, <2>5, FirstIsLeast
  <2>7. full(less) # {}
    BY <2>4, <2>6
  <2>8. Least(full(less), FirstOf(full(less))) /\ FirstOf(full(less)) # None
    BY <1>1, <2>5, <2>7, FirstIsLeast
  <2>. QED BY <2>1, <2>4, <2>6, <2>8 DEF Least
<1>. HIDE DEF order, Fill, full, Mine
<1>4. FillHonest(market, d, side, entry, sizes) <=>
        \A size \in sizes :
          Fill(size) # None /\ order.queue # None =>
            /\ Fill(size).full = FirstOf(full(size))
            /\ Fill(size).status = "PARTIAL_FILL" =>
                 Fill(size).filled = Volume(trades, Mine(Len(trades))) - order.queue
            /\ \A less \in sizes :
                 less < size /\ Fill(less) # None /\ Fill(size).full # None =>
                   Fill(less).full # None /\ Fill(less).full <= Fill(size).full
  BY DEF FillHonest, trades, order, Fill, full, Mine
<1>. QED BY <1>2, <1>3, <1>4

\* What is full, is so with a trade of the entry window.
LEMMA FullInWindow ==
  ASSUME NEW s, Ticks(s), NEW o \in OrderValues, FillOf(s, o).full # None
  PROVE  /\ FillOf(s, o).full \in DOMAIN s /\ FillOf(s, o).full \in Int
         /\ s[FillOf(s, o).full].at \in Int
         /\ o.from < s[FillOf(s, o).full].at /\ s[FillOf(s, o).full].at < o.to
<1>1. Len(s) \in Nat /\ DOMAIN s = 1 .. Len(s) /\ \A n \in DOMAIN s : s[n].at \in Int
  BY LenProperties DEF Ticks, Range
<1>2. FillOf(s, o).full = FirstOf(Reached(s, o, Len(s)))
  BY FillIsTold DEF FillTells
<1>3. Reached(s, o, Len(s)) \in SUBSET (1 .. Len(s))
  BY DEF Reached
<1>4. FillOf(s, o).full \in Reached(s, o, Len(s))
  BY <1>1, <1>2, <1>3, FirstIsLeast DEF Least
<1>5. FillOf(s, o).full \in EntryTrades(s, o.from, o.to)
  BY <1>4 DEF Reached, MineBy, Against
<1>. QED BY <1>1, <1>5 DEF EntryTrades

\* What lies between activation and the end of the position.
LEMMA OutcomesHonest ==
  ASSUME NEW market, NEW d \in Int, NEW side \in {"LONG", "SHORT"}, NEW entry \in Int,
         MarketRead(market, entry), NEW size \in Nat \ {0}
  PROVE  OutcomeHonest(market, d, side, entry, size) /\ LabelInOneSession(market, d, side, entry, size)
<1>. DEFINE trades == Ordered(market.trades)
            order == Activation(market, side, entry, d + Latency)
            row == Label(market, d, side, entry, size)
            o == OrderAt(order, d, side, entry, size)
            fill == FillOf(trades, o)
            fullAt == trades[fill.full].at
            Touch(n) == AtTarget(side, entry, trades[n]) \/ AtStop(side, entry, trades[n])
            future == {n \in DOMAIN trades : n > row.full /\ trades[n].visible
                                       /\ trades[n].at <= trades[row.full].at + Horizon}
            hits == {n \in future : Touch(n)}
            to == trades[row.full].at + Horizon
            end == IF to > d + Ttl THEN to ELSE d + Ttl
            books == market.books
            mine == {n \in DOMAIN books : books[n].at \in row.activation .. end}
<1>1. /\ Ticks(trades) /\ InTime(trades) /\ d + Latency \in Int /\ d + Ttl \in Int /\ Horizon \in Nat
  <2>1. Ticks(trades) /\ InTime(trades)
    BY OrderedTicks DEF MarketRead
  <2>. QED BY <2>1, LabelsAssumption
<1>2. ASSUME row # None, row.full # None \/ row.status = "FULL_FILL"
      PROVE  /\ RowTells(row, market, trades, order, o) /\ fill.full # None /\ row.full = fill.full
             /\ o.side = side /\ o.entry = entry /\ o.from = order.at /\ o.to = d + Ttl
             /\ fill.full \in DOMAIN trades /\ fill.full \in Int /\ fullAt \in Int /\ order.at \in Int
             /\ order.at < fullAt /\ fullAt < d + Ttl
  <2>1. order # None /\ order.queue # None /\ RowTells(row, market, trades, order, o)
    BY <1>2, RowIsTold
  <2>2. order.at \in Int /\ order.queue \in Nat
    BY <1>1, <2>1, ActivationTyped
  <2>. HIDE DEF order, row, trades
  <2>3. /\ o.side = side /\ o.entry = entry /\ o.from = order.at /\ o.to = d + Ttl /\ o \in OrderValues
    BY <1>1, <2>2 DEF OrderAt, OrderValues
  <2>. HIDE DEF o
  <2>4. row.full = fill.full /\ fill.full # None
    BY <1>2, <2>1 DEF RowTells
  <2>. QED BY <1>1, <2>1, <2>2, <2>3, <2>4, FullInWindow
<1>. HIDE DEF trades, order, row, o
<1>3. ASSUME row # None, row.status = "FULL_FILL"
      PROVE  /\ row.hit # None =>
                  /\ row.hit \in hits /\ \A n \in hits : row.hit <= n
                  /\ row.outcome = IF AtTarget(side, entry, trades[row.hit]) THEN "TP_FIRST" ELSE "SL_FIRST"
                  /\ \A n \in hits : Tied(trades[n], trades[row.hit]) =>
                       (AtTarget(side, entry, trades[n]) <=> AtTarget(side, entry, trades[row.hit]))
             /\ row.outcome = "TIMEOUT" => hits = {}
             /\ row.outcome = "AMBIGUOUS" =>
                  \/ AtStop(side, entry, trades[row.full])
                  \/ \E n \in hits : Tied(trades[n], trades[row.full])
                  \/ \E n, m \in hits : Tied(trades[n], trades[m]) /\ AtStop(side, entry, trades[n])
                                        /\ AtTarget(side, entry, trades[m])
  <2>. DEFINE result == BarrierOutcome(trades, side, entry, fill.full, fullAt + Horizon, TRUE)
  <2>1. hits = Touches(trades, side, entry, fill.full, fullAt + Horizon, TRUE)
    BY <1>2, <1>3 DEF Touches
  <2>2. OutcomeTells(trades, side, entry, hits, result)
    <3>1. fullAt + Horizon \in Int /\ fill.full \in Int
      BY <1>1, <1>2, <1>3
    <3>2. OutcomeTells(trades, side, entry, Touches(trades, side, entry, fill.full, fullAt + Horizon, TRUE), result)
      BY <1>1, <3>1, BarrierTells
    <3>. HIDE DEF hits, result
    <3>. QED BY <2>1, <3>2
  <2>3. IF AtStop(side, entry, trades[fill.full])
        THEN row.outcome = "AMBIGUOUS" /\ row.hit = None
        ELSE row.outcome = result.outcome /\ row.hit = result.hit
    BY <1>2, <1>3 DEF RowTells
  <2>4. row.full = fill.full
    BY <1>2, <1>3
  <2>. HIDE DEF hits, result, fill
  <2>5. CASE AtStop(side, entry, trades[fill.full])
    BY <2>3, <2>4, <2>5
  <2>6. CASE ~ AtStop(side, entry, trades[fill.full])
    BY <2>2, <2>3, <2>6 DEF OutcomeTells
  <2>. QED BY <2>5, <2>6
<1>4. ASSUME row # None, row.full # None, NEW n \in mine, NEW m \in mine
      PROVE  books[n].session = books[m].session
  <2>. DEFINE x == books[Max(BooksBy(books, order.at))].session
              y == books[Max(BooksBy(books, fullAt))].session
  <2>1. /\ OneSession(books, order.at, d + Ttl) /\ OneSession(books, fullAt, fullAt + Horizon)
        /\ row.activation = order.at /\ row.full = fill.full
    BY <1>2, <1>4 DEF RowTells, Covers
  <2>2. fullAt \in Int /\ order.at \in Int /\ order.at < fullAt /\ fullAt < d + Ttl /\ fullAt + Horizon \in Int
    BY <1>1, <1>2, <1>4
  <2>3. BooksRead(books)
    BY DEF MarketRead
  <2>. HIDE DEF books, fullAt
  <2>4. /\ \A k \in DOMAIN books : books[k].at \in order.at .. (d + Ttl) => books[k].session = x
        /\ \A t \in order.at .. (d + Ttl) : books[Max(BooksBy(books, t))].session = x
    BY <1>1, <2>1, <2>2, <2>3, SessionHolds
  <2>5. \A k \in DOMAIN books : books[k].at \in fullAt .. (fullAt + Horizon) => books[k].session = y
    BY <1>1, <2>1, <2>2, <2>3, SessionHolds
  <2>6. x = y
    BY <1>1, <2>2, <2>4
  <2>7. to = fullAt + Horizon
    BY <2>1 DEF fullAt
  <2>. HIDE DEF x, y, to
  <2>8. ASSUME NEW k \in mine PROVE books[k].session = x
    <3>1. k \in DOMAIN books /\ books[k].at \in order.at .. end
      BY <2>1
    <3>2. books[k].at \in order.at .. (d + Ttl) \/ books[k].at \in fullAt .. (fullAt + Horizon)
      BY <1>1, <2>2, <2>7, <3>1
    <3>. QED BY <2>4, <2>5, <2>6, <3>1, <3>2
  <2>. QED BY <2>8
<1>5. OutcomeHonest(market, d, side, entry, size)
  BY <1>3 DEF OutcomeHonest, trades, row
<1>6. LabelInOneSession(market, d, side, entry, size)
  BY <1>4 DEF LabelInOneSession, trades, row
<1>. QED BY <1>5, <1>6

\* The labels of any market say what its trades and books say.
THEOREM LabelsTold ==
  ASSUME NEW market, NEW d \in Int, NEW side \in {"LONG", "SHORT"}, NEW entry \in Int,
         MarketRead(market, entry), NEW sizes \in SUBSET (Nat \ {0})
  PROVE  LabelHonest(market, d, side, entry, sizes)
BY FillsHonest, OutcomesHonest DEF LabelHonest

-----------------------------------------------------------------------------
(* Features, for the streams of any market: what comes later changes no row, what came
   earlier no label, and the files of three days give a day's rows.  The times that
   one asks for are found by their bounds, so most of what follows says what a part
   of a stream keeps. *)

\* A row that was received at one of the times is kept behind those before it.
WithRow(kept, rows, times, i) == IF rows[i].at \in times THEN Append(kept, rows[i]) ELSE kept

\* The rows are taken one after the other.
LEMMA WithinRun ==
  ASSUME NEW R, NEW rows \in Seq(R), NEW times
  PROVE  \E f \in [0 .. Len(rows) -> Seq(R)] :
            /\ f[0] = <<>> /\ Within(rows, times) = f[Len(rows)]
            /\ \A i \in 1 .. Len(rows) : f[i] = WithRow(f[i - 1], rows, times, i)
<1>. DEFINE n == Len(rows)
            V == Seq(R)
            G == [p \in (1 .. n) \X V |-> WithRow(p[2], rows, times, p[1])]
            Step(kept, r) == IF r.at \in times THEN Append(kept, r) ELSE kept
            Def(f) == [t \in SUBSET (1 .. n) |-> IF t = {} THEN <<>>
                                                 ELSE Step(f[t \ {Max(t)}], rows[Max(t)])]
            iter == CHOOSE f : f = Def(f)
<1>1. n \in Nat /\ DOMAIN rows = 1 .. n
  BY LenProperties
<1>2. Within(rows, times) = iter[1 .. n]
  BY <1>1 DEF Within, FoldLeft, MapThenFoldSet
<1>3. \A i \in 1 .. n : \A kept : Step(kept, rows[i]) = WithRow(kept, rows, times, i)
  BY <1>1 DEF WithRow
<1>4. \A i \in 1 .. n, x \in V : G[<<i, x>>] = WithRow(x, rows, times, i) /\ G[<<i, x>>] \in V
  <2>1. ASSUME NEW i \in 1 .. n, NEW x \in V PROVE WithRow(x, rows, times, i) \in V
    <3>1. rows[i] \in R
      BY <1>1, ElementOfSeq
    <3>2. Append(x, rows[i]) \in V
      BY <3>1, AppendProperties
    <3>. QED BY <3>2 DEF WithRow
  <2>. QED BY <2>1
<1>5. <<>> \in V
  OBVIOUS
<1>. HIDE DEF n, G, Step, V
<1>6. Closed(G, 1 .. n, V)
  BY <1>4 DEF Closed
<1>7. PICK h : MaxFold(h, n, V, <<>>, G)
  BY <1>1, <1>5, <1>6, FoldLeftExists
<1>8. h = Def(h) /\ \A t \in SUBSET (1 .. n) : t # {} => Max(t) \in 1 .. n
  <2>1. /\ h \in [SUBSET (1 .. n) -> V] /\ h[{}] = <<>>
        /\ \A t \in SUBSET (1 .. n) : t # {} => Max(t) \in 1 .. n /\ h[t] = G[<<Max(t), h[t \ {Max(t)}]>>]
    BY <1>7 DEF MaxFold
  <2>2. ASSUME NEW t \in SUBSET (1 .. n), t # {}
        PROVE  h[t] = Step(h[t \ {Max(t)}], rows[Max(t)])
    <3>. DEFINE m == Max(t)
                r == t \ {m}
    <3>1. m \in 1 .. n /\ h[t] = G[<<m, h[r]>>] /\ r \in SUBSET (1 .. n)
      BY <2>1, <2>2
    <3>. HIDE DEF m, r
    <3>2. h[r] \in V
      BY <2>1, <3>1
    <3>3. h[t] = Step(h[r], rows[m])
      BY <1>3, <1>4, <3>1, <3>2
    <3>. QED BY <3>3 DEF m, r
  <2>. QED BY <2>1, <2>2
<1>9. iter = Def(iter)
  <2>. HIDE DEF Def
  <2>. QED BY <1>8
<1>. HIDE DEF iter
<1>10. iter[{}] = <<>>
  BY <1>9
<1>11. ASSUME NEW t \in SUBSET (1 .. n), t # {}, iter[t \ {Max(t)}] \in V
       PROVE  iter[t] = G[<<Max(t), iter[t \ {Max(t)}]>>]
  <2>. DEFINE m == Max(t)
              x == iter[t \ {m}]
  <2>1. m \in 1 .. n /\ x \in V
    BY <1>8, <1>11
  <2>2. iter[t] = Step(x, rows[m])
    BY <1>9, <1>11
  <2>. HIDE DEF m, x
  <2>3. iter[t] = G[<<m, x>>]
    BY <1>3, <1>4, <2>1, <2>2
  <2>. QED BY <2>3 DEF m, x
<1>12. PICK f : Recursion(f, n, V, <<>>, G) /\ f[n] = iter[1 .. n]
  <2>1. Unfolds(iter, n, V, <<>>, G)
    BY <1>10, <1>11 DEF Unfolds
  <2>. QED BY <1>1, <1>5, <1>6, <2>1, FoldLeftRuns
<1>13. f \in [0 .. n -> V] /\ f[0] = <<>>
  BY <1>12 DEF Recursion
<1>14. ASSUME NEW i \in 1 .. n PROVE f[i] = WithRow(f[i - 1], rows, times, i)
  <2>1. f[i - 1] \in V /\ f[i] = G[<<i, f[i - 1]>>]
    <3>1. i - 1 \in 0 .. n
      BY <1>1
    <3>. QED BY <1>12, <1>13, <3>1 DEF Recursion
  <2>. QED BY <1>4, <2>1
<1>. QED BY <1>2, <1>12, <1>13, <1>14 DEF n, V

\* The k-th row that is kept of the first n stands at the place q[k].
Picks(q, kept, rows, times, n) ==
  /\ kept \in Seq(Range(rows)) /\ q \in [1 .. Len(kept) -> 1 .. n]
  /\ \A k \in 1 .. Len(kept) : kept[k] = rows[q[k]]
  /\ \A j, k \in 1 .. Len(kept) : j < k => q[j] < q[k]
  /\ \A i \in 1 .. n : rows[i].at \in times <=> \E k \in 1 .. Len(kept) : q[k] = i

\* One row more.
LEMMA PicksMore ==
  ASSUME NEW rows, rows \in Seq(Range(rows)), NEW times, NEW i \in 1 .. Len(rows), NEW kept, NEW q,
         Picks(q, kept, rows, times, i - 1)
  PROVE  \E p : Picks(p, WithRow(kept, rows, times, i), rows, times, i)
<1>. DEFINE K == Len(kept)
<1>1. /\ kept \in Seq(Range(rows)) /\ q \in [1 .. K -> 1 .. i - 1]
      /\ \A k \in 1 .. K : kept[k] = rows[q[k]]
      /\ \A j, k \in 1 .. K : j < k => q[j] < q[k]
      /\ \A m \in 1 .. i - 1 : rows[m].at \in times <=> \E k \in 1 .. K : q[k] = m
  BY DEF Picks
<1>2. K \in Nat /\ i \in Int /\ rows[i] \in Range(rows)
  BY <1>1, LenProperties, ElementOfSeq
<1>. HIDE DEF K
<1>3. CASE rows[i].at \notin times
  <2>1. WithRow(kept, rows, times, i) = kept
    BY <1>3 DEF WithRow
  <2>2. q \in [1 .. K -> 1 .. i]
    BY <1>1, <1>2
  <2>3. \A m \in 1 .. i : rows[m].at \in times <=> \E k \in 1 .. K : q[k] = m
    <3>1. \A m \in 1 .. i : m = i \/ m \in 1 .. i - 1
      BY <1>2
    <3>2. \A k \in 1 .. K : q[k] # i
      BY <1>1, <1>2
    <3>. QED BY <1>1, <1>3, <3>1, <3>2
  <2>4. Picks(q, kept, rows, times, i)
    BY <1>1, <2>2, <2>3 DEF Picks, K
  <2>. QED BY <2>1, <2>4
<1>4. CASE rows[i].at \in times
  <2>. DEFINE more == Append(kept, rows[i])
              p == [k \in 1 .. K + 1 |-> IF k = K + 1 THEN i ELSE q[k]]
  <2>1. /\ more \in Seq(Range(rows)) /\ Len(more) = K + 1 /\ more[K + 1] = rows[i]
        /\ \A k \in 1 .. K : more[k] = kept[k]
    BY <1>1, <1>2, AppendProperties DEF K
  <2>2. p \in [1 .. K + 1 -> 1 .. i] /\ p[K + 1] = i /\ \A k \in 1 .. K : p[k] = q[k]
    BY <1>1, <1>2
  <2>. HIDE DEF more, p
  <2>3. \A k \in 1 .. K + 1 : k = K + 1 \/ k \in 1 .. K
    BY <1>2
  <2>4. \A k \in 1 .. K + 1 : more[k] = rows[p[k]]
    BY <1>1, <2>1, <2>2, <2>3
  <2>5. \A j, k \in 1 .. K + 1 : j < k => p[j] < p[k]
    <3>1. ASSUME NEW j \in 1 .. K + 1, NEW k \in 1 .. K + 1, j < k PROVE p[j] < p[k]
      <4>1. j \in 1 .. K /\ q[j] \in 1 .. i - 1
        BY <1>1, <1>2, <3>1
      <4>2. CASE k = K + 1
        BY <1>2, <2>2, <4>1, <4>2
      <4>3. CASE k \in 1 .. K
        BY <1>1, <2>2, <3>1, <4>1, <4>3
      <4>. QED BY <2>3, <4>2, <4>3
    <3>. QED BY <3>1
  <2>6. ASSUME NEW m \in 1 .. i PROVE rows[m].at \in times <=> \E k \in 1 .. K + 1 : p[k] = m
    <3>1. CASE m = i
      BY <1>2, <1>4, <2>2, <3>1
    <3>2. CASE m \in 1 .. i - 1
      <4>1. (\E k \in 1 .. K + 1 : p[k] = m) <=> \E k \in 1 .. K : q[k] = m
        BY <1>2, <2>2, <2>3, <3>2
      <4>. QED BY <1>1, <3>2, <4>1
    <3>. QED BY <1>2, <3>1, <3>2
  <2>7. Picks(p, more, rows, times, i)
    BY <2>1, <2>2, <2>4, <2>5, <2>6 DEF Picks
  <2>. QED BY <1>4, <2>7 DEF WithRow, more
<1>. QED BY <1>3, <1>4

\* What was received at the times, in order (_source_window).
LEMMA WithinPicks ==
  ASSUME NEW rows, rows \in Seq(Range(rows)), NEW times
  PROVE  \E q : Picks(q, Within(rows, times), rows, times, Len(rows))
<1>. DEFINE n == Len(rows)
<1>1. PICK f \in [0 .. n -> Seq(Range(rows))] :
         /\ f[0] = <<>> /\ Within(rows, times) = f[n]
         /\ \A i \in 1 .. n : f[i] = WithRow(f[i - 1], rows, times, i)
  <2>. DEFINE R == Range(rows)
  <2>1. rows \in Seq(R)
    OBVIOUS
  <2>. HIDE DEF R
  <2>2. \E f \in [0 .. Len(rows) -> Seq(R)] :
          /\ f[0] = <<>> /\ Within(rows, times) = f[Len(rows)]
          /\ \A i \in 1 .. Len(rows) : f[i] = WithRow(f[i - 1], rows, times, i)
    BY <2>1, WithinRun
  <2>. QED BY <2>2 DEF R
<1>. DEFINE T == {i \in 0 .. n : \E q : Picks(q, f[i], rows, times, i)}
<1>2. n \in Nat
  BY LenProperties
<1>. HIDE DEF n
<1>3. 0 \in T
  <2>1. Picks(<<>>, <<>>, rows, times, 0)
    BY DEF Picks
  <2>. QED BY <1>1, <1>2, <2>1
<1>4. ASSUME NEW i \in 0 .. n - 1, i \in T PROVE i + 1 \in T
  <2>1. PICK q : Picks(q, f[i], rows, times, i)
    BY <1>4
  <2>2. i + 1 \in 1 .. n /\ (i + 1) - 1 = i /\ i + 1 \in 0 .. n
    BY <1>2
  <2>3. f[i + 1] = WithRow(f[i], rows, times, i + 1)
    BY <1>1, <2>2
  <2>4. \E p : Picks(p, WithRow(f[i], rows, times, i + 1), rows, times, i + 1)
    <3>1. Picks(q, f[i], rows, times, (i + 1) - 1) /\ i + 1 \in 1 .. Len(rows)
      BY <2>1, <2>2 DEF n
    <3>. QED BY <3>1, PicksMore
  <2>. QED BY <2>2, <2>3, <2>4
<1>5. n \in T
  <2>1. \A i \in 0 .. n : i \in T
    <3>. HIDE DEF T
    <3>. QED BY <1>2, <1>3, <1>4, UpTo
  <2>2. n \in 0 .. n
    BY <1>2
  <2>. QED BY <2>1, <2>2
<1>. QED BY <1>1, <1>5 DEF n

\* q lists the numbers from a to b in their order.
Enumerates(q, K, a, b) ==
  /\ q \in [1 .. K -> a .. b] /\ \A j, k \in 1 .. K : j < k => q[j] < q[k]
  /\ \A m \in a .. b : \E k \in 1 .. K : q[k] = m

\* Numbers that grow and leave none out grow by one.
LEMMA GrowsByOne ==
  ASSUME NEW K \in Nat, NEW a \in Int, NEW b \in Int, NEW q, Enumerates(q, K, a, b)
  PROVE  /\ \A k \in 1 .. K : q[k] = a + k - 1
         /\ a <= b + 1 => K = b + 1 - a
<1>. USE DEF Enumerates
<1>. DEFINE T == {k \in 0 .. K : \A j \in 1 .. k : q[j] = a + j - 1}
<1>1. 0 \in T
  OBVIOUS
<1>2. ASSUME NEW k \in 0 .. K - 1, k \in T PROVE k + 1 \in T
  <2>1. k + 1 \in 1 .. K /\ q[k + 1] \in a .. b /\ k + 1 \in 0 .. K
    OBVIOUS
  <2>2. q[k + 1] >= a + k
    <3>1. CASE k = 0
      BY <2>1, <3>1
    <3>2. CASE k # 0
      <4>1. k \in 1 .. k /\ k \in 1 .. K /\ k < k + 1
        BY <3>2
      <4>2. q[k] = a + k - 1 /\ q[k] < q[k + 1]
        BY <1>2, <2>1, <4>1
      <4>. QED BY <2>1, <4>2
    <3>. QED BY <3>1, <3>2
  <2>3. PICK m \in 1 .. K : q[m] = a + k
    <3>1. a + k \in a .. b
      BY <2>1, <2>2
    <3>. QED BY <3>1
  <2>4. m >= k + 1
    <3>1. SUFFICES ASSUME m \in 1 .. k PROVE FALSE
      OBVIOUS
    <3>2. q[m] = a + m - 1
      BY <1>2, <3>1
    <3>. QED BY <2>3, <3>1, <3>2
  <2>5. q[k + 1] <= a + k
    BY <2>1, <2>3, <2>4
  <2>6. q[k + 1] = a + (k + 1) - 1
    BY <2>1, <2>2, <2>5
  <2>7. \A j \in 1 .. k + 1 : j = k + 1 \/ j \in 1 .. k
    OBVIOUS
  <2>. QED BY <1>2, <2>1, <2>6, <2>7
<1>3. K \in T
  <2>1. \A k \in 0 .. K : k \in T
    <3>. HIDE DEF T
    <3>. QED BY <1>1, <1>2, UpTo
  <2>2. K \in 0 .. K
    OBVIOUS
  <2>. QED BY <2>1, <2>2
<1>4. ASSUME a <= b + 1 PROVE K = b + 1 - a
  <2>1. CASE a = b + 1
    <3>1. a .. b = {}
      BY <2>1
    <3>2. K = 0
      <4>1. K # 0 => q[1] \in a .. b
        OBVIOUS
      <4>. QED BY <3>1, <4>1
    <3>. QED BY <2>1, <3>2
  <2>2. CASE a <= b
    <3>1. PICK k \in 1 .. K : q[k] = b
      BY <2>2
    <3>2. q[k] = a + k - 1
      BY <1>3
    <3>3. K \in 1 .. K /\ q[K] = a + K - 1 /\ q[K] <= b
      BY <1>3, <3>1
    <3>. QED BY <3>1, <3>2, <3>3
  <2>. QED BY <1>4, <2>1, <2>2
<1>. QED BY <1>3, <1>4

-----------------------------------------------------------------------------
\* What NewestBy finds.
Newest(times, d, t) ==
  \/ t = None /\ \A e \in times : e > d
  \/ t \in times /\ t <= d /\ \A e \in times : e <= d => e <= t

\* Receive times of a stream.
Clocked(times) == IsFiniteSet(times) /\ times \subseteq Nat

\* The search by time finds the newest row that was received by then.
LEMMA NewestFound ==
  ASSUME NEW times, Clocked(times), NEW d \in Int
  PROVE  Newest(times, d, NewestBy(times, d))
<1>. DEFINE known == {t \in times : t <= d}
<1>1. times \subseteq Int /\ IsFiniteSet(times)
  BY DEF Clocked
<1>2. CASE known = {}
  <2>1. NewestBy(times, d) = None
    BY <1>2 DEF NewestBy
  <2>. QED BY <1>1, <1>2, <2>1 DEF Newest
<1>3. CASE known # {}
  <2>1. NewestBy(times, d) = Max(known)
    BY <1>3 DEF NewestBy
  <2>2. IsFiniteSet(known)
    BY <1>1, FS_Subset
  <2>3. Greatest(known, Max(known))
    BY <1>1, <1>3, <2>2, Extremes
  <2>. QED BY <1>1, <2>1, <2>3 DEF Newest, Greatest
<1>. QED BY <1>2, <1>3

\* There is only one newest row.
LEMMA OneNewest ==
  ASSUME NEW times, Clocked(times), NEW d \in Int, NEW t, Newest(times, d, t)
  PROVE  t = NewestBy(times, d)
<1>1. Newest(times, d, NewestBy(times, d))
  BY NewestFound
<1>2. \A x \in times : x \in Int /\ x # None
  BY LabelsAssumption DEF Clocked
<1>3. ASSUME NEW x, NEW y, Newest(times, d, x), Newest(times, d, y) PROVE x = y
  <2>1. CASE x = None
    <3>1. \A e \in times : e > d
      BY <1>2, <1>3, <2>1 DEF Newest
    <3>. QED BY <1>2, <1>3, <2>1, <3>1 DEF Newest
  <2>2. CASE x # None
    <3>1. x \in times /\ x <= d /\ \A e \in times : e <= d => e <= x
      BY <1>3, <2>2 DEF Newest
    <3>2. y \in times /\ y <= d /\ \A e \in times : e <= d => e <= y
      BY <1>2, <1>3, <3>1 DEF Newest
    <3>. QED BY <1>2, <3>1, <3>2
  <2>. QED BY <2>1, <2>2
<1>. QED BY <1>1, <1>3

-----------------------------------------------------------------------------
\* Rows of a stream, and that they are in the order of their receipt.
Streamed(rows) == rows \in Seq(Range(rows)) /\ \A r \in Range(rows) : r.at \in Nat

InReceipt(rows) == \A m, n \in DOMAIN rows : m < n => rows[m].at <= rows[n].at

\* The streams of a symbol as they are recorded: a candle comes with or after its
\* close, and within a day from its start.
Recording(market) ==
  /\ Streamed(market.books) /\ InReceipt(market.books)
  /\ Streamed(market.trades) /\ Ticks(market.trades) /\ Range(market.trades) \subseteq TradeValues
  /\ Clocked(market.tickers)
  /\ IsFiniteSet(market.candles) /\ market.candles \subseteq CandleValues
  /\ \A c \in market.candles :
       /\ c.start \in Nat
       /\ c.at \in (c.start + 1) * MinuteTicks .. c.start * MinuteTicks + DayTicks
       /\ \A e \in market.candles : e.start = c.start => e = c
  /\ Buildable(market)

\* What is kept of a stream.
LEMMA WithinStream ==
  ASSUME NEW rows, Streamed(rows), NEW times
  PROVE  /\ Range(Within(rows, times)) = {r \in Range(rows) : r.at \in times}
         /\ Streamed(Within(rows, times))
<1>. DEFINE f == Within(rows, times)
<1>1. rows \in Seq(Range(rows))
  BY DEF Streamed
<1>2. PICK q : Picks(q, f, rows, times, Len(rows))
  BY <1>1, WithinPicks
<1>3. /\ f \in Seq(Range(rows)) /\ q \in [1 .. Len(f) -> 1 .. Len(rows)]
      /\ \A k \in 1 .. Len(f) : f[k] = rows[q[k]]
      /\ \A i \in 1 .. Len(rows) : rows[i].at \in times <=> \E k \in 1 .. Len(f) : q[k] = i
  BY <1>2 DEF Picks
<1>. HIDE DEF f
<1>4. Len(rows) \in Nat /\ DOMAIN rows = 1 .. Len(rows) /\ Len(f) \in Nat /\ DOMAIN f = 1 .. Len(f)
  BY <1>1, <1>3, LenProperties
<1>5. ASSUME NEW r PROVE r \in Range(f) <=> r \in Range(rows) /\ r.at \in times
  <2>1. ASSUME NEW k \in 1 .. Len(f) PROVE f[k] \in Range(rows) /\ f[k].at \in times
    BY <1>3, <1>4 DEF Range
  <2>2. ASSUME NEW i \in 1 .. Len(rows), rows[i].at \in times PROVE rows[i] \in Range(f)
    BY <1>3, <1>4, <2>2 DEF Range
  <2>. QED BY <1>4, <2>1, <2>2 DEF Range
<1>6. f \in Seq(Range(f))
  <2>1. \A k \in 1 .. Len(f) : f[k] \in Range(f)
    BY <1>4 DEF Range
  <2>2. f = [k \in 1 .. Len(f) |-> f[k]]
    BY <1>3, <1>4, LenProperties
  <2>3. f \in [1 .. Len(f) -> Range(f)]
    BY <2>1, <2>2
  <2>. QED BY <1>4, <2>3, SeqDef
<1>. QED BY <1>5, <1>6 DEF Streamed, f

\* Receive times of a stream, and of what is kept of it.
LEMMA ReceivedWithin ==
  ASSUME NEW rows, Streamed(rows), NEW times
  PROVE  /\ Received(rows) = {r.at : r \in Range(rows)} /\ Clocked(Received(rows))
         /\ Received(Within(rows, times)) = Received(rows) \cap times
<1>1. ASSUME NEW s, Streamed(s) PROVE Received(s) = {r.at : r \in Range(s)} /\ Clocked(Received(s))
  <2>1. s \in Seq(Range(s))
    BY <1>1 DEF Streamed
  <2>2. Len(s) \in Nat /\ DOMAIN s = 1 .. Len(s)
    BY <2>1, LenProperties
  <2>3. Received(s) = {r.at : r \in Range(s)}
    BY <2>2 DEF Received, Range
  <2>4. IsFiniteSet(DOMAIN s)
    BY <2>2, FS_Interval
  <2>5. IsFiniteSet(Received(s))
    <3>. DEFINE g == [n \in DOMAIN s |-> s[n].at]
    <3>1. g \in Surjection(DOMAIN s, Received(s))
      BY DEF Surjection, Received
    <3>. QED BY <2>4, <3>1, FS_Surjection
  <2>. QED BY <1>1, <2>3, <2>5 DEF Streamed, Clocked
<1>2. /\ Range(Within(rows, times)) = {r \in Range(rows) : r.at \in times}
      /\ Streamed(Within(rows, times))
  BY WithinStream
<1>. QED BY <1>1, <1>2

-----------------------------------------------------------------------------
\* What is received behind d changes no row (_build_symbol).
LEMMA RowIsKnown ==
  ASSUME NEW market, Recording(market), NEW d \in Int
  PROVE  FeatureRow(market, d) = FeatureRow(KnownAt(market, d), d)
<1>. DEFINE part == KnownAt(market, d)
<1>1. /\ part.books = Within(market.books, 0 .. d) /\ part.tickers = market.tickers \cap (0 .. d)
      /\ part.candles = {c \in market.candles : c.at \in 0 .. d}
      /\ part.trades = Within(market.trades, 0 .. d)
  BY DEF KnownAt, Part
<1>. HIDE DEF part
<1>2. Streamed(market.books) /\ Streamed(market.trades) /\ Clocked(market.tickers)
  BY DEF Recording
<1>3. BookFeatures(market, d) = BookFeatures(part, d)
  <2>1. Clocked(Received(market.books)) /\ Received(part.books) = Received(market.books) \cap (0 .. d)
    BY <1>1, <1>2, ReceivedWithin
  <2>2. {t \in Received(market.books) : t <= d} = {t \in Received(part.books) : t <= d}
    BY <2>1 DEF Clocked
  <2>. QED BY <2>2 DEF BookFeatures, NewestBy
<1>4. TickerFeatures(market, d) = TickerFeatures(part, d)
  <2>1. ASSUME NEW e \in Int, e <= d PROVE NewestBy(market.tickers, e) = NewestBy(part.tickers, e)
    <3>1. {t \in market.tickers : t <= e} = {t \in part.tickers : t <= e}
      BY <1>1, <1>2, <2>1 DEF Clocked
    <3>. QED BY <3>1 DEF NewestBy
  <2>2. \A lag \in InterestLags : d - lag \in Int /\ d - lag <= d
    BY FeaturesAssumption
  <2>. QED BY <2>1, <2>2 DEF TickerFeatures
<1>5. TradeFeatures(market, d) = TradeFeatures(part, d)
  <2>1. Range(part.trades) = {r \in Range(market.trades) : r.at \in 0 .. d}
    BY <1>1, <1>2, WithinStream
  <2>2. ASSUME NEW w \in TradeWindows
        PROVE  {t \in Range(market.trades) : d - w <= t.at /\ t.at <= d}
                 = {t \in Range(part.trades) : d - w <= t.at /\ t.at <= d}
    BY <1>2, <2>1 DEF Streamed
  <2>. QED BY <2>2 DEF TradeFeatures
<1>6. HistoryKnown(market, d) <=> HistoryKnown(part, d)
  <2>. DEFINE all == CandleFeatures(market, d)
              some == CandleFeatures(part, d)
  <2>1. /\ some = {c \in all : c.at \in 0 .. d}
        /\ \A c \in all : c.at \in Nat
        /\ \A c, e \in all : e.start = c.start => e = c
    <3>1. \A c \in market.candles : c.at \in Nat
      BY LabelsAssumption DEF Recording
    <3>. QED BY <1>1, <3>1 DEF Recording, CandleFeatures
  <2>. HIDE DEF all, some
  <2>2. (\A c \in all : c.at <= d) => some = all
    BY <2>1
  <2>3. ASSUME {c.start : c \in some} = History(d), {c.start : c \in all} \subseteq History(d) PROVE some = all
    BY <2>1, <2>3
  <2>4. {c.start : c \in all} \subseteq History(d)
    BY DEF all, CandleFeatures
  <2>5. HistoryKnown(market, d) <=> {c.start : c \in all} = History(d) /\ \A c \in all : c.at <= d
    BY DEF HistoryKnown, all
  <2>6. HistoryKnown(part, d) <=> {c.start : c \in some} = History(d) /\ \A c \in some : c.at <= d
    BY DEF HistoryKnown, some
  <2>. QED BY <2>2, <2>3, <2>4, <2>5, <2>6
<1>7. ASSUME HistoryKnown(market, d) PROVE CandleFeatures(market, d) = CandleFeatures(part, d)
  <2>1. \A c \in CandleFeatures(market, d) : c.at <= d /\ c.at \in Nat
    <3>1. \A c \in market.candles : c.at \in Nat
      BY LabelsAssumption DEF Recording
    <3>. QED BY <1>7, <3>1 DEF HistoryKnown, CandleFeatures
  <2>. QED BY <1>1, <2>1 DEF CandleFeatures
<1>. QED BY <1>3, <1>4, <1>5, <1>6, <1>7 DEF FeatureRow, part

-----------------------------------------------------------------------------
\* Trades of a series by a time are its first ones.
LEMMA KnownFirst ==
  ASSUME NEW s, Ticks(s), InTime(s), NEW d \in Int
  PROVE  LET known == Cardinality({n \in DOMAIN s : s[n].at <= d})
         IN known \in 0 .. Len(s) /\ \A n \in DOMAIN s : s[n].at <= d <=> n <= known
<1>. DEFINE S == {n \in DOMAIN s : s[n].at <= d}
            known == Cardinality(S)
<1>. SUFFICES known \in 0 .. Len(s) /\ \A n \in DOMAIN s : s[n].at <= d <=> n <= known
  OBVIOUS
<1>1. Len(s) \in Nat /\ DOMAIN s = 1 .. Len(s) /\ \A n \in DOMAIN s : s[n].at \in Int
  BY LenProperties DEF Ticks, Range
<1>2. \A m, n \in DOMAIN s : m < n => s[m].at <= s[n].at
  BY <1>1 DEF InTime, KeyBefore
<1>3. IsFiniteSet(S) /\ S \subseteq Int
  <2>1. S \in SUBSET (1 .. Len(s))
    BY <1>1
  <2>2. Len(s) \in Int
    BY <1>1
  <2>3. IsFiniteSet(1 .. Len(s))
    BY <2>2, FS_Interval
  <2>4. IsFiniteSet(S)
    BY <2>1, <2>3, FS_Subset
  <2>. QED BY <2>1, <2>4
<1>4. CASE S = {}
  <2>1. known = 0
    BY <1>4, FS_EmptySet
  <2>2. \A n \in DOMAIN s : ~ (s[n].at <= d) /\ ~ (n <= 0)
    BY <1>1, <1>4
  <2>. HIDE DEF known
  <2>. QED BY <1>1, <2>1, <2>2
<1>5. CASE S # {}
  <2>. DEFINE m == Max(S)
  <2>1. m \in S /\ \A n \in S : n <= m
    BY <1>3, <1>5, Extremes DEF Greatest
  <2>2. S = 1 .. m /\ m \in 1 .. Len(s)
    <3>1. m \in 1 .. Len(s) /\ s[m].at <= d
      BY <1>1, <2>1
    <3>2. \A n \in 1 .. m : n \in S
      <4>1. ASSUME NEW n \in 1 .. m PROVE n \in S
        <5>1. n \in DOMAIN s /\ (n < m \/ n = m)
          BY <1>1, <3>1
        <5>. QED BY <1>1, <1>2, <3>1, <5>1
      <4>. QED BY <4>1
    <3>3. \A n \in S : n \in 1 .. m
      BY <1>1, <2>1
    <3>. QED BY <3>1, <3>2, <3>3
  <2>. HIDE DEF m
  <2>3. known = m
    <3>1. m \in Int /\ 1 \in Int /\ 1 <= m
      BY <2>2
    <3>2. Cardinality(1 .. m) = m
      BY <3>1, FS_Interval
    <3>. QED BY <2>2, <3>2
  <2>4. \A n \in DOMAIN s : s[n].at <= d <=> n \in 1 .. m
    BY <2>2
  <2>. HIDE DEF known
  <2>. QED BY <1>1, <2>2, <2>3, <2>4
<1>. QED BY <1>4, <1>5

\* Trades behind a time in order are the end of the series of all
\* (_TradeSeries.__init__).
LEMMA LaterSeries ==
  ASSUME NEW trades, Ticks(trades), Streamed(trades), NEW d \in Int, NEW last \in Int,
         \A t \in Range(trades) : t.at <= last
  PROVE  LET s == Ordered(trades)
             later == Ordered(Within(trades, d + 1 .. last))
             known == Cardinality({n \in DOMAIN s : s[n].at <= d})
         IN /\ known \in 0 .. Len(s) /\ Ticks(s) /\ Ticks(later) /\ InTime(later)
            /\ \A n \in DOMAIN s : s[n].at <= d <=> n <= known
            /\ Len(later) = Len(s) - known
            /\ \A k \in 1 .. Len(later) : later[k] = s[known + k]
<1>. DEFINE s == Ordered(trades)
            f == Within(trades, d + 1 .. last)
            later == Ordered(f)
            known == Cardinality({n \in DOMAIN s : s[n].at <= d})
            n == Len(trades)
            K == Len(f)
<1>1. trades \in Seq(Range(trades))
  BY DEF Ticks
<1>2. PICK q : Picks(q, f, trades, d + 1 .. last, n)
  BY <1>1, WithinPicks
<1>3. /\ f \in Seq(Range(trades)) /\ q \in [1 .. K -> 1 .. n]
      /\ \A k \in 1 .. K : f[k] = trades[q[k]]
      /\ \A j, k \in 1 .. K : j < k => q[j] < q[k]
      /\ \A i \in 1 .. n : trades[i].at \in d + 1 .. last <=> \E k \in 1 .. K : q[k] = i
  BY <1>2 DEF Picks
<1>4. Ticks(f)
  BY WithinStream DEF Ticks, Streamed
<1>5. Ticks(s) /\ InTime(s) /\ DOMAIN s = DOMAIN trades /\ Len(s) = n
  BY OrderedTicks
<1>6. Ticks(later) /\ InTime(later) /\ DOMAIN later = DOMAIN f /\ Len(later) = K
  BY <1>4, OrderedTicks
<1>7. PICK p : Sorts(p, trades, s)
  BY OrderedSorts
<1>8. PICK r : Sorts(r, f, later)
  BY <1>4, OrderedSorts
<1>9. known \in 0 .. n /\ \A i \in DOMAIN s : s[i].at <= d <=> i <= known
  BY <1>5, KnownFirst
<1>10. n \in Nat /\ K \in Nat /\ DOMAIN trades = 1 .. n /\ DOMAIN f = 1 .. K
  BY <1>1, <1>3, LenProperties
<1>. HIDE DEF s, f, later, known, n, K
<1>11. /\ p \in [1 .. n -> 1 .. n] /\ \A i \in 1 .. n : \E k \in 1 .. n : p[k] = i
       /\ \A k \in 1 .. n : s[k] = trades[p[k]]
       /\ \A i, j \in 1 .. n : i < j <=> Sooner(trades, p[i], p[j])
  BY <1>7, <1>10 DEF Sorts
<1>12. /\ r \in [1 .. K -> 1 .. K] /\ \A i \in 1 .. K : \E k \in 1 .. K : r[k] = i
       /\ \A k \in 1 .. K : later[k] = f[r[k]]
       /\ \A i, j \in 1 .. K : i < j <=> Sooner(f, r[i], r[j])
  BY <1>8, <1>10 DEF Sorts
<1>13. \A i \in 1 .. n : trades[i].at \in Int /\ trades[i].order \in Int /\ trades[i].at <= last
  BY <1>10 DEF Ticks, Range
<1>14. \A i, j \in 1 .. n : p[i] = p[j] => i = j
  <2>1. ASSUME NEW i \in 1 .. n, NEW j \in 1 .. n, p[i] = p[j] PROVE ~ (i < j)
    <3>1. p[i] \in 1 .. n
      BY <1>11
    <3>2. p[i] \in Int /\ trades[p[i]].at \in Int /\ trades[p[i]].order \in Int
      BY <1>10, <1>13, <3>1
    <3>3. ~ Sooner(trades, p[i], p[i])
      BY <3>2 DEF Sooner, KeyBefore
    <3>. QED BY <1>11, <2>1, <3>3
  <2>. QED BY <2>1
<1>15. \A k \in 1 .. K : \E j \in 1 .. n : p[j] = q[r[k]]
  BY <1>3, <1>11, <1>12
<1>. DEFINE J == [k \in 1 .. K |-> CHOOSE j \in 1 .. n : p[j] = q[r[k]]]
<1>16. \A k \in 1 .. K : J[k] \in 1 .. n /\ p[J[k]] = q[r[k]]
  BY <1>15
<1>17. J = [k \in 1 .. K |-> J[k]]
  OBVIOUS
<1>. HIDE DEF J
<1>18. \A k \in 1 .. K : later[k] = s[J[k]] /\ J[k] \in known + 1 .. n
  <2>1. ASSUME NEW k \in 1 .. K PROVE later[k] = s[J[k]] /\ J[k] \in known + 1 .. n
    <3>1. r[k] \in 1 .. K /\ q[r[k]] \in 1 .. n /\ later[k] = trades[q[r[k]]] /\ J[k] \in 1 .. n
      BY <1>3, <1>12, <1>16
    <3>2. s[J[k]] = trades[q[r[k]]]
      BY <1>11, <1>16
    <3>3. trades[q[r[k]]].at \in d + 1 .. last
      BY <1>3, <3>1
    <3>4. ~ (J[k] <= known)
      <4>1. J[k] \in DOMAIN s
        BY <1>5, <1>10, <3>1
      <4>2. J[k] <= known => s[J[k]].at <= d
        BY <1>9, <4>1
      <4>3. s[J[k]].at \in Int /\ ~ (s[J[k]].at <= d)
        BY <3>2, <3>3
      <4>. QED BY <4>2, <4>3
    <3>. QED BY <1>9, <1>10, <3>1, <3>2, <3>4
  <2>. QED BY <2>1
<1>19. ASSUME NEW i \in 1 .. K, NEW j \in 1 .. K, i < j PROVE J[i] < J[j]
  <2>1. Sooner(f, r[i], r[j])
    BY <1>12, <1>19
  <2>2. /\ r[i] \in 1 .. K /\ r[j] \in 1 .. K /\ f[r[i]] = trades[q[r[i]]] /\ f[r[j]] = trades[q[r[j]]]
        /\ r[i] < r[j] => q[r[i]] < q[r[j]]
    BY <1>3, <1>12
  <2>3. Sooner(trades, q[r[i]], q[r[j]])
    BY <2>1, <2>2 DEF Sooner
  <2>. QED BY <1>11, <1>16, <2>3
<1>20. ASSUME NEW j \in known + 1 .. n PROVE \E k \in 1 .. K : J[k] = j
  <2>1. j \in 1 .. n /\ ~ (j <= known)
    BY <1>9, <1>10
  <2>2. p[j] \in 1 .. n /\ trades[p[j]].at \in d + 1 .. last
    <3>1. p[j] \in 1 .. n /\ s[j] = trades[p[j]] /\ ~ (s[j].at <= d)
      BY <1>5, <1>9, <1>10, <1>11, <2>1
    <3>. QED BY <1>13, <3>1
  <2>3. PICK m \in 1 .. K : q[m] = p[j]
    BY <1>3, <2>2
  <2>4. PICK k \in 1 .. K : r[k] = m
    BY <1>12
  <2>. QED BY <1>14, <1>16, <2>1, <2>3, <2>4
<1>21. (\A k \in 1 .. K : J[k] = (known + 1) + k - 1) /\ K = n + 1 - (known + 1)
  <2>1. known + 1 \in Int /\ n \in Int /\ known + 1 <= n + 1 /\ K \in Nat
    BY <1>9, <1>10
  <2>2. J \in [1 .. K -> known + 1 .. n]
    BY <1>17, <1>18
  <2>3. \A i, j \in 1 .. K : i < j => J[i] < J[j]
    BY <1>19
  <2>4. \A m \in known + 1 .. n : \E k \in 1 .. K : J[k] = m
    BY <1>20
  <2>5. Enumerates(J, K, known + 1, n)
    BY <2>2, <2>3, <2>4 DEF Enumerates
  <2>. QED BY <2>1, <2>5, GrowsByOne
<1>22. \A k \in 1 .. K : later[k] = s[known + k]
  <2>1. ASSUME NEW k \in 1 .. K PROVE later[k] = s[known + k]
    <3>1. J[k] = known + k
      BY <1>9, <1>10, <1>21
    <3>. QED BY <1>18, <3>1
  <2>. QED BY <2>1
<1>23. K = n - known
  BY <1>9, <1>10, <1>21
<1>. QED BY <1>5, <1>6, <1>9, <1>22, <1>23 DEF s, later, known, f

-----------------------------------------------------------------------------
\* T has the numbers that are c greater than those of S.
Shifted(T, S, c) == T = {m + c : m \in S}

\* Numbers that are c greater have a least one that is c greater.
LEMMA FirstShifts ==
  ASSUME NEW n \in Nat, NEW S \in SUBSET (1 .. n), NEW c \in Nat, NEW T, Shifted(T, S, c)
  PROVE  /\ S = {} => FirstOf(S) = None /\ FirstOf(T) = None
         /\ S # {} => /\ FirstOf(S) \in S /\ FirstOf(S) \in Int /\ FirstOf(S) = Min(S)
                      /\ FirstOf(S) # None /\ FirstOf(T) # None
                      /\ FirstOf(T) = FirstOf(S) + c /\ FirstOf(T) = Min(T) /\ T # {}
<1>. USE DEF Shifted
<1>1. CASE S = {}
  <2>1. T = {}
    BY <1>1
  <2>. QED BY <1>1, <2>1 DEF FirstOf
<1>2. CASE S # {}
  <2>1. T \in SUBSET (1 .. n + c) /\ T # {} /\ n + c \in Nat
    <3>1. \A m \in S : m + c \in 1 .. n + c
      OBVIOUS
    <3>2. \A m \in S : m + c \in T
      OBVIOUS
    <3>3. \A x \in T : x \in 1 .. n + c
      BY <3>1
    <3>4. T # {}
      BY <1>2, <3>2
    <3>. QED BY <3>3, <3>4
  <2>2. Least(S, FirstOf(S)) /\ FirstOf(S) \in Int /\ FirstOf(S) # None
    BY <1>2, FirstIsLeast
  <2>3. Least(T, FirstOf(T)) /\ FirstOf(T) \in Int /\ FirstOf(T) # None
    BY <2>1, FirstIsLeast
  <2>. DEFINE a == FirstOf(S)
              b == FirstOf(T)
  <2>4. FirstOf(S) = Min(S) /\ FirstOf(T) = Min(T)
    BY <1>2, <2>1 DEF FirstOf
  <2>. HIDE DEF a, b
  <2>5. b = a + c
    <3>1. a \in S /\ \A m \in S : a <= m
      BY <2>2 DEF Least, a
    <3>2. b \in T /\ \A m \in T : b <= m
      BY <2>3 DEF Least, b
    <3>3. b <= a + c
      BY <3>1, <3>2
    <3>4. PICK m \in S : b = m + c
      BY <3>2
    <3>. QED BY <2>2, <2>3, <3>1, <3>3, <3>4 DEF a, b
  <2>. QED BY <1>2, <2>1, <2>2, <2>3, <2>4, <2>5 DEF Least, a, b
<1>. QED BY <1>1, <1>2

\* The outcome of a path is found in the series of all trades as in the series of
\* those behind its start, where the numbers are smaller by those before it.
OutcomeShifts(whole, later, c, K) ==
  /\ whole.outcome = later.outcome
  /\ whole.hit = None <=> later.hit = None
  /\ later.hit # None => later.hit \in 1 .. K /\ whole.hit = later.hit + c

\* The trades before the start do not matter (_TradeSeries.barrier_outcome).
LEMMA BarrierShifts ==
  ASSUME NEW s, Ticks(s), NEW c \in 0 .. Len(s), NEW later, Ticks(later), Len(later) = Len(s) - c,
         \A k \in 1 .. Len(later) : later[k] = s[c + k],
         NEW side, NEW entry \in Int, NEW to \in Int, NEW eligibleOnly \in BOOLEAN
  PROVE  OutcomeShifts(BarrierOutcome(s, side, entry, c, to, eligibleOnly),
                       BarrierOutcome(later, side, entry, 0, to, eligibleOnly), c, Len(later))
<1>. DEFINE K == Len(later)
            Future(x, m) == {n \in After(x, m) : x[n].at <= to /\ (eligibleOnly => x[n].visible)}
            Hits(x, m) == {n \in Future(x, m) : AtTarget(side, entry, x[n]) \/ AtStop(side, entry, x[n])}
            Bucket(x, n) == x[n].at \div SecondTicks
            Same(x, m) == {n \in Hits(x, m) : Bucket(x, n) = Bucket(x, Min(Hits(x, m)))}
            T(x, m) == {n \in Same(x, m) : AtTarget(side, entry, x[n])}
            P(x, m) == {n \in Same(x, m) : AtStop(side, entry, x[n])}
            Result(x, hits, target, stop) ==
              IF hits = {} THEN [outcome |-> "TIMEOUT", hit |-> None]
              ELSE IF target # None /\ stop # None /\ Tied(x[target], x[stop])
                THEN [outcome |-> "AMBIGUOUS", hit |-> None]
              ELSE IF stop = None \/ (target # None /\ KeyBefore(x[target], x[stop]))
                THEN [outcome |-> "TP_FIRST", hit |-> target]
              ELSE [outcome |-> "SL_FIRST", hit |-> stop]
            h0 == Hits(later, 0)
            h1 == Hits(s, c)
            b0 == Same(later, 0)
            b1 == Same(s, c)
            T0 == T(later, 0)
            T1 == T(s, c)
            P0 == P(later, 0)
            P1 == P(s, c)
<1>1. /\ BarrierOutcome(s, side, entry, c, to, eligibleOnly) = Result(s, h1, FirstOf(T1), FirstOf(P1))
      /\ BarrierOutcome(later, side, entry, 0, to, eligibleOnly) = Result(later, h0, FirstOf(T0), FirstOf(P0))
  BY DEF BarrierOutcome
<1>2. /\ Len(s) \in Nat /\ K \in Nat /\ K = Len(s) - c /\ c \in Nat
      /\ DOMAIN s = 1 .. Len(s) /\ DOMAIN later = 1 .. K
  BY LenProperties DEF Ticks
<1>3. h0 \in SUBSET (1 .. K) /\ b0 \in SUBSET (1 .. K) /\ T0 \in SUBSET (1 .. K) /\ P0 \in SUBSET (1 .. K)
  BY <1>2 DEF After
<1>. HIDE DEF K
<1>4. Shifted(h1, h0, c)
  <2>1. \A n \in h0 : n + c \in h1
    BY <1>2 DEF After, K
  <2>2. ASSUME NEW m \in h1 PROVE \E n \in h0 : m = n + c
    <3>1. m \in 1 .. Len(s) /\ m > c
      BY <1>2 DEF After
    <3>2. m - c \in 1 .. K /\ later[m - c] = s[m] /\ m = (m - c) + c
      <4>1. m - c \in 1 .. K /\ m = c + (m - c)
        BY <1>2, <3>1
      <4>. QED BY <1>2, <4>1 DEF K
    <3>3. m - c \in h0
      BY <1>2, <3>2 DEF After
    <3>. QED BY <3>2, <3>3
  <2>. HIDE DEF h0, h1
  <2>. QED BY <2>1, <2>2 DEF Shifted
<1>5. \A n \in 1 .. K : later[n] = s[n + c] /\ n + c \in Int
  <2>1. \A n \in 1 .. K : c + n = n + c
    BY <1>2
  <2>. QED BY <1>2, <2>1 DEF K
<1>. SUFFICES OutcomeShifts(Result(s, h1, FirstOf(T1), FirstOf(P1)),
                            Result(later, h0, FirstOf(T0), FirstOf(P0)), c, K)
  BY <1>1 DEF K
<1>6. CASE h0 = {}
  <2>1. h1 = {}
    BY <1>4, <1>6 DEF Shifted
  <2>. HIDE DEF h0, h1
  <2>. QED BY <1>6, <2>1 DEF OutcomeShifts
<1>7. CASE h0 # {}
  <2>1. h1 # {} /\ Min(h1) = Min(h0) + c /\ Min(h0) \in h0
    <3>1. h0 \in SUBSET (1 .. K) /\ K \in Nat /\ c \in Nat /\ h0 # {} /\ Shifted(h1, h0, c)
      BY <1>2, <1>3, <1>4, <1>7
    <3>. HIDE DEF h0, h1
    <3>. HIDE DEF K
    <3>2. FirstOf(h0) \in h0 /\ FirstOf(h0) = Min(h0)
      BY <3>1, FirstShifts
    <3>3. FirstOf(h1) = FirstOf(h0) + c
      BY <3>1, FirstShifts, ZenonT(60)
    <3>4. h1 # {}
      BY <3>1 DEF Shifted
    <3>5. FirstOf(h1) = Min(h1)
      BY <3>4 DEF FirstOf
    <3>. QED BY <3>2, <3>3, <3>4, <3>5
  <2>2. later[Min(h0)] = s[Min(h1)]
    BY <1>3, <1>5, <2>1
  <2>3. Shifted(b1, b0, c)
    <3>1. b0 = {n \in h0 : Bucket(later, n) = Bucket(later, Min(h0))}
      OBVIOUS
    <3>2. b1 = {n \in h1 : Bucket(s, n) = Bucket(s, Min(h1))}
      OBVIOUS
    <3>. HIDE DEF h0, h1, b0, b1
    <3>. QED BY <1>3, <1>4, <1>5, <2>2, <3>1, <3>2 DEF Shifted
  <2>4. Shifted(T1, T0, c) /\ Shifted(P1, P0, c)
    <3>1. T0 = {n \in b0 : AtTarget(side, entry, later[n])} /\ P0 = {n \in b0 : AtStop(side, entry, later[n])}
      OBVIOUS
    <3>2. T1 = {n \in b1 : AtTarget(side, entry, s[n])} /\ P1 = {n \in b1 : AtStop(side, entry, s[n])}
      OBVIOUS
    <3>. HIDE DEF h0, h1, b0, b1, T0, T1, P0, P1
    <3>. QED BY <1>3, <1>5, <2>3, <3>1, <3>2 DEF Shifted
  <2>. HIDE DEF h0, h1, T0, T1, P0, P1
  <2>. DEFINE t0 == FirstOf(T0)
              t1 == FirstOf(T1)
              p0 == FirstOf(P0)
              p1 == FirstOf(P1)
  <2>5. /\ t0 = None <=> t1 = None
        /\ t0 # None => t0 \in 1 .. K /\ t1 = t0 + c
    BY <1>2, <1>3, <2>4, FirstShifts
  <2>6. /\ p0 = None <=> p1 = None
        /\ p0 # None => p0 \in 1 .. K /\ p1 = p0 + c
    BY <1>2, <1>3, <2>4, FirstShifts
  <2>7. p0 # None \/ t0 # None
    <3>1. T0 # {} \/ P0 # {}
      <4>1. Min(h0) \in b0
        BY <2>1 DEF h0
      <4>2. \A n \in b0 : n \in T0 \/ n \in P0
        BY DEF T0, P0, h0
      <4>. QED BY <4>1, <4>2
    <3>. QED BY <1>2, <1>3, <2>4, <3>1, FirstShifts
  <2>. HIDE DEF t0, t1, p0, p1
  <2>8. t0 # None => later[t0] = s[t1]
    BY <1>5, <2>5
  <2>9. p0 # None => later[p0] = s[p1]
    BY <1>5, <2>6
  <2>. QED BY <1>7, <2>1, <2>5, <2>6, <2>7, <2>8, <2>9 DEF OutcomeShifts, t0, t1, p0, p1
<1>. QED BY <1>6, <1>7

\* No trade before a decision counts for its label (_label_rows).
LEMMA LabelLooksAhead ==
  ASSUME NEW market, Recording(market), NEW d \in Int, NEW side, NEW entry \in Int,
         MarketLabel(market, d, side, entry) # None
  PROVE  MarketLabel(market, d, side, entry) = MarketLabel(BehindOnly(market, d), d, side, entry)
<1>. DEFINE last == LastTime(market)
            trades == market.trades
            s == Ordered(trades)
            f == Within(trades, d + 1 .. last)
            later == Ordered(f)
            known == Cardinality({n \in DOMAIN s : s[n].at <= d})
            whole == BarrierOutcome(s, side, entry, known, d + Horizon, FALSE)
            behind == BarrierOutcome(later, side, entry, 0, d + Horizon, FALSE)
            Told(x, result) == [outcome |-> result.outcome,
                                hit |-> IF result.hit = None THEN None ELSE x[result.hit]]
<1>1. last \in Int /\ \A t \in Range(trades) : t.at <= last
  <2>. DEFINE S == {c.at : c \in market.candles} \cup UNION Streams(market)
  <2>1. /\ Clocked(Received(market.books)) /\ Clocked(Received(trades)) /\ Clocked(market.tickers)
        /\ Received(trades) = {r.at : r \in Range(trades)}
    BY ReceivedWithin DEF Recording
  <2>2. S = {c.at : c \in market.candles}
              \cup (Received(market.books) \cup (market.tickers \cup Received(trades)))
    BY DEF Streams
  <2>3. IsFiniteSet({c.at : c \in market.candles}) /\ {c.at : c \in market.candles} \subseteq Int
    <3>1. IsFiniteSet({c.at : c \in market.candles})
      <4>1. IsFiniteSet(market.candles)
        BY DEF Recording
      <4>2. [c \in market.candles |-> c.at] \in Surjection(market.candles, {c.at : c \in market.candles})
        BY DEF Surjection
      <4>. QED BY <4>1, <4>2, FS_Surjection
    <3>. QED BY <3>1, LabelsAssumption DEF Recording
  <2>4. IsFiniteSet(S)
    BY <2>1, <2>2, <2>3, FS_Union DEF Clocked
  <2>5. S \subseteq Int /\ Received(trades) \subseteq S /\ S # {}
    BY <2>1, <2>2, <2>3 DEF Clocked, Recording, Buildable, Streams
  <2>6. Greatest(S, Max(S))
    BY <2>4, <2>5, Extremes
  <2>7. last = Max(S)
    BY DEF LastTime
  <2>. HIDE DEF S, last
  <2>. QED BY <2>1, <2>5, <2>6, <2>7 DEF Greatest
<1>2. Ticks(trades) /\ Streamed(trades)
  BY DEF Recording
<1>3. BehindOnly(market, d).trades = f
  BY DEF BehindOnly, Part
<1>. HIDE DEF last
<1>4. /\ known \in 0 .. Len(s) /\ Ticks(s) /\ Ticks(later) /\ InTime(later)
      /\ \A n \in DOMAIN s : s[n].at <= d <=> n <= known
      /\ Len(later) = Len(s) - known
      /\ \A k \in 1 .. Len(later) : later[k] = s[known + k]
  BY <1>1, <1>2, LaterSeries
<1>5. MarketLabel(market, d, side, entry)
        = IF LastReceived(s) < d + Horizon THEN None ELSE Told(s, whole)
  BY DEF MarketLabel
<1>6. MarketLabel(BehindOnly(market, d), d, side, entry)
        = LET k == Cardinality({n \in DOMAIN later : later[n].at <= d})
              result == BarrierOutcome(later, side, entry, k, d + Horizon, FALSE)
          IN IF LastReceived(later) < d + Horizon THEN None ELSE Told(later, result)
  BY <1>3 DEF MarketLabel
<1>. HIDE DEF f, s, later, known
<1>7. Len(s) \in Nat /\ DOMAIN s = 1 .. Len(s) /\ Len(later) \in Nat /\ DOMAIN later = 1 .. Len(later)
  BY <1>4, LenProperties DEF Ticks
<1>8. s # <<>>
  <2>1. Range(trades) # {}
    <3>1. Received(trades) # {}
      BY DEF Recording, Buildable, Streams
    <3>. QED BY <3>1 DEF Received, Range
  <2>2. DOMAIN s = DOMAIN trades
    BY <1>2, OrderedTicks DEF s
  <2>. QED BY <2>1, <2>2 DEF Range
<1>9. Len(s) >= 1 /\ LastReceived(s) = s[Len(s)].at /\ s[Len(s)].at \in Int
  <2>1. Len(s) # 0
    BY <1>4, <1>7, <1>8, EmptySeq DEF Ticks
  <2>. QED BY <1>4, <1>7, <2>1 DEF LastReceived, Last, Ticks, Range
<1>10. ~ (LastReceived(s) < d + Horizon)
  BY <1>5
<1>11. Len(s) > known
  <2>1. Horizon \in Nat \ {0}
    BY LabelsAssumption
  <2>. QED BY <1>4, <1>7, <1>9, <1>10, <2>1
<1>12. LastReceived(later) = LastReceived(s)
  <2>1. Len(later) \in 1 .. Len(later) /\ known + Len(later) = Len(s)
    BY <1>4, <1>7, <1>11
  <2>2. later[Len(later)] = s[Len(s)]
    BY <1>4, <2>1
  <2>. QED BY <1>9, <2>2 DEF LastReceived, Last
<1>13. Cardinality({n \in DOMAIN later : later[n].at <= d}) = 0
  <2>1. \A n \in DOMAIN later : ~ (later[n].at <= d)
    <3>1. ASSUME NEW n \in 1 .. Len(later) PROVE ~ (later[n].at <= d)
      <4>1. known + n \in 1 .. Len(s) /\ ~ (known + n <= known)
        BY <1>4, <1>7
      <4>. QED BY <1>4, <1>7, <4>1
    <3>. QED BY <1>7, <3>1
  <2>2. {n \in DOMAIN later : later[n].at <= d} = {}
    BY <2>1
  <2>. QED BY <2>2, FS_EmptySet
<1>14. MarketLabel(BehindOnly(market, d), d, side, entry) = Told(later, behind)
  BY <1>6, <1>10, <1>12, <1>13
<1>15. OutcomeShifts(whole, behind, known, Len(later))
  <2>1. d + Horizon \in Int
    BY LabelsAssumption
  <2>. QED BY <1>4, <2>1, BarrierShifts
<1>. HIDE DEF whole, behind
<1>16. Told(s, whole) = Told(later, behind)
  <2>1. CASE whole.hit = None
    BY <1>15, <2>1 DEF OutcomeShifts
  <2>2. CASE whole.hit # None
    <3>1. behind.hit \in 1 .. Len(later) /\ whole.hit = known + behind.hit /\ behind.hit # None
      BY <1>4, <1>7, <1>15, <2>2 DEF OutcomeShifts
    <3>2. later[behind.hit] = s[whole.hit]
      BY <1>4, <3>1
    <3>. QED BY <1>15, <2>2, <3>1, <3>2 DEF OutcomeShifts
  <2>. QED BY <2>1, <2>2
<1>. QED BY <1>5, <1>10, <1>14, <1>16

-----------------------------------------------------------------------------
\* Multiples of a length, and the one below a time.
LEMMA Multiples ==
  ASSUME NEW m \in Nat \ {0}
  PROVE  /\ \A d \in Int : d \div m \in Int /\ (d \div m) * m <= d /\ d < (d \div m) * m + m
         /\ \A a, b \in Int : a * m \in Int /\ (a - b) * m = a * m - b * m /\ (a + b) * m = a * m + b * m
         /\ \A a, b \in Int : a <= b => a * m <= b * m
<1>1. ASSUME NEW d \in Int PROVE d \div m \in Int /\ (d \div m) * m <= d /\ d < (d \div m) * m + m
  OBVIOUS
<1>2. ASSUME NEW a \in Int, NEW b \in Int
      PROVE  a * m \in Int /\ (a - b) * m = a * m - b * m /\ (a + b) * m = a * m + b * m
  OBVIOUS
<1>3. ASSUME NEW a \in Int, NEW b \in Int, a <= b PROVE a * m <= b * m
  <2>1. b - a \in Nat /\ (b - a) * m = b * m - a * m
    BY <1>2, <1>3
  <2>2. \A k \in Nat : k * m \in Nat
    OBVIOUS
  <2>. QED BY <1>2, <2>1, <2>2
<1>. QED BY <1>1, <1>2, <1>3

\* The beginning of the window of features of a decision (_ContinuityGuard.covers).
WindowStart(d) == d - (HistoryMinutes + 1) * MinuteTicks

\* Times from lo to hi are wide enough for a decision.
Wide(lo, hi, d) ==
  /\ lo \in Int /\ hi \in Int /\ d + DayTicks <= hi
  /\ lo + Gap <= WindowStart(d) /\ WindowStart(d) \in Int /\ WindowStart(d) <= d
  /\ \A span \in {BookAge, TickerAge} \cup TradeWindows : lo <= d - span

\* A day with its neighbours is wide enough (_source_window).
LEMMA DaysAreWide ==
  ASSUME NEW day \in Int, NEW d \in Int, DayOf(d) = day
  PROVE  \E lo, hi : Days(day - 1, day + 1) = lo .. hi /\ Wide(lo, hi, d)
<1>. DEFINE base == day * DayTicks
            lo == base - DayTicks + Delay
            hi == base + DayTicks + DayTicks + Delay - 1
<1>1. /\ DayTicks \in Nat \ {0} /\ Delay \in Nat /\ HistoryMinutes \in Nat
      /\ \A span \in {BookAge, TickerAge} \cup TradeWindows : span \in Nat
  BY FeaturesAssumption
<1>2. MinuteTicks \in Nat \ {0} /\ Gap \in Nat
  BY LabelsAssumption
<1>3. base \in Int /\ base <= d /\ d < base + DayTicks
  BY <1>1, Multiples DEF DayOf
<1>4. (day - 1) * DayTicks = base - DayTicks /\ (day + 1 + 1) * DayTicks = base + DayTicks + DayTicks
  <2>1. /\ 1 * DayTicks = DayTicks /\ (day - 1) * DayTicks = day * DayTicks - 1 * DayTicks
        /\ (day + 1 + 1) * DayTicks = (day + 1) * DayTicks + 1 * DayTicks
        /\ (day + 1) * DayTicks = day * DayTicks + 1 * DayTicks
    BY <1>1, Multiples
  <2>. QED BY <1>1, <1>3, <2>1
<1>5. Days(day - 1, day + 1) = lo .. hi
  BY <1>1, <1>3, <1>4 DEF Days
<1>6. (HistoryMinutes + 1) * MinuteTicks \in Nat
  BY <1>1, <1>2
<1>. DEFINE history == (HistoryMinutes + 1) * MinuteTicks
<1>7. history + Gap + Delay <= DayTicks
  BY FeaturesAssumption
<1>8. WindowStart(d) = d - history
  BY DEF WindowStart
<1>. HIDE DEF base, history
<1>9. lo \in Int /\ hi \in Int /\ d + DayTicks <= hi
  BY <1>1, <1>3
<1>10. lo + Gap <= WindowStart(d) /\ WindowStart(d) \in Int /\ WindowStart(d) <= d
  BY <1>1, <1>2, <1>3, <1>6, <1>7, <1>8 DEF history
<1>11. \A span \in {BookAge, TickerAge} \cup TradeWindows : lo <= d - span
  <2>1. ASSUME NEW span \in {BookAge, TickerAge} \cup TradeWindows PROVE lo <= d - span
    <3>1. span + Delay <= DayTicks /\ span \in Nat
      BY <1>1, FeaturesAssumption
    <3>. QED BY <1>1, <1>3, <3>1
  <2>. QED BY <2>1
<1>. HIDE DEF lo, hi
<1>12. Wide(lo, hi, d)
  BY <1>9, <1>10, <1>11 DEF Wide
<1>. QED BY <1>5, <1>12

\* In a wide part the search by time finds what it finds in all, unless that is too
\* old for the part, and then for its age as well.
LEMMA NewestInPart ==
  ASSUME NEW times, Clocked(times), NEW lo \in Int, NEW hi \in Int, NEW d \in Int, d <= hi
  PROVE  /\ NewestBy(times \cap (lo .. hi), d) \in {None, NewestBy(times, d)}
         /\ \A age \in Int : lo <= d - age =>
              /\ Fresh(NewestBy(times \cap (lo .. hi), d), d, age) <=> Fresh(NewestBy(times, d), d, age)
              /\ Fresh(NewestBy(times, d), d, age) =>
                   /\ NewestBy(times \cap (lo .. hi), d) = NewestBy(times, d)
                   /\ NewestBy(times, d) \in Nat
<1>. DEFINE part == times \cap (lo .. hi)
            x == NewestBy(times, d)
            y == NewestBy(part, d)
<1>1. Clocked(part)
  <2>1. IsFiniteSet(part)
    BY FS_Subset DEF Clocked
  <2>. QED BY <2>1 DEF Clocked
<1>2. Newest(times, d, x)
  BY NewestFound
<1>3. Newest(part, d, y)
  BY <1>1, NewestFound
<1>4. \A e \in times : e \in Nat /\ e # None
  BY LabelsAssumption DEF Clocked
<1>5. part \subseteq times /\ \A e \in times : e \in part <=> lo <= e /\ e <= hi
  BY <1>4
<1>. HIDE DEF x, y, part
<1>6. y # None => x = y
  <2>1. ASSUME y # None PROVE x = y
    <3>1. y \in part /\ y <= d /\ \A e \in part : e <= d => e <= y
      BY <1>3, <2>1 DEF Newest
    <3>2. x \in times /\ x <= d /\ \A e \in times : e <= d => e <= x
      BY <1>2, <1>4, <1>5, <3>1 DEF Newest
    <3>3. x \in part
      BY <1>4, <1>5, <3>1, <3>2
    <3>. QED BY <1>4, <1>5, <3>1, <3>2, <3>3
  <2>. QED BY <2>1
<1>7. ASSUME NEW age \in Int, lo <= d - age, Fresh(x, d, age) PROVE y = x /\ x \in Nat
  <2>1. x \in times /\ x <= d /\ d - x <= age
    BY <1>2, <1>7 DEF Newest, Fresh
  <2>2. x \in part
    BY <1>4, <1>5, <1>7, <2>1
  <2>3. y # None
    <3>1. ~ (x > d)
      BY <1>4, <2>1
    <3>. QED BY <1>3, <1>4, <1>5, <2>2, <3>1 DEF Newest
  <2>. QED BY <1>4, <1>6, <2>1, <2>3
<1>8. \A age \in Int : Fresh(y, d, age) => Fresh(x, d, age)
  BY <1>6 DEF Fresh
<1>9. y \in {None, x}
  BY <1>6
<1>10. \A age \in Int : lo <= d - age =>
         (Fresh(y, d, age) <=> Fresh(x, d, age)) /\ (Fresh(x, d, age) => y = x /\ x \in Nat)
  BY <1>7, <1>8
<1>. QED BY <1>9, <1>10 DEF x, y, part

-----------------------------------------------------------------------------
\* Of rows in order of receipt a part from one time to another is a stretch.
Stretch(f, rows, lo, hi, c) ==
  /\ c \in Nat /\ c + Len(f) <= Len(rows)
  /\ \A k \in 1 .. Len(f) : f[k] = rows[c + k]
  /\ \A i \in 1 .. Len(rows) : rows[i].at \in lo .. hi <=> i \in c + 1 .. c + Len(f)

\* What is kept is a stretch.
LEMMA WithinStretch ==
  ASSUME NEW rows, Streamed(rows), InReceipt(rows), NEW lo \in Int, NEW hi \in Int
  PROVE  \E c : Stretch(Within(rows, lo .. hi), rows, lo, hi, c)
<1>. DEFINE f == Within(rows, lo .. hi)
            n == Len(rows)
            K == Len(f)
<1>1. rows \in Seq(Range(rows))
  BY DEF Streamed
<1>2. PICK q : Picks(q, f, rows, lo .. hi, n)
  BY <1>1, WithinPicks
<1>3. /\ f \in Seq(Range(rows)) /\ q \in [1 .. K -> 1 .. n]
      /\ \A k \in 1 .. K : f[k] = rows[q[k]]
      /\ \A j, k \in 1 .. K : j < k => q[j] < q[k]
      /\ \A i \in 1 .. n : rows[i].at \in lo .. hi <=> \E k \in 1 .. K : q[k] = i
  BY <1>2 DEF Picks
<1>4. n \in Nat /\ K \in Nat /\ DOMAIN rows = 1 .. n /\ \A i \in 1 .. n : rows[i].at \in Int
  BY <1>1, <1>3, LenProperties DEF Streamed, Range
<1>5. \A i, j \in 1 .. n : i <= j => rows[i].at <= rows[j].at
  <2>1. ASSUME NEW i \in 1 .. n, NEW j \in 1 .. n, i <= j PROVE rows[i].at <= rows[j].at
    <3>1. i = j \/ i < j
      BY <2>1
    <3>. QED BY <1>4, <3>1 DEF InReceipt
  <2>. QED BY <2>1
<1>. HIDE DEF f, n, K
<1>6. CASE K = 0
  <2>1. \A i \in 1 .. n : ~ (rows[i].at \in lo .. hi)
    BY <1>3, <1>6
  <2>2. Stretch(f, rows, lo, hi, 0)
    BY <1>4, <1>6, <2>1 DEF Stretch, n, K
  <2>. QED BY <2>2 DEF f
<1>7. CASE K # 0
  <2>. DEFINE a == q[1]
              b == q[K]
              c == a - 1
  <2>1. 1 \in 1 .. K /\ K \in 1 .. K /\ a \in 1 .. n /\ b \in 1 .. n
    BY <1>3, <1>4, <1>7
  <2>2. \A k \in 1 .. K : a <= q[k] /\ q[k] <= b
    <3>1. ASSUME NEW k \in 1 .. K PROVE a <= q[k] /\ q[k] <= b
      <4>1. q[k] \in 1 .. n
        BY <1>3
      <4>2. q[k] \in Int
        BY <1>4, <4>1
      <4>3. (k = 1 \/ 1 < k) /\ (k = K \/ k < K)
        BY <1>4
      <4>. QED BY <1>3, <2>1, <4>2, <4>3
    <3>. QED BY <3>1
  <2>3. rows[a].at \in lo .. hi /\ rows[b].at \in lo .. hi
    BY <1>3, <2>1
  <2>. HIDE DEF a, b
  <2>4. ASSUME NEW m \in a .. b PROVE rows[m].at \in lo .. hi /\ m \in 1 .. n
    <3>1. m \in 1 .. n /\ a <= m /\ m <= b
      BY <1>4, <2>1
    <3>2. rows[a].at <= rows[m].at /\ rows[m].at <= rows[b].at
      BY <1>5, <2>1, <3>1
    <3>. QED BY <1>4, <2>1, <2>3, <3>1, <3>2
  <2>5. Enumerates(q, K, a, b)
    <3>1. q \in [1 .. K -> a .. b]
      BY <1>3, <1>4, <2>1, <2>2
    <3>2. \A m \in a .. b : \E k \in 1 .. K : q[k] = m
      BY <1>3, <2>4
    <3>. QED BY <1>3, <3>1, <3>2 DEF Enumerates
  <2>6. (\A k \in 1 .. K : q[k] = a + k - 1) /\ K = b + 1 - a
    <3>1. a \in Int /\ b \in Int /\ a <= b + 1
      BY <1>4, <2>1, <2>2 DEF b
    <3>2. (\A k \in 1 .. K : q[k] = a + k - 1) /\ (a <= b + 1 => K = b + 1 - a)
      <4>1. K \in Nat
        BY <1>4
      <4>. QED BY <2>5, <3>1, <4>1, GrowsByOne
    <3>. QED BY <3>1, <3>2
  <2>7. c \in Nat /\ c + K = b /\ c + 1 = a
    BY <1>4, <2>1, <2>6
  <2>8. \A k \in 1 .. K : q[k] = c + k
    BY <1>4, <2>1, <2>6
  <2>9. \A i \in 1 .. n : rows[i].at \in lo .. hi <=> i \in c + 1 .. c + K
    <3>1. ASSUME NEW i \in 1 .. n, rows[i].at \in lo .. hi PROVE i \in a .. b
      <4>1. PICK k \in 1 .. K : q[k] = i
        BY <1>3, <3>1
      <4>. QED BY <1>4, <2>1, <2>2, <4>1
    <3>. QED BY <2>4, <2>7, <3>1
  <2>10. \A k \in 1 .. K : f[k] = rows[c + k]
    BY <1>3, <2>8
  <2>11. c + K <= n
    BY <1>4, <2>1, <2>7
  <2>. HIDE DEF c
  <2>12. Stretch(f, rows, lo, hi, c)
    BY <2>7, <2>9, <2>10, <2>11 DEF Stretch, n, K
  <2>. QED BY <2>12 DEF f
<1>. QED BY <1>6, <1>7

\* The newest book by a time.
LastBy(books, t, n) ==
  /\ n \in DOMAIN books /\ books[n].at <= t
  /\ \A m \in DOMAIN books : books[m].at <= t => m <= n

\* Without a gap from one book to another, in one session.
Unbroken(books, from, to, left, right) ==
  /\ LastBy(books, from, left) /\ LastBy(books, to, right)
  /\ from - books[left].at <= Gap /\ to - books[right].at <= Gap
  /\ \A n \in left + 1 .. right :
       books[n].at - books[n - 1].at <= Gap /\ books[n].session = books[left].session

\* A window of one session is unbroken between two books
\* (_OrderBookSeries.has_continuous_coverage).
LEMMA SessionUnbroken ==
  ASSUME NEW books, Streamed(books), NEW from \in Int, NEW to \in Int, from <= to
  PROVE  OneSession(books, from, to) <=> \E left, right : Unbroken(books, from, to, left, right)
<1>1. /\ Len(books) \in Nat /\ DOMAIN books = 1 .. Len(books)
      /\ \A n \in DOMAIN books : n \in Int /\ books[n].at \in Int
  <2>1. books \in Seq(Range(books))
    BY DEF Streamed
  <2>. QED BY <2>1, LenProperties DEF Streamed, Range
<1>2. ASSUME NEW t \in Int, BooksBy(books, t) # {} PROVE LastBy(books, t, Max(BooksBy(books, t)))
  <2>1. BooksBy(books, t) \in SUBSET (1 .. Len(books))
    BY <1>1 DEF BooksBy
  <2>2. IsFiniteSet(1 .. Len(books))
    <3>1. Len(books) \in Int
      BY <1>1
    <3>. QED BY <3>1, FS_Interval
  <2>3. IsFiniteSet(BooksBy(books, t))
    BY <2>1, <2>2, FS_Subset
  <2>4. BooksBy(books, t) \subseteq Int
    BY <2>1
  <2>5. Greatest(BooksBy(books, t), Max(BooksBy(books, t)))
    BY <1>2, <2>3, <2>4, Extremes
  <2>. QED BY <2>5 DEF Greatest, LastBy, BooksBy
<1>3. ASSUME NEW t \in Int, NEW n, LastBy(books, t, n) PROVE BooksBy(books, t) # {} /\ n = Max(BooksBy(books, t))
  <2>1. n \in BooksBy(books, t)
    BY <1>3 DEF LastBy, BooksBy
  <2>2. LastBy(books, t, Max(BooksBy(books, t)))
    BY <1>2, <2>1
  <2>. DEFINE m == Max(BooksBy(books, t))
  <2>. HIDE DEF m
  <2>3. LastBy(books, t, m)
    BY <2>2 DEF m
  <2>4. n = m
    BY <1>1, <1>3, <2>3 DEF LastBy
  <2>. QED BY <2>1, <2>4 DEF m
<1>. DEFINE left == Max(BooksBy(books, from))
            right == Max(BooksBy(books, to))
<1>4. ASSUME OneSession(books, from, to) PROVE Unbroken(books, from, to, left, right)
  <2>1. LastBy(books, from, left)
    BY <1>2, <1>4 DEF OneSession
  <2>2. BooksBy(books, to) # {}
    BY <1>1, <2>1 DEF LastBy, BooksBy
  <2>3. LastBy(books, to, right)
    BY <1>2, <2>2
  <2>. QED BY <1>4, <2>1, <2>3 DEF OneSession, Unbroken
<1>5. ASSUME NEW m, NEW n, Unbroken(books, from, to, m, n) PROVE OneSession(books, from, to)
  <2>1. BooksBy(books, from) # {} /\ m = left /\ n = right
    BY <1>3, <1>5 DEF Unbroken
  <2>2. Unbroken(books, from, to, left, right)
    BY <1>5, <2>1
  <2>. QED BY <2>1, <2>2 DEF OneSession, Unbroken
<1>. QED BY <1>4, <1>5

\* A part that is wide enough shows whether the window of features is of one session.
LEMMA SessionInPart ==
  ASSUME NEW books, Streamed(books), InReceipt(books), NEW lo \in Int, NEW hi \in Int,
         NEW from \in Int, NEW to \in Int, lo + Gap <= from, from <= to, to <= hi
  PROVE  OneSession(Within(books, lo .. hi), from, to) <=> OneSession(books, from, to)
<1>. DEFINE f == Within(books, lo .. hi)
            K == Len(f)
            n == Len(books)
<1>1. PICK c : Stretch(f, books, lo, hi, c)
  BY WithinStretch
<1>2. Streamed(f)
  BY WithinStream
<1>3. /\ n \in Nat /\ K \in Nat /\ DOMAIN books = 1 .. n /\ DOMAIN f = 1 .. K
      /\ \A i \in 1 .. n : books[i].at \in Int
  <2>1. books \in Seq(Range(books)) /\ f \in Seq(Range(f))
    BY <1>2 DEF Streamed
  <2>. HIDE DEF f
  <2>. QED BY <2>1, LenProperties DEF Streamed, Range
<1>. HIDE DEF f, K, n
<1>4. /\ c \in Nat /\ c + K <= n /\ \A k \in 1 .. K : f[k] = books[c + k]
      /\ \A i \in 1 .. n : books[i].at \in lo .. hi <=> i \in c + 1 .. c + K
  BY <1>1 DEF Stretch, K, n
<1>5. Gap \in Nat
  BY LabelsAssumption
<1>6. \A i, j \in 1 .. n : i <= j => books[i].at <= books[j].at
  <2>1. ASSUME NEW i \in 1 .. n, NEW j \in 1 .. n, i <= j PROVE books[i].at <= books[j].at
    <3>1. i = j \/ i < j
      BY <2>1
    <3>. QED BY <1>3, <3>1 DEF InReceipt
  <2>. QED BY <2>1
<1>7. ASSUME NEW k \in 1 .. K, NEW t \in Int, t <= hi
      PROVE  LastBy(f, t, k) <=> LastBy(books, t, c + k)
  <2>1. c + k \in 1 .. n /\ f[k] = books[c + k] /\ books[c + k].at \in lo .. hi
    BY <1>3, <1>4
  <2>2. ASSUME LastBy(books, t, c + k) PROVE LastBy(f, t, k)
    <3>1. ASSUME NEW m \in 1 .. K, f[m].at <= t PROVE m <= k
      <4>1. c + m \in 1 .. n /\ f[m] = books[c + m]
        BY <1>3, <1>4
      <4>2. c + m <= c + k
        BY <1>3, <2>2, <3>1, <4>1 DEF LastBy
      <4>. QED BY <1>4, <4>2
    <3>. QED BY <1>3, <2>1, <2>2, <3>1 DEF LastBy
  <2>3. ASSUME LastBy(f, t, k) PROVE LastBy(books, t, c + k)
    <3>1. ASSUME NEW m \in 1 .. n, books[m].at <= t PROVE m <= c + k
      <4>1. SUFFICES ASSUME m > c + k PROVE FALSE
        BY <1>4
      <4>2. books[c + k].at <= books[m].at
        BY <1>4, <1>6, <2>1, <4>1
      <4>3. m \in c + 1 .. c + K
        <5>1. books[m].at \in Int /\ books[c + k].at \in Int
          BY <1>3, <2>1
        <5>2. lo <= books[c + k].at /\ lo \in Int /\ hi \in Int
          BY <2>1
        <5>3. books[m].at \in lo .. hi
          BY <1>7, <3>1, <4>2, <5>1, <5>2
        <5>. QED BY <1>4, <5>3
      <4>4. m - c \in 1 .. K /\ c + (m - c) = m
        BY <1>3, <1>4, <4>3
      <4>5. f[m - c] = books[m]
        BY <1>4, <4>4
      <4>6. m - c <= k
        BY <1>3, <2>3, <3>1, <4>4, <4>5 DEF LastBy
      <4>. QED BY <1>4, <4>1, <4>6
    <3>. QED BY <1>3, <2>1, <2>3, <3>1 DEF LastBy
  <2>. QED BY <2>2, <2>3
<1>8. ASSUME NEW j \in 1 .. K, NEW k \in 1 .. K
      PROVE  Unbroken(f, from, to, j, k) <=> Unbroken(books, from, to, c + j, c + k)
  <2>1. f[j] = books[c + j] /\ f[k] = books[c + k]
    BY <1>4
  <2>2. LastBy(f, from, j) <=> LastBy(books, from, c + j)
    BY <1>7
  <2>3. LastBy(f, to, k) <=> LastBy(books, to, c + k)
    BY <1>7
  <2>. DEFINE Step(x, i, m) == x[i].at - x[i - 1].at <= Gap /\ x[i].session = x[m].session
  <2>4. \A i \in j + 1 .. k : Step(f, i, j) <=> Step(books, c + i, c + j)
    <3>1. ASSUME NEW i \in j + 1 .. k PROVE Step(f, i, j) <=> Step(books, c + i, c + j)
      <4>1. i \in 1 .. K /\ i - 1 \in 1 .. K /\ c + (i - 1) = c + i - 1
        BY <1>3, <1>4
      <4>2. f[i] = books[c + i] /\ f[i - 1] = books[c + i - 1]
        BY <1>4, <4>1
      <4>3. c + i - 1 = (c + i) - 1
        BY <1>4, <4>1
      <4>4. /\ f[i].at - f[i - 1].at = books[c + i].at - books[(c + i) - 1].at
            /\ f[i].session = books[c + i].session /\ f[j].session = books[c + j].session
        BY <2>1, <4>2, <4>3
      <4>. QED BY <4>4
    <3>. QED BY <3>1
  <2>. HIDE DEF Step
  <2>5. (\A i \in j + 1 .. k : Step(f, i, j)) <=> \A i \in c + j + 1 .. c + k : Step(books, i, c + j)
    <3>1. \A i \in j + 1 .. k : c + i \in c + j + 1 .. c + k
      BY <1>3, <1>4
    <3>2. \A i \in c + j + 1 .. c + k : i - c \in j + 1 .. k /\ c + (i - c) = i
      BY <1>3, <1>4
    <3>. QED BY <2>4, <3>1, <3>2
  <2>. QED BY <2>1, <2>2, <2>3, <2>5 DEF Unbroken, Step
<1>9. ASSUME NEW l, NEW r, Unbroken(f, from, to, l, r) PROVE OneSession(books, from, to)
  <2>1. l \in 1 .. K /\ r \in 1 .. K
    BY <1>3, <1>9 DEF Unbroken, LastBy
  <2>2. Unbroken(books, from, to, c + l, c + r)
    BY <1>8, <1>9, <2>1
  <2>. QED BY <2>2, SessionUnbroken
<1>10. ASSUME NEW l, NEW r, Unbroken(books, from, to, l, r) PROVE OneSession(f, from, to)
  <2>1. /\ l \in 1 .. n /\ r \in 1 .. n /\ books[l].at <= from /\ from - books[l].at <= Gap
        /\ books[r].at <= to /\ \A m \in 1 .. n : books[m].at <= to => m <= r
    BY <1>3, <1>10 DEF Unbroken, LastBy
  <2>2. l <= r
    BY <1>3, <2>1
  <2>3. books[l].at <= books[r].at
    BY <1>6, <2>1, <2>2
  <2>4. books[l].at \in lo .. hi /\ books[r].at \in lo .. hi
    BY <1>3, <1>5, <2>1, <2>3
  <2>5. l - c \in 1 .. K /\ r - c \in 1 .. K /\ c + (l - c) = l /\ c + (r - c) = r
    <3>1. l \in c + 1 .. c + K /\ r \in c + 1 .. c + K
      BY <1>4, <2>1, <2>4
    <3>. QED BY <1>3, <1>4, <3>1
  <2>6. Unbroken(f, from, to, l - c, r - c)
    BY <1>8, <1>10, <2>5
  <2>. QED BY <1>2, <2>6, SessionUnbroken
<1>. QED BY <1>9, <1>10, <1>2, SessionUnbroken DEF f

-----------------------------------------------------------------------------
\* In a wide part are the candles of a window of features, and the one after it.
LEMMA CandlesInPart ==
  ASSUME NEW market, Recording(market), NEW d \in Int, NEW lo, NEW hi, Wide(lo, hi, d),
         NEW c \in market.candles, WindowStart(d) < (c.start + 1) * MinuteTicks, c.start * MinuteTicks <= d
  PROVE  c.at \in lo .. hi
<1>1. /\ c.start \in Nat /\ c.at \in Int /\ c.at <= c.start * MinuteTicks + DayTicks
      /\ (c.start + 1) * MinuteTicks <= c.at
  BY DEF Recording
<1>2. MinuteTicks \in Nat \ {0} /\ Gap \in Nat /\ DayTicks \in Nat
  BY LabelsAssumption, FeaturesAssumption
<1>3. c.start * MinuteTicks \in Int /\ (c.start + 1) * MinuteTicks \in Int
  BY <1>1, <1>2
<1>. QED BY <1>1, <1>2, <1>3 DEF Wide

\* They are those of the history and those that meet the window.
LEMMA WindowCandles ==
  ASSUME NEW d \in Int, NEW lo, NEW hi, Wide(lo, hi, d), NEW j \in Int,
         j \in History(d) \/ j \in (WindowStart(d) \div MinuteTicks)
                                     .. ((IF d - 1 >= WindowStart(d) THEN d - 1 ELSE WindowStart(d)) \div MinuteTicks)
  PROVE  WindowStart(d) < (j + 1) * MinuteTicks /\ j * MinuteTicks <= d
<1>. DEFINE M == MinuteTicks
            m == d \div M
            from == WindowStart(d)
            end == IF d - 1 >= from THEN d - 1 ELSE from
<1>1. M \in Nat \ {0} /\ HistoryMinutes \in Nat
  BY LabelsAssumption, FeaturesAssumption
<1>2. /\ \A t \in Int : t \div M \in Int /\ (t \div M) * M <= t /\ t < (t \div M) * M + M
      /\ \A a, b \in Int : a * M \in Int /\ (a - b) * M = a * M - b * M /\ (a + b) * M = a * M + b * M
      /\ \A a, b \in Int : a <= b => a * M <= b * M
  BY <1>1, Multiples
<1>3. from \in Int /\ from <= d /\ from = d - (HistoryMinutes + 1) * M /\ end \in Int /\ from <= end /\ end <= d
  BY DEF Wide, WindowStart
<1>4. (j + 1) * M = j * M + M /\ j * M \in Int /\ 1 * M = M
  BY <1>1, <1>2
<1>. HIDE DEF M, from, end
<1>5. CASE j \in History(d)
  <2>1. m - 1 - HistoryMinutes <= j /\ j <= m - 1 /\ m \in Int
    BY <1>2, <1>5 DEF History, M
  <2>2. j * M <= m * M /\ m * M <= d /\ d < m * M + M
    <3>1. j \in Int /\ j <= m
      BY <2>1
    <3>2. j * M <= m * M
      BY <1>2, <2>1, <3>1
    <3>. QED BY <1>2, <3>2
  <2>3. (m - (HistoryMinutes + 1)) * M <= j * M
    <3>1. m - (HistoryMinutes + 1) \in Int /\ m - (HistoryMinutes + 1) <= j
      BY <1>1, <2>1
    <3>. QED BY <1>2, <3>1
  <2>4. (m - (HistoryMinutes + 1)) * M = m * M - (HistoryMinutes + 1) * M
    BY <1>1, <1>2, <2>1
  <2>5. m * M \in Int /\ (HistoryMinutes + 1) * M \in Int
    BY <1>1, <1>2, <2>1
  <2>. QED BY <1>1, <1>3, <1>4, <2>2, <2>3, <2>4, <2>5 DEF M, from
<1>6. CASE j \in (from \div M) .. (end \div M)
  <2>1. from \div M <= j /\ j <= end \div M
    BY <1>6
  <2>2. /\ (from \div M) * M <= j * M /\ j * M <= (end \div M) * M
        /\ (end \div M) * M <= end /\ from < (from \div M) * M + M
    BY <1>2, <1>3, <2>1
  <2>3. (from \div M) * M \in Int /\ (end \div M) * M \in Int
    BY <1>2, <1>3
  <2>. QED BY <1>1, <1>3, <1>4, <2>2, <2>3 DEF M, from
<1>. QED BY <1>5, <1>6 DEF M, from, end

-----------------------------------------------------------------------------
\* Whether the window is continuous, can be told from a part (_ContinuityGuard.covers).
LEMMA ContinuousInPart ==
  ASSUME NEW market, Recording(market), NEW d \in Int, NEW lo, NEW hi, Wide(lo, hi, d)
  PROVE  Continuous(Part(market, lo .. hi), d) <=> Continuous(market, d)
<1>. DEFINE part == Part(market, lo .. hi)
            from == WindowStart(d)
            end == IF d - 1 >= from THEN d - 1 ELSE from
            minutes == (from \div MinuteTicks) .. (end \div MinuteTicks)
            starts(x) == {c.start : c \in x.candles}
<1>1. part.books = Within(market.books, lo .. hi) /\ part.candles = {c \in market.candles : c.at \in lo .. hi}
  BY DEF Part
<1>2. OneSession(part.books, from, d) <=> OneSession(market.books, from, d)
  <2>1. Streamed(market.books) /\ InReceipt(market.books)
    BY DEF Recording
  <2>2. lo \in Int /\ hi \in Int /\ from \in Int /\ lo + Gap <= from /\ from <= d /\ d <= hi
    BY FeaturesAssumption DEF Wide
  <2>. HIDE DEF from
  <2>. QED BY <1>1, <2>1, <2>2, SessionInPart
<1>. HIDE DEF part
<1>3. ASSUME NEW c \in market.candles, c.start \in minutes PROVE c \in part.candles
  <2>1. c.start \in Int
    BY DEF Recording
  <2>2. from < (c.start + 1) * MinuteTicks /\ c.start * MinuteTicks <= d
    BY <1>3, <2>1, WindowCandles
  <2>. QED BY <1>1, <2>2, CandlesInPart
<1>4. minutes \subseteq starts(part) <=> minutes \subseteq starts(market)
  <2>. HIDE DEF minutes
  <2>. QED BY <1>1, <1>3
<1>5. \A x : Continuous(x, d) <=> OneSession(x.books, from, d) /\ minutes \subseteq starts(x)
  BY DEF Continuous, Covers, EveryCandle, WindowStart
<1>. HIDE DEF minutes, starts, from
<1>. QED BY <1>2, <1>4, <1>5 DEF part

\* What a row is computed from, is in a wide part as in all.
LEMMA RowInPart ==
  ASSUME NEW market, Recording(market), NEW d \in Int, NEW lo, NEW hi, Wide(lo, hi, d)
  PROVE  SameRow(FeatureRow(Part(market, lo .. hi), d), FeatureRow(market, d))
<1>. DEFINE part == Part(market, lo .. hi)
<1>1. /\ part.books = Within(market.books, lo .. hi) /\ part.tickers = market.tickers \cap (lo .. hi)
      /\ part.candles = {c \in market.candles : c.at \in lo .. hi}
      /\ part.trades = Within(market.trades, lo .. hi)
  BY DEF Part
<1>. HIDE DEF part
<1>2. /\ Streamed(market.books) /\ Streamed(market.trades) /\ Clocked(market.tickers)
      /\ market.candles \subseteq CandleValues /\ Range(market.trades) \subseteq TradeValues
  BY DEF Recording
<1>3. /\ lo \in Int /\ hi \in Int /\ d <= hi
      /\ \A span \in {BookAge, TickerAge} \cup TradeWindows : span \in Int /\ lo <= d - span
  BY FeaturesAssumption DEF Wide
<1>. DEFINE b0 == BookFeatures(part, d)
            b1 == BookFeatures(market, d)
            t0 == TickerFeatures(part, d)
            t1 == TickerFeatures(market, d)
<1>4. /\ Fresh(b0, d, BookAge) <=> Fresh(b1, d, BookAge)
      /\ Fresh(b1, d, BookAge) => b0 = b1 /\ b1 \in Nat
  <2>1. /\ Clocked(Received(market.books))
        /\ Received(part.books) = Received(market.books) \cap (lo .. hi)
    BY <1>1, <1>2, ReceivedWithin
  <2>2. BookAge \in Int /\ lo <= d - BookAge
    BY <1>3
  <2>. DEFINE received == Received(market.books)
  <2>3. b0 = NewestBy(received \cap (lo .. hi), d) /\ b1 = NewestBy(received, d)
    BY <2>1 DEF BookFeatures
  <2>4. Clocked(received)
    BY <2>1
  <2>. HIDE DEF received, b0, b1
  <2>5. \A age \in Int : lo <= d - age =>
          LET y == NewestBy(received \cap (lo .. hi), d)
              x == NewestBy(received, d)
          IN (Fresh(y, d, age) <=> Fresh(x, d, age)) /\ (Fresh(x, d, age) => y = x /\ x \in Nat)
    BY <1>3, <2>4, NewestInPart
  <2>. QED BY <2>2, <2>3, <2>5
<1>5. /\ Fresh(t0.now, d, TickerAge) <=> Fresh(t1.now, d, TickerAge)
      /\ Fresh(t1.now, d, TickerAge) => t0.now = t1.now /\ t1.now \in Nat
  <2>1. TickerAge \in Int /\ lo <= d - TickerAge
    BY <1>3
  <2>2. t0.now = NewestBy(part.tickers, d) /\ t1.now = NewestBy(market.tickers, d)
    BY DEF TickerFeatures
  <2>3. part.tickers = market.tickers \cap (lo .. hi) /\ Clocked(market.tickers)
    BY <1>1, <1>2
  <2>. DEFINE all == market.tickers
  <2>. HIDE DEF all, t0, t1
  <2>4. /\ Fresh(NewestBy(all \cap (lo .. hi), d), d, TickerAge) <=> Fresh(NewestBy(all, d), d, TickerAge)
        /\ Fresh(NewestBy(all, d), d, TickerAge) =>
             NewestBy(all \cap (lo .. hi), d) = NewestBy(all, d) /\ NewestBy(all, d) \in Nat
    <3>1. Clocked(all)
      BY <2>3 DEF all
    <3>. QED BY <1>3, <2>1, <3>1, NewestInPart
  <2>. QED BY <2>2, <2>3, <2>4 DEF all
<1>6. /\ t0 = [now |-> t0.now, earlier |-> t0.earlier] /\ t1 = [now |-> t1.now, earlier |-> t1.earlier]
      /\ t0.earlier \in [InterestLags -> Int \cup {None}] /\ t1.earlier \in [InterestLags -> Int \cup {None}]
      /\ \A lag \in InterestLags : t0.earlier[lag] \in {None, t1.earlier[lag]}
  <2>1. ASSUME NEW lag \in InterestLags
        PROVE  /\ NewestBy(part.tickers, d - lag) \in {None, NewestBy(market.tickers, d - lag)}
               /\ NewestBy(market.tickers, d - lag) \in Int \cup {None}
    <3>1. d - lag \in Int /\ d - lag <= hi
      BY <1>3, FeaturesAssumption
    <3>2. Newest(market.tickers, d - lag, NewestBy(market.tickers, d - lag))
      BY <1>2, <3>1, NewestFound
    <3>3. NewestBy(market.tickers, d - lag) \in Int \cup {None}
      BY <1>2, <3>2 DEF Newest, Clocked
    <3>. DEFINE e == d - lag
                all == market.tickers
    <3>4. Clocked(all) /\ part.tickers = all \cap (lo .. hi) /\ e \in Int /\ e <= hi
      BY <1>1, <1>2, <3>1
    <3>. HIDE DEF all, e
    <3>5. NewestBy(all \cap (lo .. hi), e) \in {None, NewestBy(all, e)}
      BY <1>3, <3>4, NewestInPart
    <3>. QED BY <3>3, <3>4, <3>5 DEF all, e
  <2>. QED BY <2>1 DEF TickerFeatures
<1>7. CandleFeatures(part, d) = CandleFeatures(market, d)
  <2>1. ASSUME NEW c \in market.candles, c.start \in History(d) PROVE c.at \in lo .. hi
    <3>1. c.start \in Int
      BY DEF Recording
    <3>2. WindowStart(d) < (c.start + 1) * MinuteTicks /\ c.start * MinuteTicks <= d
      BY <2>1, <3>1, WindowCandles
    <3>. QED BY <3>2, CandlesInPart
  <2>. QED BY <1>1, <2>1 DEF CandleFeatures
<1>8. HistoryKnown(part, d) <=> HistoryKnown(market, d)
  BY <1>7 DEF HistoryKnown
<1>9. TradeFeatures(part, d) = TradeFeatures(market, d)
  <2>1. Range(part.trades) = {r \in Range(market.trades) : r.at \in lo .. hi}
    <3>1. Range(Within(market.trades, lo .. hi)) = {r \in Range(market.trades) : r.at \in lo .. hi}
      BY <1>2, WithinStream
    <3>. QED BY <1>1, <3>1
  <2>2. ASSUME NEW w \in TradeWindows
        PROVE  {t \in Range(market.trades) : d - w <= t.at /\ t.at <= d}
                 = {t \in Range(part.trades) : d - w <= t.at /\ t.at <= d}
    <3>1. lo <= d - w /\ w \in Int
      BY <1>3
    <3>. QED BY <1>2, <1>3, <2>1, <3>1 DEF Streamed
  <2>. QED BY <2>2 DEF TradeFeatures
<1>10. /\ CandleFeatures(market, d) \in SUBSET CandleValues
       /\ TradeFeatures(market, d) \in [TradeWindows -> SUBSET TradeValues]
  BY <1>2 DEF CandleFeatures, TradeFeatures
<1>. DEFINE good == /\ Fresh(b1, d, BookAge) /\ Fresh(t1.now, d, TickerAge) /\ HistoryKnown(market, d)
            R(t) == [book |-> b1, ticker |-> t,
                     candles |-> CandleFeatures(market, d), trades |-> TradeFeatures(market, d)]
<1>. HIDE DEF b0, b1, t0, t1
<1>11. CASE ~ good
  <2>1. FeatureRow(part, d) = None /\ FeatureRow(market, d) = None
    BY <1>4, <1>5, <1>8, <1>11 DEF FeatureRow, b0, b1, t0, t1
  <2>. QED BY <2>1 DEF SameRow, part
<1>12. CASE good
  <2>1. FeatureRow(part, d) = R(t0) /\ FeatureRow(market, d) = R(t1)
    BY <1>4, <1>5, <1>7, <1>8, <1>9, <1>12 DEF FeatureRow, b0, b1, t0, t1
  <2>2. b1 \in Int /\ t0.now \in Int /\ t1.now \in Int /\ t0.now = t1.now
    BY <1>4, <1>5, <1>12
  <2>3. R(t0) \in FeatureRows /\ R(t1) \in FeatureRows
    BY <1>6, <1>10, <2>2 DEF FeatureRows
  <2>4. R(t0) # None /\ R(t1) # None
    BY <2>3, RowAssumption
  <2>5. [R(t0) EXCEPT !.ticker.earlier = None] = [R(t1) EXCEPT !.ticker.earlier = None]
    BY <1>6, <2>2
  <2>6. \A lag \in InterestLags : R(t0).ticker.earlier[lag] \in {None, R(t1).ticker.earlier[lag]}
    BY <1>6
  <2>. HIDE DEF R
  <2>. QED BY <2>1, <2>4, <2>5, <2>6 DEF SameRow, part
<1>. QED BY <1>11, <1>12

\* A stream's receive times, of which there are some.
Lively(times) == Clocked(times) /\ times # {}

\* From the first to the last of a stream's times.
Spans(times, d) == (\E t \in times : t <= d) /\ (\E t \in times : d <= t)

\* A decision is reached by every stream (_decision_grid).
LEMMA GridIsReached ==
  ASSUME NEW x, \A s \in Streams(x) : Lively(s), NEW d \in Int
  PROVE  d \in DecisionGrid(x) <=> OnGrid(d) /\ \A s \in Streams(x) : Spans(s, d)
<1>. DEFINE S == Streams(x)
            lows == {Min(s) : s \in S}
            highs == {Max(s) : s \in S}
<1>1. \A s \in S : Least(s, Min(s)) /\ Greatest(s, Max(s)) /\ s \subseteq Int
  BY Extremes DEF Lively, Clocked
<1>2. IsFiniteSet(S) /\ S # {}
  <2>1. S = ({Received(x.books)} \cup {x.tickers}) \cup {Received(x.trades)}
    BY DEF Streams
  <2>2. \A a, b, c : IsFiniteSet(({a} \cup {b}) \cup {c})
    <3>1. \A a : IsFiniteSet({a})
      BY FS_Singleton
    <3>2. \A a, b : IsFiniteSet({a} \cup {b})
      BY <3>1, FS_Union
    <3>. QED BY <3>1, <3>2, FS_Union
  <2>3. IsFiniteSet(S)
    <3>. HIDE DEF S
    <3>. QED BY <2>1, <2>2
  <2>4. x.tickers \in S
    BY <2>1
  <2>. HIDE DEF S
  <2>. QED BY <2>3, <2>4
<1>3. IsFiniteSet(lows) /\ IsFiniteSet(highs)
  <2>1. [s \in S |-> Min(s)] \in Surjection(S, lows) /\ [s \in S |-> Max(s)] \in Surjection(S, highs)
    BY DEF Surjection
  <2>. HIDE DEF S, lows, highs
  <2>. QED BY <1>2, <2>1, FS_Surjection
<1>. HIDE DEF S
<1>4. lows \subseteq Int /\ highs \subseteq Int /\ lows # {} /\ highs # {}
  BY <1>1, <1>2 DEF Least, Greatest
<1>5. Greatest(lows, Max(lows)) /\ Least(highs, Min(highs))
  <2>. HIDE DEF lows, highs
  <2>. QED BY <1>3, <1>4, Extremes
<1>6. /\ Max(lows) \in Int /\ Min(highs) \in Int
      /\ Max(lows) <= d <=> \A s \in S : Min(s) <= d
      /\ d <= Min(highs) <=> \A s \in S : d <= Max(s)
  <2>1. Max(lows) \in lows /\ \A s \in S : Min(s) <= Max(lows) /\ Min(s) \in Int
    BY <1>4, <1>5 DEF Greatest
  <2>2. Min(highs) \in highs /\ \A s \in S : Min(highs) <= Max(s) /\ Max(s) \in Int
    BY <1>4, <1>5 DEF Least
  <2>3. Max(lows) <= d <=> \A s \in S : Min(s) <= d
    BY <1>4, <2>1
  <2>4. d <= Min(highs) <=> \A s \in S : d <= Max(s)
    BY <1>4, <2>2
  <2>. QED BY <1>4, <2>1, <2>2, <2>3, <2>4
<1>7. \A s \in S : Spans(s, d) <=> Min(s) <= d /\ d <= Max(s)
  <2>1. ASSUME NEW s \in S PROVE Spans(s, d) <=> Min(s) <= d /\ d <= Max(s)
    <3>1. /\ Min(s) \in s /\ Max(s) \in s /\ s \subseteq Int
          /\ \A t \in s : Min(s) <= t /\ t <= Max(s)
      BY <1>1 DEF Least, Greatest
    <3>2. Min(s) \in Int /\ Max(s) \in Int
      BY <3>1
    <3>3. \A t \in s : t \in Int /\ Min(s) <= t /\ t <= Max(s)
      BY <3>1
    <3>. HIDE DEF lows, highs
    <3>. QED BY <3>1, <3>2, <3>3 DEF Spans
  <2>. QED BY <2>1
<1>8. d \in DecisionGrid(x) <=> Max(lows) <= d /\ d <= Min(highs) /\ OnGrid(d)
  <2>1. DecisionGrid(x) = {e \in Max(lows) .. Min(highs) : OnGrid(e)}
    BY DEF DecisionGrid, S
  <2>. HIDE DEF lows, highs
  <2>. QED BY <1>6, <2>1
<1>. HIDE DEF lows, highs
<1>9. d \in DecisionGrid(x) <=> OnGrid(d) /\ \A s \in S : Spans(s, d)
  BY <1>6, <1>7, <1>8
<1>. QED BY <1>9 DEF S

\* The streams of a part.
LEMMA StreamsOfPart ==
  ASSUME NEW market, Recording(market), NEW times, Buildable(Part(market, times))
  PROVE  LET part == Part(market, times) IN
         /\ Received(part.books) = Received(market.books) \cap times
         /\ part.tickers = market.tickers \cap times
         /\ Received(part.trades) = Received(market.trades) \cap times
         /\ \A s \in Streams(market) \cup Streams(part) : Lively(s)
<1>. DEFINE part == Part(market, times)
<1>1. /\ part.books = Within(market.books, times) /\ part.tickers = market.tickers \cap times
      /\ part.trades = Within(market.trades, times)
  BY DEF Part
<1>2. /\ Clocked(Received(market.books)) /\ Received(part.books) = Received(market.books) \cap times
      /\ Clocked(Received(market.trades)) /\ Received(part.trades) = Received(market.trades) \cap times
  BY <1>1, ReceivedWithin DEF Recording
<1>3. \A s : Clocked(s) => Clocked(s \cap times)
  BY FS_Subset DEF Clocked
<1>4. \A s \in Streams(market) : Clocked(s) /\ s # {}
  BY <1>2 DEF Recording, Buildable, Streams
<1>5. \A s \in Streams(part) : Clocked(s) /\ s # {}
  <2>1. Clocked(market.tickers)
    BY DEF Recording
  <2>2. Clocked(Received(part.books)) /\ Clocked(part.tickers) /\ Clocked(Received(part.trades))
    BY <1>1, <1>2, <1>3, <2>1
  <2>. QED BY <2>2 DEF Buildable, Streams
<1>. QED BY <1>1, <1>2, <1>4, <1>5 DEF Lively

\* A decision of a part is one of all.
LEMMA GridOfPart ==
  ASSUME NEW market, Recording(market), NEW times, Buildable(Part(market, times)),
         NEW d \in DecisionGrid(Part(market, times))
  PROVE  d \in DecisionGrid(market)
<1>. DEFINE part == Part(market, times)
<1>1. /\ Received(part.books) = Received(market.books) \cap times
      /\ part.tickers = market.tickers \cap times
      /\ Received(part.trades) = Received(market.trades) \cap times
      /\ \A s \in Streams(market) \cup Streams(part) : Lively(s)
  BY StreamsOfPart
<1>2. d \in Int
  BY DEF DecisionGrid
<1>. HIDE DEF part
<1>3. OnGrid(d) /\ \A s \in Streams(part) : Spans(s, d)
  BY <1>1, <1>2, GridIsReached DEF part
<1>4. \A s, times2 : Spans(s \cap times2, d) => Spans(s, d)
  BY DEF Spans
<1>5. \A s \in Streams(market) : Spans(s, d)
  <2>1. /\ Spans(Received(part.books), d) /\ Spans(part.tickers, d)
        /\ Spans(Received(part.trades), d)
    BY <1>3 DEF Streams
  <2>2. /\ Spans(Received(market.books), d) /\ Spans(market.tickers, d)
        /\ Spans(Received(market.trades), d)
    BY <1>1, <1>4, <2>1
  <2>. QED BY <2>2 DEF Streams
<1>. QED BY <1>1, <1>2, <1>3, <1>5, GridIsReached

\* A decision with a row that a wide part does not reach, has no trade there yet, or
\* a stream that is silent from there on.
LEMMA LostInPart ==
  ASSUME NEW market, Recording(market), NEW d \in Int, NEW lo, NEW hi, Wide(lo, hi, d),
         Buildable(Part(market, lo .. hi)),
         d \in DecisionGrid(market), d \notin DecisionGrid(Part(market, lo .. hi)),
         FeatureRow(market, d) # None
  PROVE  Silent(Part(market, lo .. hi), d)
<1>. DEFINE part == Part(market, lo .. hi)
            books == Received(market.books)
            tickers == market.tickers
<1>1. /\ Received(part.books) = books \cap (lo .. hi) /\ part.tickers = tickers \cap (lo .. hi)
      /\ \A s \in Streams(market) \cup Streams(part) : Lively(s)
  BY StreamsOfPart
<1>2. lo \in Int /\ hi \in Int /\ d <= hi /\ lo <= d - BookAge /\ lo <= d - TickerAge
      /\ BookAge \in Int /\ TickerAge \in Int
  BY FeaturesAssumption DEF Wide
<1>. HIDE DEF part
<1>3. OnGrid(d)
  BY DEF DecisionGrid
<1>4. PICK s \in Streams(part) : ~ Spans(s, d) /\ Lively(s)
  BY <1>1, <1>3, GridIsReached DEF part
<1>5. Clocked(books) /\ Clocked(tickers)
  BY <1>1 DEF Lively, Streams
<1>6. Fresh(NewestBy(books, d), d, BookAge) /\ Fresh(NewestBy(tickers, d), d, TickerAge)
  BY DEF FeatureRow, BookFeatures, TickerFeatures
<1>7. ASSUME NEW all, Clocked(all), NEW age \in Int, lo <= d - age, Fresh(NewestBy(all, d), d, age)
      PROVE  \E t \in all \cap (lo .. hi) : t <= d
  <2>. DEFINE t == NewestBy(all, d)
              mine == all \cap (lo .. hi)
  <2>1. NewestBy(mine, d) = t /\ t \in Nat
    BY <1>2, <1>7, NewestInPart
  <2>2. Clocked(mine)
    BY <1>7, FS_Subset DEF Clocked
  <2>. HIDE DEF t, mine
  <2>3. Newest(mine, d, t)
    BY <2>1, <2>2, NewestFound
  <2>4. t # None
    BY <2>1, LabelsAssumption
  <2>. QED BY <2>3, <2>4 DEF Newest, mine
<1>8. (\E t \in Received(part.books) : t <= d) /\ (\E t \in part.tickers : t <= d)
  BY <1>1, <1>2, <1>5, <1>6, <1>7
<1>9. \A t \in s : t \in Int
  BY <1>4 DEF Lively, Clocked
<1>10. CASE \A t \in s : ~ (d <= t)
  BY <1>4, <1>9, <1>10 DEF Silent, part
<1>11. CASE \A t \in s : ~ (t <= d)
  <2>1. s = Received(part.trades)
    BY <1>4, <1>8, <1>11 DEF Streams
  <2>. QED BY <1>9, <1>11, <2>1 DEF Silent, part
<1>. QED BY <1>4, <1>10, <1>11 DEF Spans

\* Three days of files give a day the rows that all files give (_source_window).
LEMMA DaysAgree ==
  ASSUME NEW market, Recording(market), NEW day \in Int
  PROVE  DayByDay(market, day)
<1>. DEFINE window == SourceWindow(market, day)
<1>. SUFFICES ASSUME Buildable(window)
              PROVE  /\ DayDecisions(window, day) \subseteq DayDecisions(market, day)
                     /\ \A d \in DayDecisions(market, day) :
                          \/ SameRow(RowOfDay(window, day, d), RowOfDay(market, day, d))
                          \/ d \notin DayDecisions(window, day) /\ Silent(window, d)
  BY DEF DayByDay
<1>1. DayDecisions(window, day) \subseteq DayDecisions(market, day)
  BY GridOfPart DEF DayDecisions, SourceWindow
<1>2. ASSUME NEW d \in DayDecisions(market, day)
      PROVE  \/ SameRow(RowOfDay(window, day, d), RowOfDay(market, day, d))
             \/ d \notin DayDecisions(window, day) /\ Silent(window, d)
  <2>1. d \in Int /\ DayOf(d) = day /\ d \in DecisionGrid(market)
    BY <1>2 DEF DayDecisions, DecisionGrid
  <2>2. PICK lo, hi : Days(day - 1, day + 1) = lo .. hi /\ Wide(lo, hi, d)
    BY <2>1, DaysAreWide
  <2>3. window = Part(market, lo .. hi)
    BY <2>2 DEF SourceWindow
  <2>. HIDE DEF window
  <2>4. CASE d \in DayDecisions(window, day)
    <3>1. Continuous(window, d) <=> Continuous(market, d)
      BY <2>1, <2>2, <2>3, ContinuousInPart
    <3>2. SameRow(FeatureRow(window, d), FeatureRow(market, d))
      BY <2>1, <2>2, <2>3, RowInPart
    <3>3. /\ RowOfDay(window, day, d) = ExecutionRow(window, d)
          /\ RowOfDay(market, day, d) = ExecutionRow(market, d)
      BY <1>2, <2>4 DEF RowOfDay
    <3>4. CASE Continuous(market, d)
      BY <3>1, <3>2, <3>3, <3>4 DEF ExecutionRow
    <3>5. CASE ~ Continuous(market, d)
      BY <3>1, <3>3, <3>5 DEF ExecutionRow, SameRow
    <3>. QED BY <3>4, <3>5
  <2>5. CASE d \notin DayDecisions(window, day)
    <3>1. RowOfDay(window, day, d) = None /\ RowOfDay(market, day, d) = ExecutionRow(market, d)
      BY <1>2, <2>5 DEF RowOfDay
    <3>2. CASE ExecutionRow(market, d) = None
      BY <3>1, <3>2 DEF SameRow
    <3>3. CASE ExecutionRow(market, d) # None
      <4>1. FeatureRow(market, d) # None
        BY <3>3 DEF ExecutionRow
      <4>2. d \notin DecisionGrid(window)
        BY <2>1, <2>5 DEF DayDecisions
      <4>. QED BY <2>1, <2>2, <2>3, <2>5, <4>1, <4>2, LostInPart
    <3>. QED BY <3>2, <3>3
  <2>. QED BY <2>4, <2>5
<1>. QED BY <1>1, <1>2

\* Features and labels of any market and any day keep the past and the future apart,
\* and no row depends on how the recording is cut into files (_build_symbol,
\* _label_rows, _source_window).
THEOREM FeaturesKeepTime ==
  ASSUME NEW market, Recording(market), NEW anchor, Recording(anchor),
         NEW day \in Int, NEW entry \in Int
  PROVE  FeaturesHonest(market, anchor, day, entry)
<1>1. RowsCausal(market, anchor)
  <2>1. ASSUME NEW d \in DecisionGrid(market)
        PROVE  /\ FeatureRow(market, d) = FeatureRow(KnownAt(market, d), d)
               /\ WithContext(market, anchor, d).btc # None =>
                    WithContext(market, anchor, d).btc = FeatureRow(KnownAt(anchor, d), d)
    <3>1. d \in Int
      BY DEF DecisionGrid
    <3>2. FeatureRow(market, d) = FeatureRow(KnownAt(market, d), d)
      BY <3>1, RowIsKnown
    <3>3. FeatureRow(anchor, d) = FeatureRow(KnownAt(anchor, d), d)
      BY <3>1, RowIsKnown
    <3>. QED BY <3>2, <3>3 DEF WithContext
  <2>. QED BY <2>1 DEF RowsCausal
<1>2. LabelsLookAhead(market, entry)
  <2>1. ASSUME NEW d \in DecisionGrid(market), NEW side \in {"LONG", "SHORT"},
               MarketLabel(market, d, side, entry) # None
        PROVE  MarketLabel(market, d, side, entry) = MarketLabel(BehindOnly(market, d), d, side, entry)
    <3>1. d \in Int
      BY DEF DecisionGrid
    <3>. QED BY <2>1, <3>1, LabelLooksAhead
  <2>. QED BY <2>1 DEF LabelsLookAhead
<1>3. DayByDay(market, day)
  BY DaysAgree
<1>. QED BY <1>1, <1>2, <1>3 DEF FeaturesHonest

-----------------------------------------------------------------------------
(* The trades of an archive and the bars of TradeBars.  A bar is followed from row to
   row: what it tells of the rows so far it tells, observing the next row, of one more. *)

\* The sum of the amounts of a set is among the sums of its subsets (MapThenSumSet).
LEMMA TotalIsSummed ==
  ASSUME NEW v, NEW S, Valued(S, v)
  PROVE  \E h : Summed(h, S, v) /\ Total(v, S) = h[S]
<1>. DEFINE Def(f) == [t \in SUBSET S |-> IF t = {} THEN 0
                                          ELSE v[CHOOSE x \in t : TRUE] + f[t \ {CHOOSE x \in t : TRUE}]]
            iter == CHOOSE f : f = Def(f)
<1>1. Total(v, S) = iter[S]
  BY DEF Total, MapThenSumSet, MapThenFoldSet
<1>2. PICK h : Summed(h, S, v)
  BY SummedExists
<1>3. h = Def(h)
  BY <1>2 DEF Summed
<1>4. iter = Def(iter)
  <2>. HIDE DEF Def
  <2>. QED BY <1>3
<1>. HIDE DEF iter
<1>5. iter[{}] = 0 /\ iter = [t \in SUBSET S |-> iter[t]]
  BY <1>4
<1>6. \A t \in SUBSET S : t # {} => iter[t] = v[CHOOSE x \in t : TRUE] + iter[t \ {CHOOSE x \in t : TRUE}]
  BY <1>4
<1>7. Summed(iter, S, v)
  BY <1>5, <1>6, SumsFound
<1>. QED BY <1>1, <1>7

\* Equal amounts have equal sums.
LEMMA TotalAgrees ==
  ASSUME NEW v, NEW S, Valued(S, v), NEW w, \A a \in S : v[a] = w[a]
  PROVE  Total(v, S) = Total(w, S) /\ Total(v, S) \in Int
<1>1. Valued(S, w) /\ S \in SUBSET S
  BY DEF Valued
<1>2. PICK h : Summed(h, S, v) /\ Total(v, S) = h[S]
  BY TotalIsSummed
<1>3. PICK g : Summed(g, S, w) /\ Total(w, S) = g[S]
  BY <1>1, TotalIsSummed
<1>4. \A t \in SUBSET S : h[t] = g[t]
  BY <1>1, <1>2, <1>3, SumsAgree
<1>5. h[S] \in Int
  BY <1>1, <1>2 DEF Summed
<1>. QED BY <1>1, <1>2, <1>3, <1>4, <1>5

\* One more amount is added.
LEMMA TotalAdds ==
  ASSUME NEW v, NEW S, NEW x, x \notin S, Valued(S \cup {x}, v)
  PROVE  Total(v, S \cup {x}) = Total(v, S) + v[x]
<1>. DEFINE U == S \cup {x}
<1>1. Valued(S, v) /\ S \in SUBSET U /\ U \in SUBSET U /\ U \ {x} = S /\ v[x] \in Int /\ x \in U
  BY FS_Subset DEF Valued
<1>2. Valued(U, v)
  OBVIOUS
<1>. HIDE DEF U
<1>3. PICK h : Summed(h, U, v) /\ Total(v, U) = h[U]
  BY <1>2, TotalIsSummed
<1>4. PICK g : Summed(g, S, v) /\ Total(v, S) = g[S]
  BY <1>1, TotalIsSummed
<1>5. h[S] = g[S]
  <2>1. \A a \in S : v[a] = v[a]
    OBVIOUS
  <2>2. \A t \in SUBSET S : h[t] = g[t]
    BY <1>1, <1>2, <1>3, <1>4, <2>1, SumsAgree
  <2>3. S \in SUBSET S
    OBVIOUS
  <2>. QED BY <2>2, <2>3
<1>6. Adding(h, U, v)
  BY <1>2, <1>3, SumsAdd
<1>7. h[U] = v[x] + h[S] /\ h[S] \in Int
  BY <1>1, <1>6 DEF Adding
<1>8. Total(v, U) = Total(v, S) + v[x]
  BY <1>1, <1>3, <1>4, <1>5, <1>7
<1>. QED BY <1>8 DEF U

\* The amount of one.
LEMMA TotalOfOne ==
  ASSUME NEW v, NEW x, v[x] \in Int
  PROVE  Total(v, {x}) = v[x]
<1>1. Valued({x}, v) /\ {} \in SUBSET {x} /\ {x} \in SUBSET {x} /\ {x} \ {x} = {} /\ x \in {x}
  BY FS_Singleton DEF Valued
<1>2. PICK h : Summed(h, {x}, v) /\ Total(v, {x}) = h[{x}]
  BY <1>1, TotalIsSummed
<1>3. Adding(h, {x}, v) /\ h[{}] = 0
  BY <1>1, <1>2, SumsAdd DEF Summed
<1>4. h[{x}] = v[x] + h[{x} \ {x}]
  BY <1>1, <1>3 DEF Adding
<1>5. h[{x}] = v[x] + 0
  BY <1>1, <1>3, <1>4
<1>6. v[x] + 0 = v[x]
  <2>. DEFINE a == v[x]
  <2>1. a \in Int
    OBVIOUS
  <2>. HIDE DEF a
  <2>2. a + 0 = a
    BY <2>1
  <2>. QED BY <2>2 DEF a
<1>. QED BY <1>2, <1>5, <1>6

\* An extreme is found by Min and Max.
LEMMA ExtremeFound ==
  ASSUME NEW S, S \subseteq Int, NEW x
  PROVE  (Least(S, x) => Min(S) = x) /\ (Greatest(S, x) => Max(S) = x)
<1>1. ASSUME Least(S, x) PROVE Min(S) = x
  <2>1. x \in S /\ \A y \in S : x <= y
    BY <1>1 DEF Least
  <2>2. \A z \in S : (\A y \in S : z <= y) => z = x
    BY <2>1
  <2>. QED BY <2>1, <2>2 DEF Min
<1>2. ASSUME Greatest(S, x) PROVE Max(S) = x
  <2>1. x \in S /\ \A y \in S : x >= y
    BY <1>2 DEF Greatest
  <2>2. \A z \in S : (\A y \in S : z >= y) => z = x
    BY <2>1
  <2>. QED BY <2>1, <2>2 DEF Max
<1>. QED BY <1>1, <1>2

\* A row of an archive; and all its rows.
Typed(t) == t.at \in Int /\ t.price \in Int /\ t.size \in Int

Tabled(rows) == rows \in Seq(Range(rows)) /\ \A n \in 1 .. Len(rows) : Typed(rows[n])

\* One row more.
LEMMA TableGrows ==
  ASSUME NEW rows, Tabled(rows), NEW t, Typed(t)
  PROVE  LET more == Append(rows, t) IN
         /\ Tabled(more) /\ Len(rows) \in Nat /\ Len(more) = Len(rows) + 1 /\ more[Len(rows) + 1] = t
         /\ DOMAIN rows = 1 .. Len(rows) /\ DOMAIN more = 1 .. Len(rows) + 1
         /\ \A n \in 1 .. Len(rows) : more[n] = rows[n]
<1>. DEFINE more == Append(rows, t)
            N == Len(rows)
            R == Range(rows) \cup {t}
<1>1. rows \in Seq(R) /\ t \in R
  <2>1. rows \in Seq(Range(rows)) /\ Range(rows) \subseteq R
    BY DEF Tabled
  <2>. QED BY <2>1, LenProperties, SeqDef
<1>. HIDE DEF R
<1>2. /\ more \in Seq(R) /\ Len(more) = N + 1 /\ more[N + 1] = t
      /\ \A n \in 1 .. N : more[n] = rows[n]
  BY <1>1, AppendProperties
<1>3. N \in Nat /\ DOMAIN rows = 1 .. N /\ DOMAIN more = 1 .. N + 1
  BY <1>1, <1>2, LenProperties
<1>. HIDE DEF more, N
<1>4. more \in Seq(Range(more))
  <2>1. \A n \in 1 .. N + 1 : more[n] \in Range(more)
    BY <1>3 DEF Range
  <2>2. more = [n \in 1 .. N + 1 |-> more[n]]
    BY <1>2, <1>3, LenProperties
  <2>3. more \in [1 .. N + 1 -> Range(more)]
    BY <2>1, <2>2
  <2>4. N + 1 \in Nat
    BY <1>3
  <2>. QED BY <2>3, <2>4, SeqDef
<1>5. \A n \in 1 .. N + 1 : Typed(more[n])
  <2>1. \A n \in 1 .. N + 1 : n = N + 1 \/ n \in 1 .. N
    BY <1>3
  <2>2. \A n \in 1 .. N : Typed(rows[n])
    BY DEF Tabled, N
  <2>. QED BY <1>2, <2>1, <2>2
<1>6. Tabled(more)
  BY <1>2, <1>4, <1>5 DEF Tabled
<1>. QED BY <1>2, <1>3, <1>6 DEF more, N

Bars == [start : Int, first : Int, last : Int, open : Int, high : Int, low : Int, close : Int,
         turnover : Int, bought : Int, sold : Int, trades : Int]

\* What a bar tells of the rows: all that Summarises asks for, by their places.
BarTells(b, rows, i) ==
  LET own == Positions(rows, i, b.start) IN
  /\ b \in Bars /\ IsFiniteSet(own) /\ b.trades = Cardinality(own)
  /\ \E m, k : /\ Least(own, m) /\ b.open = rows[m].price /\ b.first = rows[m].at
               /\ Greatest(own, k) /\ b.close = rows[k].price /\ b.last = rows[k].at
  /\ Greatest({rows[n].price : n \in own}, b.high) /\ Least({rows[n].price : n \in own}, b.low)
  /\ b.turnover = Total(Turnovers(rows), own) /\ b.bought - b.sold = Total(Flows(rows), own)

\* The trades in a bar of one row more.
LEMMA PositionsMore ==
  ASSUME NEW rows, Tabled(rows), NEW t, Typed(t), NEW i \in Nat \ {0}, NEW s
  PROVE  /\ Positions(Append(rows, t), i, s)
              = Positions(rows, i, s) \cup (IF t.at \div i = s THEN {Len(rows) + 1} ELSE {})
         /\ Positions(rows, i, s) \subseteq 1 .. Len(rows)
         /\ Len(rows) + 1 \notin Positions(rows, i, s)
<1>. DEFINE more == Append(rows, t)
            N == Len(rows)
<1>1. /\ N \in Nat /\ more[N + 1] = t /\ DOMAIN rows = 1 .. N /\ DOMAIN more = 1 .. N + 1
      /\ \A n \in 1 .. N : more[n] = rows[n]
  BY TableGrows
<1>. HIDE DEF more, N
<1>2. \A n : n \in 1 .. N + 1 <=> n \in 1 .. N \/ n = N + 1
  BY <1>1
<1>3. N + 1 \notin 1 .. N
  BY <1>1
<1>4. Positions(more, i, s) = Positions(rows, i, s) \cup (IF t.at \div i = s THEN {N + 1} ELSE {})
  <2>1. ASSUME NEW n PROVE n \in Positions(more, i, s) <=> n \in Positions(rows, i, s) \/ (n = N + 1 /\ t.at \div i = s)
    BY <1>1, <1>2, <1>3 DEF Positions
  <2>. QED BY <2>1
<1>. QED BY <1>1, <1>3, <1>4 DEF Positions, more, N

Flow(t) == IF t.side = "Buy" THEN t.size ELSE -t.size

\* The sums of some rows, with and without one row more, x.
AmountsTell(rows, more, t, S, x) ==
  /\ Total(Turnovers(more), S) = Total(Turnovers(rows), S) /\ Total(Turnovers(rows), S) \in Int
  /\ Total(Flows(more), S) = Total(Flows(rows), S) /\ Total(Flows(rows), S) \in Int
  /\ Total(Turnovers(more), S \cup {x}) = Total(Turnovers(rows), S) + t.price * t.size
  /\ Total(Flows(more), S \cup {x}) = Total(Flows(rows), S) + Flow(t)
  /\ Total(Turnovers(more), {x}) = t.price * t.size /\ Total(Flows(more), {x}) = Flow(t)

\* One row more adds its amounts and leaves the others alone.
LEMMA AmountsMore ==
  ASSUME NEW rows, Tabled(rows), NEW t, Typed(t), NEW S, S \subseteq 1 .. Len(rows)
  PROVE  AmountsTell(rows, Append(rows, t), t, S, Len(rows) + 1)
<1>. DEFINE more == Append(rows, t)
            N == Len(rows)
            x == N + 1
            flow == Flow(t)
            v == Turnovers(rows)
            w == Turnovers(more)
            f == Flows(rows)
            g == Flows(more)
<1>1. /\ N \in Nat /\ more[x] = t /\ DOMAIN rows = 1 .. N /\ DOMAIN more = 1 .. x
      /\ \A n \in 1 .. N : more[n] = rows[n] /\ Typed(rows[n])
  BY TableGrows DEF Tabled
<1>2. IsFiniteSet(S) /\ IsFiniteSet(S \cup {x}) /\ x \notin S
  <2>1. IsFiniteSet(1 .. N) /\ x \notin 1 .. N
    BY <1>1, FS_Interval
  <2>2. IsFiniteSet(S)
    BY <2>1, FS_Subset
  <2>. QED BY <2>1, <2>2, FS_AddElement
<1>. HIDE DEF more, N
<1>3. x \in 1 .. x /\ \A n \in S : n \in 1 .. N /\ n \in 1 .. x
  BY <1>1 DEF N
<1>4. \A n \in S : v[n] \in Int /\ v[n] = w[n] /\ f[n] \in Int /\ f[n] = g[n]
  BY <1>1, <1>3 DEF Turnovers, Flows, Typed
<1>5. w[x] = t.price * t.size /\ w[x] \in Int /\ g[x] = flow /\ g[x] \in Int
  BY <1>1, <1>3 DEF Turnovers, Flows, Flow, Typed
<1>6. /\ Valued(S, v) /\ Valued(S, f) /\ Valued(S \cup {x}, w) /\ Valued(S \cup {x}, g)
  BY <1>2, <1>4, <1>5 DEF Valued
<1>. HIDE DEF v, w, f, g, x, flow
<1>7. Total(v, S) = Total(w, S) /\ Total(v, S) \in Int
  BY <1>4, <1>6, TotalAgrees
<1>8. Total(f, S) = Total(g, S) /\ Total(f, S) \in Int
  BY <1>4, <1>6, TotalAgrees
<1>9. Total(w, S \cup {x}) = Total(w, S) + w[x] /\ Total(g, S \cup {x}) = Total(g, S) + g[x]
  BY <1>2, <1>6, TotalAdds
<1>10. Total(w, {x}) = w[x] /\ Total(g, {x}) = g[x]
  BY <1>5, TotalOfOne
<1>11. /\ w[x] = t.price * t.size /\ g[x] = Flow(t)
  BY <1>5 DEF flow
<1>12. AmountsTell(rows, more, t, S, x)
  BY <1>7, <1>8, <1>9, <1>10, <1>11 DEF AmountsTell, v, w, f, g
<1>. QED BY <1>12 DEF x, more, N

\* The first trade of its interval opens a bar.
LEMMA BarOpens ==
  ASSUME NEW rows, Tabled(rows), NEW t, Typed(t), NEW i \in Nat \ {0},
         Positions(rows, i, t.at \div i) = {}
  PROVE  BarTells(FirstTrade(i, t), Append(rows, t), i)
<1>. DEFINE more == Append(rows, t)
            x == Len(rows) + 1
            b == FirstTrade(i, t)
            own == Positions(more, i, b.start)
<1>1. b.start = t.at \div i /\ t.at \div i \in Int
  BY Multiples DEF FirstTrade, Typed
<1>2. own = {x} /\ more[x] = t /\ x \in Int
  BY <1>1, PositionsMore, TableGrows
<1>3. b \in Bars
  BY <1>1 DEF FirstTrade, Bars, Typed, Bought
<1>4. IsFiniteSet(own) /\ b.trades = Cardinality(own)
  BY <1>2, FS_Singleton DEF FirstTrade
<1>5. /\ Least(own, x) /\ b.open = more[x].price /\ b.first = more[x].at
      /\ Greatest(own, x) /\ b.close = more[x].price /\ b.last = more[x].at
  BY <1>2 DEF FirstTrade, Least, Greatest
<1>6. {more[n].price : n \in own} = {t.price} /\ b.high = t.price /\ b.low = t.price
  BY <1>2 DEF FirstTrade
<1>7. Greatest({more[n].price : n \in own}, b.high) /\ Least({more[n].price : n \in own}, b.low)
  <2>1. \A p \in Int : Greatest({p}, p) /\ Least({p}, p)
    BY DEF Least, Greatest
  <2>2. t.price \in Int
    BY DEF Typed
  <2>. QED BY <1>6, <2>1, <2>2
<1>8. b.turnover = Total(Turnovers(more), own) /\ b.bought - b.sold = Total(Flows(more), own)
  <2>1. b.turnover = t.price * t.size /\ b.bought - b.sold = Flow(t)
    BY DEF FirstTrade, Bought, Flow, Typed
  <2>2. {} \subseteq 1 .. Len(rows)
    OBVIOUS
  <2>3. Total(Turnovers(more), {x}) = t.price * t.size /\ Total(Flows(more), {x}) = Flow(t)
    BY <2>2, AmountsMore DEF AmountsTell
  <2>. QED BY <1>2, <2>1, <2>3
<1>. HIDE DEF more, x, b
<1>9. BarTells(b, more, i)
  BY <1>3, <1>4, <1>5, <1>7, <1>8 DEF BarTells
<1>. QED BY <1>9 DEF more, b

\* A trade of another interval leaves a bar alone.
LEMMA BarStays ==
  ASSUME NEW rows, Tabled(rows), NEW t, Typed(t), NEW i \in Nat \ {0},
         NEW b, BarTells(b, rows, i), b.start # t.at \div i
  PROVE  BarTells(b, Append(rows, t), i)
<1>. DEFINE more == Append(rows, t)
            own == Positions(rows, i, b.start)
<1>1. Positions(more, i, b.start) = own /\ own \subseteq 1 .. Len(rows)
  BY PositionsMore
<1>2. \A n \in 1 .. Len(rows) : more[n] = rows[n]
  BY TableGrows
<1>3. /\ b \in Bars /\ IsFiniteSet(own) /\ b.trades = Cardinality(own)
      /\ Greatest({rows[n].price : n \in own}, b.high) /\ Least({rows[n].price : n \in own}, b.low)
      /\ b.turnover = Total(Turnovers(rows), own) /\ b.bought - b.sold = Total(Flows(rows), own)
  BY DEF BarTells
<1>4. PICK m, k : /\ Least(own, m) /\ b.open = rows[m].price /\ b.first = rows[m].at
                  /\ Greatest(own, k) /\ b.close = rows[k].price /\ b.last = rows[k].at
  BY DEF BarTells
<1>. HIDE DEF own
<1>5. AmountsTell(rows, more, t, own, Len(rows) + 1)
  BY <1>1, AmountsMore
<1>. HIDE DEF more
<1>6. /\ b.turnover = Total(Turnovers(more), own) /\ b.bought - b.sold = Total(Flows(more), own)
  BY <1>3, <1>5 DEF AmountsTell
<1>7. \A n \in own : more[n] = rows[n]
  BY <1>1, <1>2
<1>8. Greatest({more[n].price : n \in own}, b.high) /\ Least({more[n].price : n \in own}, b.low)
  <2>1. {more[n].price : n \in own} = {rows[n].price : n \in own}
    BY <1>7
  <2>. QED BY <1>3, <2>1
<1>9. \E p, q : /\ Least(own, p) /\ b.open = more[p].price /\ b.first = more[p].at
                /\ Greatest(own, q) /\ b.close = more[q].price /\ b.last = more[q].at
  <2>1. more[m] = rows[m] /\ more[k] = rows[k]
    BY <1>4, <1>7 DEF Least, Greatest
  <2>. QED BY <1>4, <2>1
<1>10. BarTells(b, more, i)
  BY <1>1, <1>3, <1>6, <1>8, <1>9 DEF BarTells
<1>. QED BY <1>10 DEF more

\* What Observe makes of a bar, one field after the other.
Observed(c, b, t) ==
  /\ c \in Bars /\ c.start = b.start /\ c.first = b.first /\ c.last = t.at /\ c.open = b.open
  /\ c.high = Larger(b.high, t.price) /\ c.low = Smaller(b.low, t.price) /\ c.close = t.price
  /\ c.turnover = b.turnover + t.price * t.size /\ c.trades = b.trades + 1
  /\ c.bought - c.sold = b.bought - b.sold + Flow(t)

\* The bar's fields.
LEMMA ObserveIs ==
  ASSUME NEW b \in Bars, NEW t, Typed(t)
  PROVE  Observed(Observe(b, t), b, t)
<1>. DEFINE c == Observe(b, t)
<1>1. /\ b.start \in Int /\ b.first \in Int /\ b.open \in Int /\ b.high \in Int /\ b.low \in Int
      /\ b.turnover \in Int /\ b.bought \in Int /\ b.sold \in Int /\ b.trades \in Int
      /\ t.at \in Int /\ t.price \in Int /\ t.size \in Int
  BY DEF Bars, Typed
<1>2. /\ c.start = b.start /\ c.first = b.first /\ c.last = t.at /\ c.open = b.open
      /\ c.high = Larger(b.high, t.price) /\ c.low = Smaller(b.low, t.price) /\ c.close = t.price
      /\ c.turnover = b.turnover + t.price * t.size /\ c.bought = b.bought + Bought(t)
      /\ c.sold = b.sold + t.size - Bought(t) /\ c.trades = b.trades + 1
  BY DEF Observe, Bars
<1>3. Bought(t) \in Int /\ Larger(b.high, t.price) \in Int /\ Smaller(b.low, t.price) \in Int
      /\ t.price * t.size \in Int
  BY <1>1 DEF Bought, Larger, Smaller
<1>4. c \in Bars
  <2>1. b.turnover + t.price * t.size \in Int /\ b.bought + Bought(t) \in Int
        /\ b.sold + t.size - Bought(t) \in Int /\ b.trades + 1 \in Int
    BY <1>1, <1>3
  <2>. QED BY <1>1, <1>3, <2>1 DEF Observe, Bars
<1>5. Bought(t) = (IF t.side = "Buy" THEN t.size ELSE 0)
  BY DEF Bought
<1>. HIDE DEF c
<1>6. c.bought - c.sold = b.bought - b.sold + Flow(t)
  BY <1>1, <1>2, <1>3, <1>5 DEF Flow
<1>7. Observed(c, b, t)
  BY <1>2, <1>4, <1>6 DEF Observed
<1>. QED BY <1>7 DEF c

\* One more trade of the interval.
LEMMA BarGrows ==
  ASSUME NEW rows, Tabled(rows), NEW t, Typed(t), NEW i \in Nat \ {0},
         NEW b, BarTells(b, rows, i), b.start = t.at \div i
  PROVE  BarTells(Observe(b, t), Append(rows, t), i)
<1>. DEFINE more == Append(rows, t)
            N == Len(rows)
            x == N + 1
            own == Positions(rows, i, b.start)
            all == Positions(more, i, b.start)
            c == Observe(b, t)
            old == {rows[n].price : n \in own}
            new == {more[n].price : n \in all}
<1>1. all = own \cup {x} /\ own \subseteq 1 .. N /\ x \notin own
  BY PositionsMore
<1>2. N \in Nat /\ more[x] = t /\ \A n \in 1 .. N : more[n] = rows[n] /\ Typed(rows[n])
  BY TableGrows DEF Tabled
<1>3. /\ b \in Bars /\ IsFiniteSet(own) /\ b.trades = Cardinality(own)
      /\ Greatest(old, b.high) /\ Least(old, b.low)
      /\ b.turnover = Total(Turnovers(rows), own) /\ b.bought - b.sold = Total(Flows(rows), own)
  BY DEF BarTells
<1>4. PICK m, k : /\ Least(own, m) /\ b.open = rows[m].price /\ b.first = rows[m].at
                  /\ Greatest(own, k) /\ b.close = rows[k].price /\ b.last = rows[k].at
  BY DEF BarTells
<1>5. Observed(c, b, t)
  BY <1>3, ObserveIs
<1>6. new = old \cup {t.price}
  <2>1. \A n \in own : more[n] = rows[n]
    BY <1>1, <1>2
  <2>. QED BY <1>1, <1>2, <2>1
<1>7. old \subseteq Int /\ t.price \in Int
  BY <1>1, <1>2 DEF Typed
<1>8. /\ Total(Turnovers(more), all) = Total(Turnovers(rows), own) + t.price * t.size
      /\ Total(Flows(more), all) = Total(Flows(rows), own) + Flow(t)
  <2>1. own \subseteq 1 .. Len(rows)
    BY <1>1
  <2>. HIDE DEF own
  <2>2. AmountsTell(rows, more, t, own, x)
    BY <2>1, AmountsMore
  <2>. QED BY <1>1, <2>2 DEF AmountsTell
<1>. HIDE DEF more, N, own, all, c, old, new
<1>9. Least(all, m) /\ m \in own /\ more[m] = rows[m]
  <2>1. m \in own /\ m <= x
    BY <1>1, <1>2, <1>4 DEF Least
  <2>. QED BY <1>1, <1>2, <1>4, <2>1 DEF Least
<1>10. Greatest(all, x)
  <2>1. \A n \in all : x >= n
    BY <1>1, <1>2
  <2>. QED BY <1>1, <2>1 DEF Greatest
<1>11. IsFiniteSet(all) /\ c.trades = Cardinality(all)
  BY <1>1, <1>3, <1>5, FS_AddElement DEF Observed
<1>12. Greatest(new, c.high)
  <2>1. b.high \in old /\ (\A y \in old : b.high >= y) /\ b.high \in Int
    BY <1>3, <1>7 DEF Greatest
  <2>2. c.high = IF b.high >= t.price THEN b.high ELSE t.price
    BY <1>5 DEF Observed, Larger
  <2>3. c.high \in new /\ \A y \in old \cup {t.price} : c.high >= y
    BY <1>6, <1>7, <2>1, <2>2
  <2>. QED BY <1>6, <2>3 DEF Greatest
<1>13. Least(new, c.low)
  <2>1. b.low \in old /\ (\A y \in old : b.low <= y) /\ b.low \in Int
    BY <1>3, <1>7 DEF Least
  <2>2. c.low = IF b.low <= t.price THEN b.low ELSE t.price
    BY <1>5 DEF Observed, Smaller
  <2>3. c.low \in new /\ \A y \in old \cup {t.price} : c.low <= y
    BY <1>6, <1>7, <2>1, <2>2
  <2>. QED BY <1>6, <2>3 DEF Least
<1>14. c.turnover = Total(Turnovers(more), all) /\ c.bought - c.sold = Total(Flows(more), all)
  BY <1>3, <1>5, <1>8 DEF Observed
<1>15. /\ c \in Bars /\ c.start = b.start /\ c.open = more[m].price /\ c.first = more[m].at
       /\ c.close = more[x].price /\ c.last = more[x].at
  BY <1>2, <1>4, <1>5, <1>9 DEF Observed
<1>16. BarTells(c, more, i)
  <2>1. Positions(more, i, c.start) = all
    BY <1>15 DEF all
  <2>. QED BY <1>9, <1>10, <1>11, <1>12, <1>13, <1>14, <1>15, <2>1 DEF BarTells, new
<1>. QED BY <1>16 DEF c, more

-----------------------------------------------------------------------------
\* The bars tell the rows: each its own, in their order, the last that of the last row.
BarsTell(bars, rows, i) ==
  /\ bars \in Seq(Bars)
  /\ \A k \in 1 .. Len(bars) : BarTells(bars[k], rows, i)
  /\ \A j, k \in 1 .. Len(bars) : j < k => bars[j].start < bars[k].start
  /\ {bars[k].start : k \in 1 .. Len(bars)} = {rows[n].at \div i : n \in DOMAIN rows}
  /\ Len(rows) # 0 => Len(bars) # 0 /\ bars[Len(bars)].start = rows[Len(rows)].at \div i

\* Of two times the later one is not in an earlier interval.
LEMMA Quotients ==
  ASSUME NEW m \in Nat \ {0}, NEW a \in Int, NEW b \in Int, a <= b
  PROVE  a \div m <= b \div m
<1>. DEFINE x == a \div m
            y == b \div m
<1>1. x \in Int /\ y \in Int /\ x * m <= a /\ b < y * m + m
  BY Multiples
<1>2. (y + 1) * m = y * m + 1 * m /\ x * m \in Int /\ y * m \in Int /\ 1 * m = m
  BY <1>1, Multiples
<1>3. y + 1 <= x => (y + 1) * m <= x * m
  BY <1>1, Multiples
<1>. HIDE DEF x, y
<1>4. x <= y
  BY <1>1, <1>2, <1>3
<1>. QED BY <1>4 DEF x, y

\* The time of the last row, if there is one, is not behind a time.
LastNotAfter(rows, t) == Len(rows) # 0 => rows[Len(rows)].at <= t.at

\* Bars of one row more.
LEMMA BarsMore ==
  ASSUME NEW rows, Tabled(rows), NEW t, Typed(t), LastNotAfter(rows, t), NEW i \in Nat \ {0},
         NEW bars, BarsTell(bars, rows, i)
  PROVE  BarsTell(Extend(bars, i, t), Append(rows, t), i)
<1>. DEFINE more == Append(rows, t)
            N == Len(rows)
            K == Len(bars)
            s == t.at \div i
            longer == Extend(bars, i, t)
            Starts(r, n) == {r[m].at \div i : m \in 1 .. n}
<1>1. /\ N \in Nat /\ DOMAIN rows = 1 .. N /\ DOMAIN more = 1 .. N + 1 /\ Len(more) = N + 1
      /\ more[N + 1] = t /\ \A n \in 1 .. N : more[n] = rows[n]
  BY TableGrows
<1>2. /\ bars \in Seq(Bars) /\ \A k \in 1 .. K : BarTells(bars[k], rows, i)
      /\ \A j, k \in 1 .. K : j < k => bars[j].start < bars[k].start
      /\ {bars[k].start : k \in 1 .. K} = Starts(rows, N)
      /\ N # 0 => K # 0 /\ bars[K].start = rows[N].at \div i
  BY <1>1 DEF BarsTell
<1>3. K \in Nat /\ \A k \in 1 .. K : bars[k] \in Bars /\ bars[k].start \in Int
  <2>1. K \in Nat /\ \A k \in 1 .. K : bars[k] \in Bars
    BY <1>2, LenProperties, ElementOfSeq
  <2>. QED BY <2>1 DEF Bars
<1>4. s \in Int
  BY Multiples DEF Typed
<1>5. N = 0 => K = 0
  <2>1. ASSUME N = 0, K # 0 PROVE FALSE
    <3>1. Starts(rows, N) = {}
      BY <2>1
    <3>2. bars[1].start \in {bars[k].start : k \in 1 .. K}
      BY <1>3, <2>1
    <3>. QED BY <1>2, <3>1, <3>2
  <2>. QED BY <2>1
<1>6. K # 0 => bars[K].start <= s
  <2>1. ASSUME N # 0 PROVE rows[N].at \div i <= s
    <3>1. rows[N].at \in Int /\ t.at \in Int /\ rows[N].at <= t.at
      BY <1>1, <2>1 DEF Tabled, Typed, LastNotAfter
    <3>. QED BY <3>1, Quotients
  <2>. QED BY <1>2, <1>5, <2>1
<1>7. \A k \in 1 .. K : bars[k].start <= s
  <2>1. ASSUME NEW k \in 1 .. K PROVE bars[k].start <= s
    <3>1. k = K \/ (k < K /\ K \in 1 .. K)
      BY <1>3
    <3>. QED BY <1>2, <1>3, <1>4, <1>6, <3>1
  <2>. QED BY <2>1
<1>8. Starts(more, N + 1) = Starts(rows, N) \cup {s}
  <2>1. \A n : n \in 1 .. N + 1 <=> n \in 1 .. N \/ n = N + 1
    BY <1>1
  <2>. QED BY <1>1, <2>1
<1>. HIDE DEF more, N, s, Starts
<1>9. CASE K # 0 /\ bars[K].start = s
  <2>1. longer = [bars EXCEPT ![K] = Observe(@, t)]
    <3>1. bars # <<>> /\ Last(bars) = bars[K]
      BY <1>2, <1>3, <1>9 DEF Last
    <3>. QED BY <1>9, <3>1 DEF Extend, InCurrent, s
  <2>2. /\ BarTells(Observe(bars[K], t), more, i) /\ Observe(bars[K], t).start = s
        /\ Observe(bars[K], t) \in Bars
    <3>1. K \in 1 .. K
      BY <1>3, <1>9
    <3>2. Observed(Observe(bars[K], t), bars[K], t)
      BY <1>3, <3>1, ObserveIs
    <3>3. BarTells(Observe(bars[K], t), more, i)
      BY <1>2, <1>9, <3>1, BarGrows DEF s, more
    <3>. QED BY <1>9, <3>2, <3>3 DEF Observed
  <2>3. DOMAIN bars = 1 .. K /\ bars \in [1 .. K -> Bars]
    BY <1>2, LenProperties
  <2>. DEFINE new == Observe(bars[K], t)
  <2>. HIDE DEF new, longer
  <2>4. /\ longer \in [1 .. K -> Bars] /\ longer[K] = new /\ K \in 1 .. K
        /\ \A k \in 1 .. K : k # K => longer[k] = bars[k]
    BY <1>3, <1>9, <2>1, <2>2, <2>3 DEF new
  <2>5. longer \in Seq(Bars) /\ Len(longer) = K
    BY <1>3, <2>4, SeqDef, LenProperties
  <2>6. \A k \in 1 .. K : longer[k].start = bars[k].start
    BY <1>9, <2>2, <2>4 DEF new
  <2>7. \A k \in 1 .. K : BarTells(longer[k], more, i)
    <3>1. ASSUME NEW k \in 1 .. K, k # K PROVE BarTells(bars[k], more, i)
      <4>1. bars[k].start # s
        BY <1>2, <1>3, <1>9, <2>4, <3>1
      <4>2. BarTells(bars[k], rows, i)
        BY <1>2
      <4>. QED BY <4>1, <4>2, BarStays DEF s, more
    <3>. QED BY <2>2, <2>4, <3>1 DEF new
  <2>8. \A j, k \in 1 .. K : j < k => longer[j].start < longer[k].start
    BY <1>2, <2>6
  <2>9. {longer[k].start : k \in 1 .. K} = Starts(more, N + 1)
    <3>1. {longer[k].start : k \in 1 .. K} = {bars[k].start : k \in 1 .. K}
      BY <2>6
    <3>2. s \in {bars[k].start : k \in 1 .. K}
      BY <1>9, <2>4
    <3>. QED BY <1>2, <1>8, <3>1, <3>2
  <2>10. Len(more) # 0 /\ longer[K].start = more[Len(more)].at \div i
    BY <1>1, <1>9, <2>4, <2>6 DEF s
  <2>11. BarsTell(longer, more, i)
    BY <1>1, <1>9, <2>5, <2>7, <2>8, <2>9, <2>10 DEF BarsTell, Starts
  <2>. QED BY <2>11 DEF longer, more
<1>10. CASE ~ (K # 0 /\ bars[K].start = s)
  <2>. DEFINE new == FirstTrade(i, t)
  <2>1. longer = Append(bars, new)
    <3>1. bars = <<>> \/ Last(bars) = bars[K]
      BY <1>2, <1>3 DEF Last
    <3>2. bars = <<>> <=> K = 0
      BY <1>2, EmptySeq
    <3>. QED BY <1>10, <3>1, <3>2 DEF Extend, InCurrent, s
  <2>2. \A k \in 1 .. K : bars[k].start < s
    <3>1. ASSUME NEW k \in 1 .. K PROVE bars[k].start < s
      <4>1. k = K \/ (k < K /\ K \in 1 .. K)
        BY <1>3
      <4>. QED BY <1>2, <1>3, <1>4, <1>7, <1>10, <3>1, <4>1
    <3>. QED BY <3>1
  <2>3. BarTells(new, more, i) /\ new.start = s /\ new \in Bars
    <3>1. \A n \in 1 .. N : rows[n].at \div i # s
      <4>1. ASSUME NEW n \in 1 .. N PROVE rows[n].at \div i # s
        <5>1. rows[n].at \div i \in Starts(rows, N)
          BY DEF Starts
        <5>2. PICK k \in 1 .. K : bars[k].start = rows[n].at \div i
          BY <1>2, <5>1
        <5>. QED BY <1>3, <1>4, <2>2, <5>2
      <4>. QED BY <4>1
    <3>2. Positions(rows, i, t.at \div i) = {}
      BY <1>1, <3>1 DEF Positions, s
    <3>3. BarTells(new, more, i)
      BY <3>2, BarOpens DEF more
    <3>. QED BY <3>3 DEF BarTells, FirstTrade, s
  <2>. HIDE DEF new, longer
  <2>4. /\ longer \in Seq(Bars) /\ Len(longer) = K + 1 /\ longer[K + 1] = new
        /\ \A k \in 1 .. K : longer[k] = bars[k]
    BY <1>2, <2>1, <2>3, AppendProperties
  <2>5. \A k \in 1 .. K + 1 : k = K + 1 \/ k \in 1 .. K
    BY <1>3
  <2>6. \A k \in 1 .. K + 1 : BarTells(longer[k], more, i)
    <3>1. ASSUME NEW k \in 1 .. K PROVE BarTells(bars[k], more, i)
      <4>1. bars[k].start # s
        BY <1>3, <1>4, <2>2
      <4>2. BarTells(bars[k], rows, i)
        BY <1>2
      <4>. QED BY <4>1, <4>2, BarStays DEF s, more
    <3>. QED BY <2>3, <2>4, <2>5, <3>1
  <2>7. \A j, k \in 1 .. K + 1 : j < k => longer[j].start < longer[k].start
    <3>1. ASSUME NEW j \in 1 .. K + 1, NEW k \in 1 .. K + 1, j < k
          PROVE  longer[j].start < longer[k].start
      <4>1. j \in 1 .. K
        BY <1>3, <3>1
      <4>2. CASE k = K + 1
        BY <2>2, <2>3, <2>4, <4>1, <4>2
      <4>3. CASE k \in 1 .. K
        BY <1>2, <2>4, <3>1, <4>1, <4>3
      <4>. QED BY <2>5, <4>2, <4>3
    <3>. QED BY <3>1
  <2>8. {longer[k].start : k \in 1 .. K + 1} = Starts(more, N + 1)
    <3>1. \A k : k \in 1 .. K + 1 <=> k \in 1 .. K \/ k = K + 1
      BY <1>3
    <3>2. {longer[k].start : k \in 1 .. K + 1} = {bars[k].start : k \in 1 .. K} \cup {s}
      BY <2>3, <2>4, <3>1
    <3>. QED BY <1>2, <1>8, <3>2
  <2>9. K + 1 # 0 /\ longer[K + 1].start = more[Len(more)].at \div i
    BY <1>1, <1>3, <2>3, <2>4 DEF s
  <2>10. BarsTell(longer, more, i)
    BY <1>1, <2>4, <2>6, <2>7, <2>8, <2>9 DEF BarsTell, Starts
  <2>. QED BY <2>10 DEF longer, more
<1>. QED BY <1>9, <1>10

\* What the longest gap tells of the minutes with trades, the last of them top.
GapsTell(longest, busy, top, count) ==
  /\ longest \in Nat /\ top \in Int /\ top >= -1 /\ count \in Nat /\ busy \subseteq 0 .. top
  /\ top = -1 \/ top \in busy
  /\ longest + count <= top + 1
  /\ \A m, k \in Nat : longest <= k /\ m + k <= top => (m .. m + k) \cap busy # {}
  /\ \A k \in Nat : longest > k => \E m \in Nat : m + k < top /\ (m .. m + k) \cap busy = {}

\* One minute more.
LEMMA GapsMore ==
  ASSUME NEW longest, NEW busy, NEW top, NEW count, GapsTell(longest, busy, top, count),
         NEW s \in Int, s > top
  PROVE  GapsTell(Larger(longest, s - (top + 1)), busy \cup {s}, s, count + 1)
<1>. DEFINE g == s - (top + 1)
            l == Larger(longest, g)
            all == busy \cup {s}
<1>1. /\ longest \in Nat /\ top \in Int /\ top >= -1 /\ count \in Nat /\ busy \subseteq 0 .. top
      /\ top = -1 \/ top \in busy
      /\ longest + count <= top + 1
      /\ \A m, k \in Nat : longest <= k /\ m + k <= top => (m .. m + k) \cap busy # {}
      /\ \A k \in Nat : longest > k => \E m \in Nat : m + k < top /\ (m .. m + k) \cap busy = {}
  BY DEF GapsTell
<1>2. g \in Nat /\ s = top + 1 + g
  BY <1>1
<1>3. l \in Nat /\ l >= longest /\ l >= g /\ (l = longest \/ l = g)
  BY <1>1, <1>2 DEF Larger
<1>. HIDE DEF g, l
<1>4. all \subseteq 0 .. s /\ s \in all
  BY <1>1
<1>5. l + (count + 1) <= s + 1
  BY <1>1, <1>2, <1>3
<1>6. ASSUME NEW m \in Nat, NEW k \in Nat, l <= k, m + k <= s PROVE (m .. m + k) \cap all # {}
  <2>1. CASE m + k <= top
    <3>1. longest <= k
      BY <1>1, <1>3, <1>6
    <3>2. (m .. m + k) \cap busy # {}
      BY <1>1, <2>1, <3>1
    <3>. QED BY <3>2
  <2>2. CASE m + k = s
    <3>1. s \in m .. m + k
      BY <2>2
    <3>. QED BY <1>4, <3>1
  <2>3. CASE m + k > top /\ m + k < s
    <3>1. m <= top /\ top <= m + k
      BY <1>1, <1>2, <1>3, <1>6, <2>3
    <3>2. top \in m .. m + k /\ top # -1
      BY <1>1, <3>1
    <3>. QED BY <1>1, <3>2
  <2>. QED BY <1>1, <1>6, <2>1, <2>2, <2>3
<1>7. ASSUME NEW k \in Nat, l > k PROVE \E m \in Nat : m + k < s /\ (m .. m + k) \cap all = {}
  <2>1. CASE longest > k
    <3>1. PICK m \in Nat : m + k < top /\ (m .. m + k) \cap busy = {}
      BY <1>1, <2>1
    <3>2. m + k < s /\ s \notin m .. m + k
      BY <1>1, <3>1
    <3>. QED BY <3>1, <3>2
  <2>2. CASE g > k
    <3>. DEFINE m == top + 1
    <3>1. m \in Nat /\ m + k < s
      BY <1>1, <1>2, <2>2
    <3>2. \A x \in m .. m + k : x \notin 0 .. top /\ x # s
      BY <1>1, <3>1
    <3>3. (m .. m + k) \cap all = {}
      BY <1>1, <3>2
    <3>. HIDE DEF m
    <3>. QED BY <3>1, <3>3
  <2>. QED BY <1>1, <1>3, <1>7, <2>1, <2>2
<1>. HIDE DEF all
<1>8. GapsTell(l, all, s, count + 1)
  <2>1. \A m, k \in Nat : l <= k /\ m + k <= s => (m .. m + k) \cap all # {}
    BY <1>6
  <2>2. \A k \in Nat : l > k => \E m \in Nat : m + k < s /\ (m .. m + k) \cap all = {}
    BY <1>7
  <2>3. s \in Int /\ s >= -1 /\ count + 1 \in Nat
    BY <1>1
  <2>. QED BY <1>3, <1>4, <1>5, <2>1, <2>2, <2>3 DEF GapsTell
<1>. QED BY <1>8 DEF l, g, all

-----------------------------------------------------------------------------
\* The rows are of the day, in order, and none repeats the one before.
Arranged(rows) ==
  /\ \A n \in DOMAIN rows : rows[n].at \in 0 .. DaySeconds - 1
  /\ \A n \in 2 .. Len(rows) : rows[n - 1].at <= rows[n].at /\ rows[n - 1].id # rows[n].id

\* One row more.
LEMMA ArrangedMore ==
  ASSUME NEW rows, Tabled(rows), NEW t, Typed(t)
  PROVE  Arranged(Append(rows, t)) <=>
           /\ Arranged(rows) /\ t.at \in 0 .. DaySeconds - 1
           /\ Len(rows) # 0 => rows[Len(rows)].at <= t.at /\ rows[Len(rows)].id # t.id
<1>. DEFINE more == Append(rows, t)
            N == Len(rows)
<1>1. /\ N \in Nat /\ DOMAIN rows = 1 .. N /\ DOMAIN more = 1 .. N + 1 /\ Len(more) = N + 1
      /\ more[N + 1] = t /\ \A n \in 1 .. N : more[n] = rows[n]
  BY TableGrows
<1>. HIDE DEF more, N
<1>. DEFINE Follows(r, n) == r[n - 1].at <= r[n].at /\ r[n - 1].id # r[n].id
<1>2. \A n : n \in 1 .. N + 1 <=> n \in 1 .. N \/ n = N + 1
  BY <1>1
<1>3. \A n : n \in 2 .. N + 1 <=> n \in 2 .. N \/ (n = N + 1 /\ N # 0)
  BY <1>1
<1>4. \A n \in 2 .. N : Follows(more, n) <=> Follows(rows, n)
  <2>1. \A n \in 2 .. N : n \in 1 .. N /\ n - 1 \in 1 .. N
    BY <1>1
  <2>. QED BY <1>1, <2>1
<1>5. N # 0 => (Follows(more, N + 1) <=> rows[N].at <= t.at /\ rows[N].id # t.id)
  <2>1. N # 0 => N \in 1 .. N /\ (N + 1) - 1 = N
    BY <1>1
  <2>. QED BY <1>1, <2>1
<1>6. (\A n \in 1 .. N + 1 : more[n].at \in 0 .. DaySeconds - 1)
        <=> (\A n \in 1 .. N : rows[n].at \in 0 .. DaySeconds - 1) /\ t.at \in 0 .. DaySeconds - 1
  BY <1>1, <1>2
<1>. HIDE DEF Follows
<1>7. (\A n \in 2 .. N + 1 : Follows(more, n))
        <=> (\A n \in 2 .. N : Follows(rows, n)) /\ (N # 0 => Follows(more, N + 1))
  BY <1>3, <1>4
<1>8. Arranged(more) <=> /\ \A n \in 1 .. N + 1 : more[n].at \in 0 .. DaySeconds - 1
                         /\ \A n \in 2 .. N + 1 : Follows(more, n)
  BY <1>1 DEF Arranged, Follows
<1>9. Arranged(rows) <=> /\ \A n \in 1 .. N : rows[n].at \in 0 .. DaySeconds - 1
                         /\ \A n \in 2 .. N : Follows(rows, n)
  BY <1>1 DEF Arranged, Follows, N
<1>10. Arranged(more) <=> /\ Arranged(rows) /\ t.at \in 0 .. DaySeconds - 1
                          /\ N # 0 => rows[N].at <= t.at /\ rows[N].id # t.id
  BY <1>5, <1>6, <1>7, <1>8, <1>9
<1>. QED BY <1>10 DEF more, N

Passes(ids) ==
  [failed : BOOLEAN, at : Int, id : ids, seconds : Seq(Bars), minutes : Seq(Bars), longest : Int]

Minute(bars) == IF Len(bars) = 0 THEN -1 ELSE bars[Len(bars)].start

\* What the pass knows behind some rows.
PassTells(acc, rows) ==
  \/ acc.failed = TRUE /\ ~ Arranged(rows)
  \/ /\ acc.failed = FALSE /\ Arranged(rows)
     /\ Len(rows) # 0 => acc.at = rows[Len(rows)].at /\ acc.id = rows[Len(rows)].id
     /\ BarsTell(acc.seconds, rows, 1) /\ BarsTell(acc.minutes, rows, SecondsPerMinute)
     /\ GapsTell(acc.longest, Busy(rows), Minute(acc.minutes), Len(acc.minutes))

\* The last of some bars.
LEMMA LastBar ==
  ASSUME NEW bars \in Seq(Bars)
  PROVE  /\ Len(bars) \in Nat /\ (bars = <<>> <=> Len(bars) = 0)
         /\ Len(bars) # 0 => Last(bars) = bars[Len(bars)] /\ bars[Len(bars)] \in Bars
<1>1. Len(bars) \in Nat /\ (bars = <<>> <=> Len(bars) = 0)
  BY LenProperties, EmptySeq
<1>2. Len(bars) # 0 => bars[Len(bars)] \in Bars
  <2>1. Len(bars) # 0 => Len(bars) \in 1 .. Len(bars)
    BY <1>1
  <2>. QED BY <2>1, ElementOfSeq
<1>. QED BY <1>1, <1>2 DEF Last

\* Bars of a pass stay bars.
LEMMA ExtendTyped ==
  ASSUME NEW bars \in Seq(Bars), NEW t, Typed(t), NEW i \in Nat \ {0}
  PROVE  Extend(bars, i, t) \in Seq(Bars)
<1>1. /\ Len(bars) \in Nat /\ (bars = <<>> <=> Len(bars) = 0)
      /\ Len(bars) # 0 => Last(bars) = bars[Len(bars)] /\ bars[Len(bars)] \in Bars
  BY LastBar
<1>2. CASE InCurrent(bars, i, t)
  <2>1. Observe(bars[Len(bars)], t) \in Bars
    <3>1. bars[Len(bars)] \in Bars
      BY <1>1, <1>2 DEF InCurrent
    <3>. QED BY <3>1, ObserveIs DEF Observed
  <2>2. bars \in [1 .. Len(bars) -> Bars]
    BY LenProperties
  <2>3. [bars EXCEPT ![Len(bars)] = Observe(@, t)] \in [1 .. Len(bars) -> Bars]
    BY <2>1, <2>2
  <2>. QED BY <1>1, <1>2, <2>3, SeqDef DEF Extend
<1>3. CASE ~ InCurrent(bars, i, t)
  <2>1. FirstTrade(i, t) \in Bars
    <3>1. t.at \div i \in Int
      BY Multiples DEF Typed
    <3>2. t.price * t.size \in Int
      BY DEF Typed
    <3>. QED BY <3>1, <3>2 DEF FirstTrade, Bars, Typed, Bought
  <2>. QED BY <1>3, <2>1, AppendProperties DEF Extend
<1>. QED BY <1>2, <1>3

\* The pass keeps its types.
LEMMA RowTyped ==
  ASSUME NEW ids, NEW acc \in Passes(ids), NEW t, Typed(t), t.id \in ids
  PROVE  Row(acc, t) \in Passes(ids)
<1>1. SecondsPerMinute \in Nat \ {0} /\ 1 \in Nat \ {0}
  BY TradeBarsAssumption
<1>2. /\ acc.seconds \in Seq(Bars) /\ acc.minutes \in Seq(Bars) /\ acc.longest \in Int
  BY DEF Passes
<1>3. Extend(acc.seconds, 1, t) \in Seq(Bars) /\ Extend(acc.minutes, SecondsPerMinute, t) \in Seq(Bars)
  BY <1>1, <1>2, ExtendTyped
<1>4. GapBefore(acc.minutes, t) \in Int
  <2>1. t.at \div SecondsPerMinute \in Int
    BY <1>1, Multiples DEF Typed
  <2>2. acc.minutes # <<>> => Last(acc.minutes).start \in Int
    <3>1. acc.minutes # <<>> => Last(acc.minutes) \in Bars
      BY <1>2, LastBar
    <3>. QED BY <3>1 DEF Bars
  <2>. QED BY <2>1, <2>2 DEF GapBefore
<1>5. Larger(acc.longest, GapBefore(acc.minutes, t)) \in Int
  BY <1>2, <1>4 DEF Larger
<1>6. CASE acc.failed \/ Rejected(acc, t)
  <2>1. Row(acc, t) = [acc EXCEPT !.failed = TRUE]
    BY <1>6 DEF Row
  <2>. QED BY <2>1 DEF Passes
<1>7. CASE ~ (acc.failed \/ Rejected(acc, t))
  <2>1. Row(acc, t) = [failed |-> FALSE, at |-> t.at, id |-> t.id, seconds |-> Extend(acc.seconds, 1, t),
                       minutes |-> Extend(acc.minutes, SecondsPerMinute, t),
                       longest |-> Larger(acc.longest, GapBefore(acc.minutes, t))]
    BY <1>7 DEF Row
  <2>. QED BY <1>3, <1>5, <2>1 DEF Passes, Typed
<1>. QED BY <1>6, <1>7

\* The gap that a trade ends is counted.
LEMMA GapTaken ==
  ASSUME NEW rows, Tabled(rows), NEW t, Typed(t), t.at >= 0, LastNotAfter(rows, t), NEW longest, NEW bars,
         BarsTell(bars, rows, SecondsPerMinute),
         GapsTell(longest, Busy(rows), Minute(bars), Len(bars))
  PROVE  LET longer == Extend(bars, SecondsPerMinute, t) IN
         GapsTell(Larger(longest, GapBefore(bars, t)), Busy(Append(rows, t)), Minute(longer), Len(longer))
<1>. DEFINE more == Append(rows, t)
            N == Len(rows)
            K == Len(bars)
            i == SecondsPerMinute
            s == t.at \div i
            longer == Extend(bars, i, t)
            top == Minute(bars)
<1>1. i \in Nat \ {0}
  BY TradeBarsAssumption
<1>2. /\ N \in Nat /\ DOMAIN rows = 1 .. N /\ DOMAIN more = 1 .. N + 1 /\ Len(more) = N + 1
      /\ more[N + 1] = t /\ \A n \in 1 .. N : more[n] = rows[n]
  BY TableGrows
<1>3. Busy(more) = Busy(rows) \cup {s}
  <2>1. \A n : n \in 1 .. N + 1 <=> n \in 1 .. N \/ n = N + 1
    BY <1>2
  <2>. HIDE DEF more, N, s
  <2>2. Busy(more) = {more[n].at \div i : n \in 1 .. N + 1} /\ Busy(rows) = {rows[n].at \div i : n \in 1 .. N}
    BY <1>2 DEF Busy
  <2>. HIDE DEF i
  <2>. QED BY <1>2, <2>1, <2>2 DEF s
<1>4. bars \in Seq(Bars) /\ BarsTell(bars, rows, i) /\ BarsTell(longer, more, i)
  <2>1. bars \in Seq(Bars) /\ BarsTell(bars, rows, i)
    BY DEF BarsTell
  <2>. HIDE DEF i
  <2>. QED BY <1>1, <2>1, BarsMore
<1>5. /\ K \in Nat /\ (bars = <<>> <=> K = 0)
      /\ K # 0 => Last(bars) = bars[K] /\ bars[K] \in Bars
  BY <1>4, LastBar
<1>6. s \in Int /\ s >= 0
  <2>1. s \in Int /\ 0 \div i = 0
    BY <1>1, Multiples DEF Typed
  <2>2. 0 \div i <= t.at \div i
    BY <1>1, Quotients DEF Typed
  <2>. QED BY <2>1, <2>2
<1>7. Minute(longer) = s
  <2>1. Len(longer) # 0 /\ longer[Len(longer)].start = more[Len(more)].at \div i
    BY <1>2, <1>4 DEF BarsTell
  <2>. QED BY <1>2, <2>1 DEF Minute
<1>8. top \in Int /\ (K # 0 => top = bars[K].start) /\ (K = 0 => top = -1)
  BY <1>5 DEF Minute, Bars
<1>9. CASE InCurrent(bars, i, t)
  <2>1. K # 0 /\ bars[K].start = s /\ top = s
    BY <1>5, <1>8, <1>9 DEF InCurrent
  <2>2. Len(longer) = K
    <3>1. longer = [bars EXCEPT ![K] = Observe(@, t)]
      BY <1>9 DEF Extend
    <3>2. bars \in [1 .. K -> Bars] /\ DOMAIN bars = 1 .. K
      BY <1>4, LenProperties
    <3>3. DOMAIN longer = 1 .. K
      BY <3>1, <3>2
    <3>4. longer \in Seq(Bars)
      BY <1>1, <1>4, ExtendTyped
    <3>. QED BY <1>5, <3>3, <3>4, LenProperties
  <2>3. s \in Busy(rows)
    BY <1>6, <2>1 DEF GapsTell
  <2>4. Larger(longest, GapBefore(bars, t)) = longest
    <3>1. GapBefore(bars, t) = 0
      BY <1>9 DEF GapBefore
    <3>. QED BY <3>1 DEF Larger, GapsTell
  <2>5. Busy(more) = Busy(rows)
    BY <1>3, <2>3
  <2>. QED BY <1>7, <2>1, <2>2, <2>4, <2>5
<1>10. CASE ~ InCurrent(bars, i, t)
  <2>1. Len(longer) = K + 1
    <3>1. longer = Append(bars, FirstTrade(i, t))
      BY <1>10 DEF Extend
    <3>2. FirstTrade(i, t) \in Bars
      <4>1. t.price * t.size \in Int
        BY DEF Typed
      <4>. QED BY <1>6, <4>1 DEF FirstTrade, Bars, Typed, Bought
    <3>. QED BY <1>4, <3>1, <3>2, AppendProperties
  <2>2. s > top
    <3>1. CASE K = 0
      BY <1>6, <1>8, <3>1
    <3>2. CASE K # 0
      <4>1. bars[K].start # s
        BY <1>5, <1>10, <3>2 DEF InCurrent
      <4>2. N # 0 /\ bars[K].start = rows[N].at \div i
        <5>1. N # 0
          <6>1. SUFFICES ASSUME N = 0 PROVE FALSE
            OBVIOUS
          <6>2. {bars[k].start : k \in 1 .. K} = {rows[n].at \div i : n \in DOMAIN rows}
            BY <1>4 DEF BarsTell
          <6>3. DOMAIN rows = {}
            BY <1>2, <6>1
          <6>4. K \in 1 .. K
            BY <1>5, <3>2
          <6>. HIDE DEF K, i
          <6>5. {bars[k].start : k \in 1 .. K} = {}
            BY <6>2, <6>3
          <6>. QED BY <6>4, <6>5
        <5>. QED BY <1>4, <5>1 DEF BarsTell
      <4>3. rows[N].at \in Int /\ rows[N].at <= t.at /\ t.at \in Int
        BY <1>2, <4>2 DEF Tabled, Typed, LastNotAfter
      <4>4. rows[N].at \div i <= s
        BY <1>1, <4>3, Quotients
      <4>. QED BY <1>6, <1>8, <3>2, <4>1, <4>2, <4>4
    <3>. QED BY <3>1, <3>2
  <2>3. GapBefore(bars, t) = s - (top + 1)
    BY <1>5, <1>6, <1>8, <1>10 DEF GapBefore
  <2>. HIDE DEF top, s, K, longer, more
  <2>4. GapsTell(Larger(longest, s - (top + 1)), Busy(rows) \cup {s}, s, K + 1)
    <3>1. GapsTell(longest, Busy(rows), top, K)
      BY DEF top, K
    <3>. QED BY <1>6, <2>2, <3>1, GapsMore
  <2>5. GapsTell(Larger(longest, GapBefore(bars, t)), Busy(more), Minute(longer), Len(longer))
    BY <1>3, <1>7, <2>1, <2>3, <2>4
  <2>. QED BY <2>5 DEF longer, more
<1>. QED BY <1>9, <1>10

\* The pass tells of one row more.
LEMMA PassMore ==
  ASSUME NEW rows, Tabled(rows), NEW t, Typed(t), NEW ids, NEW acc \in Passes(ids), PassTells(acc, rows)
  PROVE  PassTells(Row(acc, t), Append(rows, t))
<1>. DEFINE more == Append(rows, t)
            N == Len(rows)
            next == Row(acc, t)
<1>1. /\ N \in Nat /\ DOMAIN rows = 1 .. N /\ DOMAIN more = 1 .. N + 1 /\ Len(more) = N + 1
      /\ more[N + 1] = t
  BY TableGrows
<1>2. Arranged(more) <=> /\ Arranged(rows) /\ t.at \in 0 .. DaySeconds - 1
                         /\ N # 0 => rows[N].at <= t.at /\ rows[N].id # t.id
  BY ArrangedMore
<1>3. CASE acc.failed = TRUE
  <2>1. next.failed = TRUE
    BY <1>3 DEF Row, Passes
  <2>2. ~ Arranged(rows)
    BY <1>3 DEF PassTells
  <2>. QED BY <1>2, <2>1, <2>2 DEF PassTells
<1>4. CASE acc.failed = FALSE
  <2>1. /\ Arranged(rows) /\ (N # 0 => acc.at = rows[N].at /\ acc.id = rows[N].id)
        /\ BarsTell(acc.seconds, rows, 1) /\ BarsTell(acc.minutes, rows, SecondsPerMinute)
        /\ GapsTell(acc.longest, Busy(rows), Minute(acc.minutes), Len(acc.minutes))
    BY <1>4 DEF PassTells
  <2>2. acc.seconds # <<>> <=> N # 0
    <3>1. acc.seconds \in Seq(Bars)
      BY DEF Passes
    <3>2. Len(acc.seconds) \in Nat /\ (acc.seconds = <<>> <=> Len(acc.seconds) = 0)
      BY <3>1, LastBar
    <3>3. N # 0 => Len(acc.seconds) # 0
      BY <2>1 DEF BarsTell
    <3>4. N = 0 => Len(acc.seconds) = 0
      <4>1. SUFFICES ASSUME N = 0, Len(acc.seconds) # 0 PROVE FALSE
        OBVIOUS
      <4>. DEFINE bars == acc.seconds
      <4>2. {bars[k].start : k \in 1 .. Len(bars)} = {rows[n].at \div 1 : n \in DOMAIN rows}
        BY <2>1 DEF BarsTell
      <4>3. DOMAIN rows = {} /\ 1 \in 1 .. Len(bars)
        BY <1>1, <3>2, <4>1
      <4>. HIDE DEF bars
      <4>4. {bars[k].start : k \in 1 .. Len(bars)} = {}
        BY <4>2, <4>3
      <4>. QED BY <4>3, <4>4
    <3>. QED BY <3>2, <3>3, <3>4
  <2>3. N # 0 => rows[N].at \in Int /\ t.at \in Int
    BY <1>1 DEF Tabled, Typed
  <2>4. Rejected(acc, t) <=> ~ Arranged(more)
    BY <1>2, <2>1, <2>2, <2>3 DEF Rejected
  <2>5. CASE Rejected(acc, t)
    <3>1. next.failed = TRUE
      BY <2>5 DEF Row, Passes
    <3>. QED BY <2>4, <2>5, <3>1 DEF PassTells
  <2>6. CASE ~ Rejected(acc, t)
    <3>1. next = [failed |-> FALSE, at |-> t.at, id |-> t.id, seconds |-> Extend(acc.seconds, 1, t),
                  minutes |-> Extend(acc.minutes, SecondsPerMinute, t),
                  longest |-> Larger(acc.longest, GapBefore(acc.minutes, t))]
      BY <1>4, <2>6 DEF Row
    <3>2. LastNotAfter(rows, t) /\ t.at >= 0 /\ 1 \in Nat \ {0} /\ SecondsPerMinute \in Nat \ {0}
      BY <1>2, <2>4, <2>6, TradeBarsAssumption DEF LastNotAfter
    <3>3. BarsTell(Extend(acc.seconds, 1, t), more, 1)
      BY <2>1, <3>2, BarsMore
    <3>4. BarsTell(Extend(acc.minutes, SecondsPerMinute, t), more, SecondsPerMinute)
      BY <2>1, <3>2, BarsMore
    <3>5. GapsTell(Larger(acc.longest, GapBefore(acc.minutes, t)), Busy(more),
                   Minute(Extend(acc.minutes, SecondsPerMinute, t)),
                   Len(Extend(acc.minutes, SecondsPerMinute, t)))
      BY <2>1, <3>2, GapTaken
    <3>. HIDE DEF next, more
    <3>6. /\ next.failed = FALSE /\ next.at = t.at /\ next.id = t.id
          /\ next.seconds = Extend(acc.seconds, 1, t) /\ next.minutes = Extend(acc.minutes, SecondsPerMinute, t)
          /\ next.longest = Larger(acc.longest, GapBefore(acc.minutes, t))
      BY <3>1
    <3>7. Len(more) # 0 => next.at = more[Len(more)].at /\ next.id = more[Len(more)].id
      BY <1>1, <3>6
    <3>8. Arranged(more)
      BY <2>4, <2>6
    <3>9. PassTells(next, more)
      BY <3>3, <3>4, <3>5, <3>6, <3>7, <3>8 DEF PassTells
    <3>. QED BY <3>9 DEF next, more
  <2>. QED BY <2>5, <2>6
<1>5. acc.failed = TRUE \/ acc.failed = FALSE
  BY DEF Passes
<1>. QED BY <1>3, <1>4, <1>5

NothingScanned == [failed |-> FALSE, at |-> 0, id |-> 0, seconds |-> <<>>, minutes |-> <<>>, longest |-> 0]

\* The first rows.
Leading(rows, n) == [m \in 1 .. n |-> rows[m]]

\* One of them more.
LEMMA LeadingMore ==
  ASSUME NEW rows, Tabled(rows), NEW n \in 0 .. Len(rows) - 1, Tabled(Leading(rows, n))
  PROVE  Leading(rows, n + 1) = Append(Leading(rows, n), rows[n + 1]) /\ Typed(rows[n + 1])
<1>. DEFINE old == Leading(rows, n)
            more == Append(old, rows[n + 1])
<1>1. Len(rows) \in Nat /\ n + 1 \in 1 .. Len(rows)
  BY LenProperties DEF Tabled
<1>2. Typed(rows[n + 1])
  BY <1>1 DEF Tabled
<1>3. Len(old) = n
  <2>1. DOMAIN old = 1 .. n /\ old \in Seq(Range(old))
    BY DEF Leading, Tabled
  <2>. QED BY <2>1, LenProperties
<1>4. /\ DOMAIN more = 1 .. n + 1 /\ more[n + 1] = rows[n + 1]
      /\ \A m \in 1 .. n : more[m] = old[m]
  BY <1>2, <1>3, TableGrows
<1>5. more = [m \in 1 .. n + 1 |-> more[m]]
  <2>1. more \in Seq(Range(more))
    BY <1>2, TableGrows DEF Tabled
  <2>. HIDE DEF more
  <2>2. more = [m \in 1 .. Len(more) |-> more[m]] /\ DOMAIN more = 1 .. Len(more) /\ Len(more) \in Nat
    BY <2>1, LenProperties
  <2>. QED BY <1>4, <2>2
<1>6. \A m \in 1 .. n : more[m] = rows[m]
  BY <1>4 DEF Leading
<1>. HIDE DEF more
<1>7. \A m \in 1 .. n + 1 : m = n + 1 \/ m \in 1 .. n
  OBVIOUS
<1>8. \A m \in 1 .. n + 1 : more[m] = rows[m]
  BY <1>4, <1>6, <1>7
<1>9. more = Leading(rows, n + 1)
  BY <1>5, <1>8 DEF Leading
<1>. QED BY <1>2, <1>9 DEF more

\* The rows are taken one after the other.
LEMMA ScanRuns ==
  ASSUME NEW rows, Tabled(rows), NEW ids, 0 \in ids, \A n \in 1 .. Len(rows) : rows[n].id \in ids
  PROVE  \E f \in [0 .. Len(rows) -> Passes(ids)] :
            /\ f[0] = NothingScanned /\ Scanned(rows) = f[Len(rows)]
            /\ \A i \in 1 .. Len(rows) : f[i] = Row(f[i - 1], rows[i])
<1>. DEFINE n == Len(rows)
            V == Passes(ids)
            G == [p \in (1 .. n) \X V |-> Row(p[2], rows[p[1]])]
            Def(f) == [t \in SUBSET (1 .. n) |-> IF t = {} THEN NothingScanned
                                                 ELSE Row(f[t \ {Max(t)}], rows[Max(t)])]
            iter == CHOOSE f : f = Def(f)
<1>1. n \in Nat /\ DOMAIN rows = 1 .. n
  BY LenProperties DEF Tabled
<1>2. Scanned(rows) = iter[1 .. n]
  BY <1>1 DEF Scanned, FoldLeft, MapThenFoldSet, NothingScanned
<1>3. \A i \in 1 .. n, x \in V : G[<<i, x>>] = Row(x, rows[i]) /\ G[<<i, x>>] \in V
  <2>1. ASSUME NEW i \in 1 .. n, NEW x \in V PROVE Row(x, rows[i]) \in V
    <3>1. Typed(rows[i]) /\ rows[i].id \in ids
      BY DEF Tabled
    <3>. QED BY <3>1, RowTyped
  <2>. QED BY <2>1
<1>4. NothingScanned \in V
  BY DEF NothingScanned, Passes
<1>. HIDE DEF n, G, V
<1>5. Closed(G, 1 .. n, V)
  BY <1>3 DEF Closed
<1>6. PICK h : MaxFold(h, n, V, NothingScanned, G)
  BY <1>1, <1>4, <1>5, FoldLeftExists
<1>7. h = Def(h) /\ \A t \in SUBSET (1 .. n) : t # {} => Max(t) \in 1 .. n
  <2>1. /\ h \in [SUBSET (1 .. n) -> V] /\ h[{}] = NothingScanned
        /\ \A t \in SUBSET (1 .. n) : t # {} => Max(t) \in 1 .. n /\ h[t] = G[<<Max(t), h[t \ {Max(t)}]>>]
    BY <1>6 DEF MaxFold
  <2>2. ASSUME NEW t \in SUBSET (1 .. n), t # {}
        PROVE  h[t] = Row(h[t \ {Max(t)}], rows[Max(t)])
    <3>. DEFINE m == Max(t)
                r == t \ {m}
    <3>1. m \in 1 .. n /\ h[t] = G[<<m, h[r]>>] /\ r \in SUBSET (1 .. n)
      BY <2>1, <2>2
    <3>. HIDE DEF m, r
    <3>2. h[r] \in V
      BY <2>1, <3>1
    <3>3. h[t] = Row(h[r], rows[m])
      BY <1>3, <3>1, <3>2
    <3>. QED BY <3>3 DEF m, r
  <2>. QED BY <2>1, <2>2
<1>8. iter = Def(iter)
  <2>. HIDE DEF Def
  <2>. QED BY <1>7
<1>. HIDE DEF iter
<1>9. iter[{}] = NothingScanned
  BY <1>8
<1>10. ASSUME NEW t \in SUBSET (1 .. n), t # {}, iter[t \ {Max(t)}] \in V
       PROVE  iter[t] = G[<<Max(t), iter[t \ {Max(t)}]>>]
  <2>. DEFINE m == Max(t)
              x == iter[t \ {m}]
  <2>1. m \in 1 .. n /\ x \in V
    BY <1>7, <1>10
  <2>2. iter[t] = Row(x, rows[m])
    BY <1>8, <1>10
  <2>. HIDE DEF m, x
  <2>3. iter[t] = G[<<m, x>>]
    BY <1>3, <2>1, <2>2
  <2>. QED BY <2>3 DEF m, x
<1>11. PICK f : Recursion(f, n, V, NothingScanned, G) /\ f[n] = iter[1 .. n]
  <2>1. Unfolds(iter, n, V, NothingScanned, G)
    BY <1>9, <1>10 DEF Unfolds
  <2>. QED BY <1>1, <1>4, <1>5, <2>1, FoldLeftRuns
<1>12. f \in [0 .. n -> V] /\ f[0] = NothingScanned
  BY <1>11 DEF Recursion
<1>13. ASSUME NEW i \in 1 .. n PROVE f[i] = Row(f[i - 1], rows[i])
  <2>1. f[i - 1] \in V /\ f[i] = G[<<i, f[i - 1]>>]
    <3>1. i - 1 \in 0 .. n
      BY <1>1
    <3>. QED BY <1>11, <1>12, <3>1 DEF Recursion
  <2>. QED BY <1>3, <2>1
<1>. QED BY <1>2, <1>11, <1>12, <1>13 DEF n, V

\* Before the first row.
LEMMA NothingScannedTells == PassTells(NothingScanned, <<>>) /\ Tabled(<<>>)
<1>1. Arranged(<<>>)
  BY DEF Arranged
<1>2. \A i : BarsTell(<<>>, <<>>, i)
  BY DEF BarsTell
<1>3. GapsTell(0, {}, -1, 0)
  BY DEF GapsTell
<1>4. Busy(<<>>) = {} /\ Minute(<<>>) = -1
  BY DEF Busy, Minute
<1>5. PassTells(NothingScanned, <<>>)
  BY <1>1, <1>2, <1>3, <1>4 DEF PassTells, NothingScanned
<1>. QED BY <1>5 DEF Tabled

\* Behind the last row.
LEMMA ScanTells ==
  ASSUME NEW rows, Tabled(rows)
  PROVE  PassTells(Scanned(rows), rows)
<1>. DEFINE n == Len(rows)
            ids == {rows[m].id : m \in 1 .. n} \cup {0}
<1>1. n \in Nat /\ DOMAIN rows = 1 .. n /\ rows = [m \in 1 .. n |-> rows[m]]
  BY LenProperties DEF Tabled
<1>2. 0 \in ids /\ \A m \in 1 .. n : rows[m].id \in ids
  OBVIOUS
<1>. HIDE DEF ids
<1>3. PICK f \in [0 .. n -> Passes(ids)] :
         /\ f[0] = NothingScanned /\ Scanned(rows) = f[n]
         /\ \A i \in 1 .. n : f[i] = Row(f[i - 1], rows[i])
  BY <1>2, ScanRuns
<1>. DEFINE T == {i \in 0 .. n : Tabled(Leading(rows, i)) /\ PassTells(f[i], Leading(rows, i))}
<1>4. 0 \in T
  <2>1. Leading(rows, 0) = <<>>
    BY DEF Leading
  <2>. QED BY <1>1, <1>3, <2>1, NothingScannedTells
<1>5. ASSUME NEW i \in 0 .. n - 1, i \in T PROVE i + 1 \in T
  <2>1. i + 1 \in 1 .. n /\ (i + 1) - 1 = i /\ i + 1 \in 0 .. n /\ i \in 0 .. n
    BY <1>1
  <2>2. Tabled(Leading(rows, i)) /\ PassTells(f[i], Leading(rows, i)) /\ f[i] \in Passes(ids)
    BY <1>3, <1>5, <2>1
  <2>3. Leading(rows, i + 1) = Append(Leading(rows, i), rows[i + 1]) /\ Typed(rows[i + 1])
    BY <2>2, LeadingMore
  <2>4. f[i + 1] = Row(f[i], rows[i + 1])
    BY <1>3, <2>1
  <2>5. Tabled(Leading(rows, i + 1))
    <3>. DEFINE old == Leading(rows, i)
                x == rows[i + 1]
    <3>1. Tabled(old) /\ Typed(x) /\ Leading(rows, i + 1) = Append(old, x)
      BY <2>2, <2>3
    <3>. HIDE DEF old, x
    <3>2. Tabled(Append(old, x))
      BY <3>1, TableGrows
    <3>. QED BY <3>1, <3>2
  <2>6. PassTells(f[i + 1], Leading(rows, i + 1))
    BY <2>2, <2>3, <2>4, PassMore
  <2>. QED BY <2>1, <2>5, <2>6
<1>6. n \in T
  <2>1. \A i \in 0 .. n : i \in T
    <3>. HIDE DEF T
    <3>. QED BY <1>1, <1>4, <1>5, UpTo
  <2>2. n \in 0 .. n
    BY <1>1
  <2>. QED BY <2>1, <2>2
<1>7. Leading(rows, n) = rows
  BY <1>1 DEF Leading
<1>. QED BY <1>3, <1>6, <1>7

\* Rows in order are in order of their times.
LEMMA ByTime ==
  ASSUME NEW rows, Tabled(rows), Arranged(rows), NEW m \in 1 .. Len(rows), NEW k \in 1 .. Len(rows), m <= k
  PROVE  rows[m].at <= rows[k].at
<1>. DEFINE n == k - m
            T == {j \in 0 .. n : rows[m].at <= rows[m + j].at}
<1>1. Len(rows) \in Nat /\ n \in Nat /\ m \in Int /\ m + n = k /\ m + 0 = m
  BY LenProperties DEF Tabled
<1>2. \A j \in 1 .. Len(rows) : rows[j].at \in Int
  BY DEF Tabled, Typed
<1>. HIDE DEF n
<1>3. 0 \in T
  BY <1>1, <1>2
<1>4. ASSUME NEW j \in 0 .. n - 1, j \in T PROVE j + 1 \in T
  <2>1. /\ m + (j + 1) \in 2 .. Len(rows) /\ (m + (j + 1)) - 1 = m + j /\ m + j \in 1 .. Len(rows)
        /\ m + (j + 1) \in 1 .. Len(rows) /\ j + 1 \in 0 .. n
    BY <1>1
  <2>2. rows[(m + (j + 1)) - 1].at <= rows[m + (j + 1)].at
    BY <2>1 DEF Arranged
  <2>. QED BY <1>2, <1>4, <2>1, <2>2
<1>5. n \in T
  <2>1. \A j \in 0 .. n : j \in T
    <3>. HIDE DEF T
    <3>. QED BY <1>1, <1>3, <1>4, UpTo
  <2>2. n \in 0 .. n
    BY <1>1
  <2>. QED BY <2>1, <2>2
<1>6. rows[m].at <= rows[m + n].at
  BY <1>5
<1>. QED BY <1>1, <1>6

\* A bar that tells its rows summarises them.
LEMMA BarSummarises ==
  ASSUME NEW rows, Tabled(rows), Arranged(rows), NEW i \in Nat \ {0}, NEW b, BarTells(b, rows, i)
  PROVE  Summarises(b, rows, i)
<1>. DEFINE own == Positions(rows, i, b.start)
            prices == {rows[n].price : n \in own}
<1>1. Len(rows) \in Nat /\ DOMAIN rows = 1 .. Len(rows) /\ own \subseteq 1 .. Len(rows)
  BY LenProperties DEF Tabled, Positions
<1>2. \A n \in 1 .. Len(rows) : rows[n].at \in Int /\ rows[n].price \in Int
  BY DEF Tabled, Typed
<1>3. own \subseteq Int /\ prices \subseteq Int
  BY <1>1, <1>2
<1>4. /\ b \in Bars /\ b.trades = Cardinality(own) /\ Greatest(prices, b.high) /\ Least(prices, b.low)
      /\ b.turnover = Total(Turnovers(rows), own) /\ b.bought - b.sold = Total(Flows(rows), own)
  BY DEF BarTells
<1>5. PICK m, k : /\ Least(own, m) /\ b.open = rows[m].price /\ b.first = rows[m].at
                  /\ Greatest(own, k) /\ b.close = rows[k].price /\ b.last = rows[k].at
  BY DEF BarTells
<1>6. \A n \in own : rows[n].at \div i = b.start
  BY DEF Positions
<1>. HIDE DEF own, prices
<1>7. own # {} /\ Min(own) = m /\ Max(own) = k /\ Max(prices) = b.high /\ Min(prices) = b.low
  <2>1. own # {}
    BY <1>5 DEF Least
  <2>. QED BY <1>3, <1>4, <1>5, <2>1, ExtremeFound
<1>8. ASSUME NEW n \in own PROVE rows[n].at \in b.first .. b.last
  <2>1. m \in 1 .. Len(rows) /\ k \in 1 .. Len(rows) /\ n \in 1 .. Len(rows) /\ m <= n /\ n <= k
    BY <1>1, <1>5 DEF Least, Greatest
  <2>2. rows[m].at <= rows[n].at
    BY <2>1, ByTime
  <2>3. rows[n].at <= rows[k].at
    BY <2>1, ByTime
  <2>. QED BY <1>2, <1>5, <2>1, <2>2, <2>3
<1>9. ASSUME NEW n \in own PROVE rows[n].at < AvailableAt(b, i)
  <2>1. rows[n].at \in Int /\ b.start \in Int
    BY <1>1, <1>2, <1>4 DEF Bars
  <2>2. rows[n].at < (rows[n].at \div i) * i + i
    BY <2>1, Multiples
  <2>3. (b.start + 1) * i = b.start * i + 1 * i /\ 1 * i = i /\ b.start * i \in Int
    BY <2>1, Multiples
  <2>4. AssumedLatency \in Nat
    BY TradeBarsAssumption
  <2>. QED BY <1>6, <2>1, <2>2, <2>3, <2>4 DEF AvailableAt
<1>. QED BY <1>4, <1>5, <1>7, <1>8, <1>9 DEF Summarises, own, prices

\* All bars do.
LEMMA AllSummarise ==
  ASSUME NEW rows, Tabled(rows), Arranged(rows), NEW i \in Nat \ {0}, NEW bars, BarsTell(bars, rows, i)
  PROVE  BarsSummarise(bars, rows, i)
<1>1. /\ bars \in Seq(Bars) /\ \A k \in 1 .. Len(bars) : BarTells(bars[k], rows, i)
      /\ \A j, k \in 1 .. Len(bars) : j < k => bars[j].start < bars[k].start
      /\ {bars[k].start : k \in 1 .. Len(bars)} = {rows[n].at \div i : n \in DOMAIN rows}
  BY DEF BarsTell
<1>2. Len(bars) \in Nat /\ DOMAIN bars = 1 .. Len(bars)
  BY <1>1, LenProperties
<1>3. \A k \in DOMAIN bars : Summarises(bars[k], rows, i)
  BY <1>1, <1>2, BarSummarises
<1>4. \A k \in 2 .. Len(bars) : bars[k - 1].start < bars[k].start
  <2>1. \A k \in 2 .. Len(bars) : k - 1 \in 1 .. Len(bars) /\ k \in 1 .. Len(bars) /\ k - 1 < k
    BY <1>2
  <2>. QED BY <1>1, <2>1
<1>. QED BY <1>1, <1>2, <1>3, <1>4 DEF BarsSummarise

\* An import takes the archives that it should and no other, and its bars are
\* those of the trades, for any rows (_process_archive).
THEOREM ImportIsFaithful ==
  ASSUME NEW rows, Tabled(rows)
  PROVE  ImportFaithful(rows, Import(rows))
<1>. DEFINE acc == Scanned(rows)
            longest == Larger(acc.longest, GapAfter(acc.minutes))
            result == Import(rows)
<1>1. PassTells(acc, rows)
  BY ScanTells
<1>2. /\ Len(rows) \in Nat /\ DOMAIN rows = 1 .. Len(rows) /\ (rows = <<>> <=> Len(rows) = 0)
  BY LenProperties, EmptySeq DEF Tabled
<1>3. /\ MinutesPerDay \in Nat \ {0} /\ SecondsPerMinute \in Nat \ {0} /\ MaximumMissing \in Nat
      /\ 1 \in Nat \ {0}
  BY TradeBarsAssumption
<1>4. Acceptable(rows) <=>
        /\ Len(rows) # 0 /\ Arranged(rows)
        /\ \A m \in 0 .. MinutesPerDay - MaximumMissing - 1 : m .. m + MaximumMissing \cap Busy(rows) # {}
  BY <1>2 DEF Acceptable, Arranged
<1>5. result = IF acc.failed \/ rows = <<>> THEN NoBars
               ELSE IF longest > MaximumMissing THEN NoBars
               ELSE [ok |-> TRUE, seconds |-> acc.seconds, minutes |-> acc.minutes,
                     missing |-> MinutesPerDay - Len(acc.minutes), longest |-> longest]
  BY DEF Import
<1>. HIDE DEF acc, longest, result
<1>6. CASE acc.failed = TRUE \/ Len(rows) = 0
  <2>1. result.ok = FALSE
    BY <1>2, <1>5, <1>6 DEF NoBars
  <2>2. ~ Acceptable(rows)
    BY <1>1, <1>4, <1>6 DEF PassTells
  <2>. QED BY <2>1, <2>2 DEF ImportFaithful, result
<1>7. CASE acc.failed = FALSE /\ Len(rows) # 0
  <2>. DEFINE busy == Busy(rows)
              K == Len(acc.minutes)
              top == Minute(acc.minutes)
              tail == MinutesPerDay - (top + 1)
  <2>1. /\ Arranged(rows) /\ BarsTell(acc.seconds, rows, 1) /\ BarsTell(acc.minutes, rows, SecondsPerMinute)
        /\ GapsTell(acc.longest, busy, top, K)
    BY <1>1, <1>7 DEF PassTells
  <2>2. K # 0 /\ K \in Nat /\ top = acc.minutes[K].start /\ GapAfter(acc.minutes) = tail
    <3>1. acc.minutes \in Seq(Bars) /\ K # 0
      BY <1>7, <2>1 DEF BarsTell
    <3>2. K \in Nat /\ Last(acc.minutes) = acc.minutes[K]
      BY <3>1, LastBar
    <3>. QED BY <3>1, <3>2 DEF Minute, GapAfter
  <2>3. /\ acc.longest \in Nat /\ top \in Int /\ top >= -1 /\ busy \subseteq 0 .. top
        /\ top = -1 \/ top \in busy
        /\ acc.longest + K <= top + 1
        /\ \A m, k \in Nat : acc.longest <= k /\ m + k <= top => (m .. m + k) \cap busy # {}
        /\ \A k \in Nat : acc.longest > k => \E m \in Nat : m + k < top /\ (m .. m + k) \cap busy = {}
    BY <2>1 DEF GapsTell
  <2>4. top < MinutesPerDay
    <3>1. top = rows[Len(rows)].at \div SecondsPerMinute
      BY <1>7, <2>1, <2>2 DEF BarsTell
    <3>2. rows[Len(rows)].at \in 0 .. DaySeconds - 1
      BY <1>2, <1>7, <2>1 DEF Arranged
    <3>3. top * SecondsPerMinute <= rows[Len(rows)].at
      BY <1>3, <3>1, <3>2, Multiples
    <3>4. DaySeconds = MinutesPerDay * SecondsPerMinute /\ DaySeconds \in Int
      BY <1>3 DEF DaySeconds
    <3>5. MinutesPerDay <= top => MinutesPerDay * SecondsPerMinute <= top * SecondsPerMinute
      <4>. DEFINE d == MinutesPerDay
                  s == SecondsPerMinute
      <4>1. d \in Int /\ s \in Nat \ {0} /\ top \in Int
        BY <1>3, <2>3
      <4>. HIDE DEF d, s, top
      <4>2. d <= top => d * s <= top * s
        BY <4>1, Multiples
      <4>. QED BY <4>2 DEF d, s
    <3>6. top * SecondsPerMinute \in Int
      BY <1>3, <2>3
    <3>. QED BY <1>3, <2>3, <3>2, <3>3, <3>4, <3>5, <3>6
  <2>5. top \in busy /\ top >= 0
    <3>1. rows[Len(rows)].at \div SecondsPerMinute \in busy
      BY <1>2, <1>7 DEF Busy
    <3>2. top = rows[Len(rows)].at \div SecondsPerMinute
      BY <1>7, <2>1, <2>2 DEF BarsTell
    <3>. QED BY <2>3, <3>1, <3>2
  <2>6. longest = IF acc.longest >= tail THEN acc.longest ELSE tail
    BY <2>2 DEF longest, Larger
  <2>. HIDE DEF busy, K, top
  <2>7. tail \in Nat /\ longest \in Nat
    BY <1>3, <2>3, <2>4, <2>6
  <2>8. longest <= MaximumMissing <=>
          \A m \in 0 .. MinutesPerDay - MaximumMissing - 1 : m .. m + MaximumMissing \cap busy # {}
    <3>1. ASSUME longest <= MaximumMissing, NEW m \in 0 .. MinutesPerDay - MaximumMissing - 1
          PROVE  m .. m + MaximumMissing \cap busy # {}
      <4>1. CASE m + MaximumMissing <= top
        <5>1. acc.longest <= MaximumMissing /\ m \in Nat
          BY <1>3, <2>3, <2>6, <2>7, <3>1
        <5>. QED BY <1>3, <2>3, <4>1, <5>1
      <4>2. CASE m + MaximumMissing > top
        <5>1. m <= top
          BY <1>3, <2>3, <2>6, <2>7, <3>1
        <5>2. top \in m .. m + MaximumMissing
          BY <1>3, <2>3, <4>2, <5>1
        <5>. QED BY <2>5, <5>2
      <4>. QED BY <1>3, <2>3, <4>1, <4>2
    <3>2. ASSUME longest > MaximumMissing
          PROVE  \E m \in 0 .. MinutesPerDay - MaximumMissing - 1 : m .. m + MaximumMissing \cap busy = {}
      <4>1. CASE acc.longest > MaximumMissing
        <5>1. PICK m \in Nat : m + MaximumMissing < top /\ (m .. m + MaximumMissing) \cap busy = {}
          BY <1>3, <2>3, <4>1
        <5>2. m \in 0 .. MinutesPerDay - MaximumMissing - 1
          BY <1>3, <2>3, <2>4, <5>1
        <5>. QED BY <5>1, <5>2
      <4>2. CASE tail > MaximumMissing
        <5>. DEFINE m == top + 1
        <5>1. m \in 0 .. MinutesPerDay - MaximumMissing - 1
          BY <1>3, <2>3, <2>4, <4>2
        <5>2. \A x \in m .. m + MaximumMissing : x \notin 0 .. top
          BY <2>3
        <5>3. m .. m + MaximumMissing \cap busy = {}
          BY <2>3, <5>2
        <5>. HIDE DEF m
        <5>. QED BY <5>1, <5>3
      <4>. QED BY <2>6, <3>2, <4>1, <4>2
    <3>. QED BY <1>3, <2>7, <3>1, <3>2
  <2>9. Acceptable(rows) <=> longest <= MaximumMissing
    BY <1>4, <1>7, <2>1, <2>8 DEF busy
  <2>10. CASE longest <= MaximumMissing
    <3>1. result = [ok |-> TRUE, seconds |-> acc.seconds, minutes |-> acc.minutes,
                    missing |-> MinutesPerDay - K, longest |-> longest]
      BY <1>2, <1>3, <1>5, <1>7, <2>7, <2>10 DEF K
    <3>2. BarsSummarise(acc.seconds, rows, 1) /\ BarsSummarise(acc.minutes, rows, SecondsPerMinute)
      BY <1>3, <2>1, AllSummarise
    <3>3. longest <= MinutesPerDay - K
      BY <1>3, <2>2, <2>3, <2>4, <2>6
    <3>4. /\ result.ok = TRUE /\ result.seconds = acc.seconds /\ result.minutes = acc.minutes
          /\ result.longest = longest /\ result.missing = MinutesPerDay - K
      BY <3>1
    <3>5. ImportFaithful(rows, result)
      BY <2>9, <2>10, <3>2, <3>3, <3>4 DEF ImportFaithful
    <3>. QED BY <3>5 DEF result
  <2>11. CASE longest > MaximumMissing
    <3>1. result.ok = FALSE
      BY <1>2, <1>5, <1>7, <2>11 DEF NoBars
    <3>2. ~ Acceptable(rows)
      BY <1>3, <2>7, <2>9, <2>11
    <3>. QED BY <3>1, <3>2 DEF ImportFaithful, result
  <2>. QED BY <1>3, <2>7, <2>10, <2>11
<1>. QED BY <1>1, <1>6, <1>7 DEF PassTells

-----------------------------------------------------------------------------
(* The rows and labels of PriceResearch and the tape, the trades of all the days: a bar
   of a day is what the tape has in its interval, and the days next to a decision hold
   all that its row and its labels can know. *)

\* The bars of an imported day tell its rows.
LEMMA ImportTells ==
  ASSUME NEW rows, Tabled(rows), Import(rows).ok
  PROVE  /\ Arranged(rows) /\ BarsTell(Import(rows).seconds, rows, 1)
         /\ BarsTell(Import(rows).minutes, rows, SecondsPerMinute)
<1>. DEFINE acc == Scanned(rows)
            longest == Larger(acc.longest, GapAfter(acc.minutes))
            result == Import(rows)
<1>1. PassTells(acc, rows)
  BY ScanTells
<1>2. result = IF acc.failed \/ rows = <<>> THEN NoBars
               ELSE IF longest > MaximumMissing THEN NoBars
               ELSE [ok |-> TRUE, seconds |-> acc.seconds, minutes |-> acc.minutes,
                     missing |-> MinutesPerDay - Len(acc.minutes), longest |-> longest]
  BY DEF Import
<1>3. result.ok
  OBVIOUS
<1>. HIDE DEF acc, longest, result
<1>4. ~ NoBars.ok
  BY DEF NoBars
<1>5. acc.failed # TRUE /\ result.seconds = acc.seconds /\ result.minutes = acc.minutes
  BY <1>2, <1>3, <1>4
<1>6. /\ Arranged(rows) /\ BarsTell(acc.seconds, rows, 1) /\ BarsTell(acc.minutes, rows, SecondsPerMinute)
  BY <1>1, <1>5 DEF PassTells
<1>. QED BY <1>5, <1>6 DEF result

\* Days that can be selected, each a table of rows.
Imported(days) ==
  /\ Len(days) \in Nat /\ DOMAIN days = 1 .. Len(days)
  /\ \A k \in DOMAIN days : Tabled(days[k]) /\ Import(days[k]).ok

\* A day is n intervals of i seconds.
Divided(n, i) == n \in Nat \ {0} /\ i \in Nat \ {0} /\ n * i = DaySeconds

\* It is as many seconds, and minutes.
LEMMA DaysDivided ==
  /\ DaySeconds \in Nat \ {0} /\ DaySeconds \div 1 = DaySeconds /\ Divided(DaySeconds, 1)
  /\ DaySeconds \div SecondsPerMinute = MinutesPerDay /\ Divided(MinutesPerDay, SecondsPerMinute)
<1>. DEFINE s == SecondsPerMinute
            m == MinutesPerDay
            d == DaySeconds
<1>1. s \in Nat \ {0} /\ m \in Nat \ {0} /\ d = s * m
  BY TradeBarsAssumption DEF DaySeconds
<1>2. d \in Nat \ {0} /\ d = m * s
  <2>1. s * m = m * s /\ s * m \in Nat
    BY <1>1
  <2>2. 1 * s <= m * s /\ 1 * s = s
    BY <1>1, Multiples
  <2>. HIDE DEF s, m, d
  <2>. QED BY <1>1, <2>1, <2>2
<1>. HIDE DEF s, m, d
<1>3. d \div 1 = d
  BY <1>2
<1>4. d \div s = m
  <2>. DEFINE q == d \div s
  <2>1. q \in Int /\ q * s <= d /\ d < q * s + s
    BY <1>1, <1>2, Multiples
  <2>2. (q + 1) * s = q * s + 1 * s /\ 1 * s = s /\ (m + 1) * s = m * s + 1 * s
    BY <1>1, <2>1, Multiples
  <2>3. (q + 1 <= m => (q + 1) * s <= m * s) /\ (m + 1 <= q => (m + 1) * s <= q * s)
    BY <1>1, <2>1, Multiples
  <2>4. q * s \in Int /\ m * s \in Int
    BY <1>1, <2>1, Multiples
  <2>. HIDE DEF q
  <2>. QED BY <1>1, <1>2, <2>1, <2>2, <2>3, <2>4 DEF q
<1>. QED BY <1>1, <1>2, <1>3, <1>4 DEF Divided, s, m, d

\* A time of a day, on the clock of the range, and the interval that it is in.
LEMMA Reckoned ==
  ASSUME NEW n, NEW i, Divided(n, i), NEW x \in 0 .. DaySeconds - 1, NEW j \in Int
  PROVE  (x + j * DaySeconds) \div i = x \div i + j * n /\ x \div i \in 0 .. n - 1
<1>. DEFINE q == x \div i
            e == x + j * DaySeconds
            y == e \div i
<1>1. /\ n \in Nat \ {0} /\ i \in Nat \ {0} /\ n * i = DaySeconds /\ DaySeconds \in Nat \ {0}
      /\ x \in Int /\ x >= 0 /\ x < DaySeconds
  BY DaysDivided DEF Divided
<1>2. q \in Int /\ q * i <= x /\ x < q * i + i /\ q * i \in Int
  BY <1>1, Multiples
<1>3. e \in Int /\ j * DaySeconds \in Int
  BY <1>1
<1>4. y \in Int /\ y * i <= e /\ e < y * i + i /\ y * i \in Int
  BY <1>1, <1>3, Multiples
<1>. HIDE DEF q, y
<1>5. j * n \in Int /\ (j * n) * i = j * DaySeconds
  <2>1. (j * n) * i = j * (n * i)
    BY <1>1
  <2>. QED BY <1>1, <2>1
<1>. DEFINE z == q + j * n
<1>6. z \in Int /\ z * i = q * i + j * DaySeconds /\ z * i \in Int
  <2>1. (q + j * n) * i = q * i + (j * n) * i
    BY <1>1, <1>2, <1>5, Multiples
  <2>. QED BY <1>2, <1>3, <1>5, <2>1
<1>. HIDE DEF z
<1>7. z * i <= e /\ e < z * i + i
  BY <1>1, <1>2, <1>3, <1>6
<1>8. y = z
  <2>1. /\ (y + 1) * i = y * i + 1 * i /\ (z + 1) * i = z * i + 1 * i /\ 1 * i = i
    BY <1>1, <1>4, <1>6, Multiples
  <2>2. (y + 1 <= z => (y + 1) * i <= z * i) /\ (z + 1 <= y => (z + 1) * i <= y * i)
    BY <1>1, <1>4, <1>6, Multiples
  <2>. HIDE DEF e
  <2>. QED BY <1>1, <1>3, <1>4, <1>6, <1>7, <2>1, <2>2
<1>9. q \in 0 .. n - 1
  <2>1. (n <= q => n * i <= q * i) /\ (q + 1 <= 0 => (q + 1) * i <= 0 * i) /\ 0 * i = 0
    BY <1>1, <1>2, Multiples
  <2>2. (q + 1) * i = q * i + 1 * i /\ 1 * i = i
    BY <1>1, <1>2, Multiples
  <2>. QED BY <1>1, <1>2, <2>1, <2>2
<1>. QED BY <1>8, <1>9 DEF q, y, z

\* A trade of the tape is a row of its day.
OfTape(days, t) ==
  /\ t.day \in DOMAIN days /\ t.place \in DOMAIN days[t.day]
  /\ t.at = days[t.day][t.place].at + (t.day - 1) * DaySeconds
  /\ t.price = days[t.day][t.place].price
  /\ t = [day |-> t.day, place |-> t.place, at |-> t.at, price |-> t.price]

\* And its time is in the day.
LEMMA Moments ==
  ASSUME NEW days, Imported(days), NEW t \in Tape(days)
  PROVE  /\ OfTape(days, t) /\ t.day \in 1 .. Len(days) /\ t.at \in Int /\ t.price \in Int
         /\ days[t.day][t.place].at \in 0 .. DaySeconds - 1
         /\ (t.day - 1) * DaySeconds <= t.at /\ t.at < t.day * DaySeconds
         /\ (t.day - 1) * DaySeconds \in Int /\ t.day * DaySeconds \in Int
<1>0. PICK k \in DOMAIN days :
         t \in {[day |-> k, place |-> n, at |-> days[k][n].at + (k - 1) * DaySeconds, price |-> days[k][n].price] :
                  n \in DOMAIN days[k]}
  BY DEF Tape
<1>1. PICK n \in DOMAIN days[k] :
         t = [day |-> k, place |-> n, at |-> days[k][n].at + (k - 1) * DaySeconds, price |-> days[k][n].price]
  BY <1>0
<1>2. OfTape(days, t) /\ t.day = k /\ t.place = n
  BY <1>1 DEF OfTape
<1>3. k \in 1 .. Len(days) /\ k \in Int /\ Tabled(days[k]) /\ Import(days[k]).ok
  BY DEF Imported
<1>4. Arranged(days[k])
  BY <1>3, ImportTells
<1>. DEFINE x == days[k][n].at
            p == days[k][n].price
            D == DaySeconds
<1>5. x \in 0 .. D - 1
  BY <1>4 DEF Arranged
<1>6. p \in Int
  <2>1. n \in 1 .. Len(days[k])
    BY <1>3, LenProperties DEF Tabled
  <2>. QED BY <1>3, <2>1 DEF Tabled, Typed
<1>7. D \in Nat \ {0}
  BY DaysDivided
<1>8. t.at = x + (k - 1) * D /\ t.price = p
  BY <1>1
<1>. HIDE DEF x, p, D
<1>9. (k - 1) * D = k * D - 1 * D /\ 1 * D = D /\ k * D \in Int /\ (k - 1) * D \in Int
  BY <1>3, <1>7, Multiples
<1>10. x \in Int /\ 0 <= x /\ x < D
  BY <1>5, <1>7
<1>11. t.at \in Int /\ (k - 1) * D <= t.at /\ t.at < k * D
  BY <1>7, <1>8, <1>9, <1>10
<1>. QED BY <1>2, <1>3, <1>5, <1>6, <1>8, <1>9, <1>11 DEF x, p, D

\* A trade that is not behind another is not of a day behind the other's.
LEMMA DaysInOrder ==
  ASSUME NEW days, Imported(days), NEW t \in Tape(days), NEW u \in Tape(days), t.at <= u.at
  PROVE  t.day <= u.day
<1>. DEFINE D == DaySeconds
            a == t.day
            b == u.day
<1>1. /\ a \in Int /\ b \in Int /\ t.at \in Int /\ u.at \in Int
      /\ (a - 1) * D <= t.at /\ u.at < b * D /\ (a - 1) * D \in Int /\ b * D \in Int
  <2>1. a \in 1 .. Len(days) /\ t.at \in Int /\ (a - 1) * D <= t.at /\ (a - 1) * D \in Int
    BY Moments
  <2>2. b \in 1 .. Len(days) /\ u.at \in Int /\ u.at < b * D /\ b * D \in Int
    BY Moments
  <2>. QED BY <2>1, <2>2
<1>2. D \in Nat \ {0}
  BY DaysDivided
<1>. HIDE DEF D, a, b
<1>3. b <= a - 1 => b * D <= (a - 1) * D
  BY <1>1, <1>2, Multiples
<1>4. a <= b
  BY <1>1, <1>3
<1>. QED BY <1>4 DEF a, b

\* And not behind it in the day.
LEMMA TapeInOrder ==
  ASSUME NEW days, Imported(days), NEW t \in Tape(days), NEW u \in Tape(days), t.at < u.at
  PROVE  Succeeds(u, t)
<1>1. /\ OfTape(days, t) /\ OfTape(days, u) /\ t.at \in Int /\ u.at \in Int
      /\ t.day \in Int /\ u.day \in Int
  <2>1. OfTape(days, t) /\ t.day \in 1 .. Len(days) /\ t.at \in Int
    BY Moments
  <2>2. OfTape(days, u) /\ u.day \in 1 .. Len(days) /\ u.at \in Int
    BY Moments
  <2>. QED BY <2>1, <2>2
<1>2. t.day <= u.day
  BY <1>1, DaysInOrder
<1>3. ASSUME t.day = u.day PROVE t.place <= u.place
  <2>. DEFINE rows == days[t.day]
              m == u.place
              k == t.place
              c == (t.day - 1) * DaySeconds
  <2>1. Tabled(rows) /\ Arranged(rows)
    <3>1. Tabled(rows) /\ Import(rows).ok
      BY <1>1 DEF Imported, OfTape
    <3>. QED BY <3>1, ImportTells
  <2>2. Len(rows) \in Nat /\ DOMAIN rows = 1 .. Len(rows)
    BY <2>1, LenProperties DEF Tabled
  <2>3. m \in 1 .. Len(rows) /\ k \in 1 .. Len(rows) /\ t.at = rows[k].at + c /\ u.at = rows[m].at + c
    BY <1>1, <1>3, <2>2 DEF OfTape
  <2>4. c \in Int /\ rows[k].at \in Int /\ rows[m].at \in Int
    <3>1. rows[k].at \in Int /\ rows[m].at \in Int
      <4>. HIDE DEF rows, k, m
      <4>. QED BY <2>1, <2>3 DEF Tabled, Typed
    <3>2. DaySeconds \in Int /\ t.day - 1 \in Int
      BY <1>1, DaysDivided
    <3>. QED BY <3>1, <3>2
  <2>. HIDE DEF rows, m, k, c
  <2>5. ASSUME m <= k PROVE rows[m].at <= rows[k].at
    BY <2>1, <2>3, <2>5, ByTime
  <2>6. m \in Int /\ k \in Int /\ rows[k].at < rows[m].at
    BY <1>1, <2>2, <2>3, <2>4
  <2>7. k <= m
    BY <2>4, <2>5, <2>6
  <2>. QED BY <2>7 DEF m, k
<1>. QED BY <1>1, <1>2, <1>3 DEF Succeeds

\* Its interval is that of its row, behind the days before.
LEMMA IntervalOfDay ==
  ASSUME NEW days, Imported(days), NEW n, NEW i, Divided(n, i), NEW t \in Tape(days)
  PROVE  /\ t.at \div i = days[t.day][t.place].at \div i + (t.day - 1) * n
         /\ days[t.day][t.place].at \div i \in 0 .. n - 1
<1>. DEFINE x == days[t.day][t.place].at
            j == t.day - 1
<1>1. OfTape(days, t) /\ t.day \in 1 .. Len(days) /\ x \in 0 .. DaySeconds - 1
  BY Moments
<1>2. t.at = x + j * DaySeconds /\ j \in Int
  BY <1>1 DEF OfTape
<1>. HIDE DEF x, j
<1>3. (x + j * DaySeconds) \div i = x \div i + j * n /\ x \div i \in 0 .. n - 1
  BY <1>1, <1>2, Reckoned
<1>4. t.at \div i = x \div i + j * n
  BY <1>2, <1>3
<1>. QED BY <1>3, <1>4 DEF x, j

\* An interval of the range is of one day.
LEMMA OneDay ==
  ASSUME NEW n \in Nat \ {0}, NEW x \in 0 .. n - 1, NEW y \in 0 .. n - 1, NEW j \in Int, NEW k \in Int,
         x + (j - 1) * n = y + (k - 1) * n
  PROVE  j = k /\ x = y
<1>1. /\ (j - 1) * n = j * n - 1 * n /\ (k - 1) * n = k * n - 1 * n /\ 1 * n = n
      /\ j * n \in Int /\ k * n \in Int
  BY Multiples
<1>2. (j <= k - 1 => j * n <= (k - 1) * n) /\ (k <= j - 1 => k * n <= (j - 1) * n)
  BY Multiples
<1>3. j = k
  BY <1>1, <1>2
<1>. QED BY <1>3, <1>1

\* Bars on the clock of the range; and those of a day, as its import made them.
Postponed(bars, shift) == {[bars[m] EXCEPT !.start = @ + shift] : m \in DOMAIN bars}

BarsAre(bars, days, k, n, i) ==
  BarsTell(bars, days[k], i) /\ DayBars(days, k, i) = Postponed(bars, (k - 1) * n)

\* The bars of a day are those of its import, on the clock of the range.
LEMMA BarsOfDay ==
  ASSUME NEW days, Imported(days), NEW k \in DOMAIN days, NEW n, NEW i, Divided(n, i),
         DaySeconds \div i = n, i = 1 \/ i = SecondsPerMinute
  PROVE  \E bars : BarsAre(bars, days, k, n, i)
<1>. DEFINE rows == days[k]
            result == Import(rows)
            bars == IF i = 1 THEN result.seconds ELSE result.minutes
<1>1. Tabled(rows) /\ result.ok
  BY DEF Imported
<1>2. BarsTell(result.seconds, rows, 1) /\ BarsTell(result.minutes, rows, SecondsPerMinute)
  <2>. HIDE DEF rows
  <2>. QED BY <1>1, ImportTells
<1>3. BarsTell(bars, rows, i)
  BY <1>2
<1>4. DayBars(days, k, i) = Postponed(bars, (k - 1) * n)
  BY DEF DayBars, Postponed
<1>5. BarsAre(bars, days, k, n, i)
  BY <1>3, <1>4 DEF BarsAre
<1>. HIDE DEF bars
<1>. QED BY <1>5

\* The trades of the tape in the interval of a bar; and what the bar tells of them.
InBar(days, b, i) == {t \in Tape(days) : t.at \div i = b.start}

BarOfTape(days, k, b, i) ==
  LET own == InBar(days, b, i) IN
  /\ b.start \in Int /\ b.close \in Int /\ b.trades = Cardinality(own)
  /\ \A t \in own : t.day = k
  /\ \E t \in own : t.price = b.close /\ \A u \in own : Succeeds(t, u)
  /\ Greatest({t.price : t \in own}, b.high) /\ Least({t.price : t \in own}, b.low)

\* The bars of a day tell the tape.
LEMMA DayBarTells ==
  ASSUME NEW days, Imported(days), NEW k \in DOMAIN days, NEW n, NEW i, Divided(n, i),
         DaySeconds \div i = n, i = 1 \/ i = SecondsPerMinute, NEW b \in DayBars(days, k, i)
  PROVE  BarOfTape(days, k, b, i)
<1>. DEFINE rows == days[k]
            shift == (k - 1) * n
            D == DaySeconds
<1>0. PICK bars : BarsAre(bars, days, k, n, i)
  BY BarsOfDay
<1>1. /\ BarsTell(bars, rows, i)
      /\ DayBars(days, k, i) = {[bars[m] EXCEPT !.start = @ + shift] : m \in DOMAIN bars}
  BY <1>0 DEF BarsAre, Postponed
<1>2. PICK m \in DOMAIN bars : b = [bars[m] EXCEPT !.start = @ + shift]
  BY <1>1
<1>. DEFINE c == bars[m]
            own == Positions(rows, i, c.start)
<1>3. BarTells(c, rows, i)
  <2>1. DOMAIN bars = 1 .. Len(bars)
    BY <1>1, LenProperties DEF BarsTell
  <2>. QED BY <1>1, <2>1 DEF BarsTell
<1>4. /\ c \in Bars /\ IsFiniteSet(own) /\ c.trades = Cardinality(own)
      /\ \E j, l : Least(own, j) /\ Greatest(own, l) /\ c.close = rows[l].price
      /\ Greatest({rows[x].price : x \in own}, c.high) /\ Least({rows[x].price : x \in own}, c.low)
  BY <1>3 DEF BarTells
<1>5. /\ k \in Int /\ n \in Nat \ {0} /\ D \in Nat \ {0} /\ Tabled(rows) /\ shift \in Int
  <2>1. k \in Int /\ Tabled(rows)
    BY DEF Imported
  <2>2. n \in Nat \ {0}
    BY DEF Divided
  <2>. QED BY <2>1, <2>2, DaysDivided
<1>6. /\ b.start = c.start + shift /\ b.trades = c.trades /\ b.close = c.close /\ b.high = c.high
      /\ b.low = c.low /\ c.start \in Int /\ c.close \in Int
  BY <1>2, <1>4 DEF Bars
<1>7. own \subseteq DOMAIN rows /\ \A x \in own : rows[x].at \div i = c.start
  BY DEF Positions
<1>8. \A x \in DOMAIN rows : rows[x].at \in 0 .. D - 1
  <2>1. Tabled(rows) /\ Import(rows).ok
    BY DEF Imported
  <2>2. Arranged(rows)
    <3>. HIDE DEF rows
    <3>. QED BY <2>1, ImportTells
  <2>. QED BY <2>2 DEF Arranged
<1>. DEFINE f == [x \in own |-> [day |-> k, place |-> x, at |-> rows[x].at + (k - 1) * D, price |-> rows[x].price]]
            all == InBar(days, b, i)
<1>9. ASSUME NEW x \in own
      PROVE  f[x] \in all /\ f[x].price = rows[x].price /\ f[x].day = k /\ f[x].place = x
  <2>1. f[x] \in Tape(days)
    BY <1>7 DEF Tape
  <2>2. f[x].at \div i = rows[x].at \div i + shift
    <3>. DEFINE y == rows[x].at
                j == k - 1
    <3>1. y \in 0 .. D - 1 /\ j \in Int /\ f[x].at = y + j * D
      BY <1>5, <1>7, <1>8
    <3>. HIDE DEF y, j, f
    <3>2. (y + j * D) \div i = y \div i + j * n
      BY <3>1, Reckoned
    <3>. QED BY <3>1, <3>2 DEF y, j
  <2>3. f[x].at \div i = b.start
    BY <1>6, <1>7, <2>2
  <2>. QED BY <2>1, <2>3 DEF InBar
<1>10. PICK e \in own : rows[e].at \div i = c.start /\ c.start \in 0 .. n - 1
  <2>1. PICK e : e \in own
    BY <1>4 DEF Least
  <2>. DEFINE y == rows[e].at
              j == 0
  <2>2. y \in 0 .. D - 1 /\ y \div i = c.start /\ j \in Int
    BY <1>7, <1>8, <2>1
  <2>. HIDE DEF y, j
  <2>3. y \div i \in 0 .. n - 1
    BY <2>2, Reckoned
  <2>. QED BY <2>1, <2>2, <2>3 DEF y
<1>11. ASSUME NEW t \in all PROVE t.place \in own /\ t = f[t.place] /\ t.day = k
  <2>. DEFINE r == days[t.day][t.place].at \div i
              j == t.day
  <2>1. t \in Tape(days) /\ t.at \div i = b.start
    BY DEF InBar
  <2>2. t.at \div i = r + (j - 1) * n /\ r \in 0 .. n - 1
    BY <2>1, IntervalOfDay
  <2>3. OfTape(days, t) /\ j \in 1 .. Len(days)
    BY <2>1, Moments
  <2>4. r + (j - 1) * n = c.start + (k - 1) * n /\ j \in Int
    BY <1>6, <2>1, <2>2, <2>3
  <2>5. j = k /\ r = c.start
    <3>. DEFINE s == c.start
    <3>1. s \in 0 .. n - 1 /\ r + (j - 1) * n = s + (k - 1) * n
      BY <1>10, <2>4
    <3>. HIDE DEF r, j, s
    <3>2. j = k /\ r = s
      BY <1>5, <2>2, <2>4, <3>1, OneDay
    <3>. QED BY <3>2 DEF s
  <2>6. t.place \in own
    BY <2>3, <2>5 DEF OfTape, Positions
  <2>7. t = f[t.place]
    BY <2>3, <2>5, <2>6 DEF OfTape
  <2>. QED BY <2>5, <2>6, <2>7
<1>. HIDE DEF own, c, rows, shift, D
<1>12. f \in Surjection(own, all) /\ f \in Injection(own, all)
  <2>1. f \in [own -> all]
    BY <1>9
  <2>2. \A t \in all : \E x \in own : f[x] = t
    BY <1>11
  <2>3. \A x, y \in own : f[x] = f[y] => x = y
    <3>1. \A x, y \in own : f[x].place = x /\ f[y].place = y
      BY <1>9
    <3>. HIDE DEF f
    <3>. QED BY <3>1
  <2>. HIDE DEF f, all
  <2>4. f \in Surjection(own, all)
    BY <2>1, <2>2 DEF Surjection
  <2>5. f \in Injection(own, all)
    BY <2>1, <2>3 DEF Injection, IsInjective
  <2>. QED BY <2>4, <2>5
<1>. HIDE DEF f, all
<1>13. Cardinality(all) = Cardinality(own)
  BY <1>4, <1>12, FS_Surjection
<1>14. {t.price : t \in all} = {rows[x].price : x \in own}
  <2>1. \A t \in all : t.price = rows[t.place].price /\ t.place \in own
    BY <1>9, <1>11
  <2>2. \A x \in own : f[x] \in all /\ f[x].price = rows[x].price
    BY <1>9
  <2>. QED BY <2>1, <2>2
<1>15. \E t \in all : t.price = b.close /\ \A u \in all : Succeeds(t, u)
  <2>1. PICK l : Greatest(own, l) /\ c.close = rows[l].price
    BY <1>4
  <2>2. l \in own /\ \A x \in own : x <= l
    <3>1. own \subseteq Int
      <4>1. DOMAIN rows = 1 .. Len(rows) /\ Len(rows) \in Nat
        BY <1>5, LenProperties DEF Tabled
      <4>. QED BY <1>7, <4>1
    <3>. QED BY <2>1, <3>1 DEF Greatest
  <2>3. f[l] \in all /\ f[l].price = b.close /\ f[l].day = k /\ f[l].place = l
    BY <1>6, <1>9, <2>1, <2>2
  <2>4. \A u \in all : u.day = k /\ u.place <= l
    BY <1>11, <2>2
  <2>. QED BY <2>3, <2>4 DEF Succeeds
<1>16. b.start \in Int
  BY <1>5, <1>6
<1>. QED BY <1>4, <1>6, <1>11, <1>13, <1>14, <1>15, <1>16 DEF BarOfTape, all

\* Each trade of the tape is in a bar of its day.
LEMMA BarOfTrade ==
  ASSUME NEW days, Imported(days), NEW n, NEW i, Divided(n, i),
         DaySeconds \div i = n, i = 1 \/ i = SecondsPerMinute, NEW t \in Tape(days)
  PROVE  \E b \in DayBars(days, t.day, i) : b.start = t.at \div i
<1>. DEFINE k == t.day
            rows == days[k]
            shift == (k - 1) * n
<1>1. OfTape(days, t) /\ t.at \div i = rows[t.place].at \div i + shift
  BY Moments, IntervalOfDay
<1>2. k \in DOMAIN days /\ t.place \in DOMAIN rows
  BY <1>1 DEF OfTape
<1>0. PICK bars : BarsAre(bars, days, k, n, i)
  <2>. HIDE DEF k
  <2>. QED BY <1>2, BarsOfDay
<1>3. /\ BarsTell(bars, rows, i)
      /\ DayBars(days, k, i) = {[bars[m] EXCEPT !.start = @ + shift] : m \in DOMAIN bars}
  BY <1>0 DEF BarsAre, Postponed
<1>4. /\ bars \in Seq(Bars)
      /\ {bars[m].start : m \in 1 .. Len(bars)} = {rows[x].at \div i : x \in DOMAIN rows}
  BY <1>3 DEF BarsTell
<1>5. PICK m \in 1 .. Len(bars) : bars[m].start = rows[t.place].at \div i
  <2>1. rows[t.place].at \div i \in {bars[m].start : m \in 1 .. Len(bars)}
    BY <1>2, <1>4
  <2>. QED BY <2>1
<1>6. bars[m] \in Bars /\ m \in DOMAIN bars
  BY <1>4, <1>5, LenProperties, ElementOfSeq
<1>. DEFINE b == [bars[m] EXCEPT !.start = @ + shift]
<1>7. b \in DayBars(days, k, i)
  BY <1>3, <1>6
<1>8. b.start = bars[m].start + shift
  BY <1>6 DEF Bars
<1>. QED BY <1>1, <1>5, <1>7, <1>8

-----------------------------------------------------------------------------
(* Rows and labels *)

\* A decision of a day is in the day.
LEMMA DecisionInDay ==
  ASSUME NEW k \in Int, NEW d \in PriceDecisions(k)
  PROVE  /\ d \in Int /\ (k - 1) * DaySeconds <= d /\ d < k * DaySeconds
         /\ (k - 1) * DaySeconds \in Int /\ k * DaySeconds \in Int
<1>. DEFINE D == DaySeconds
            p == PriceInterval
            q == D \div p
<1>1. PICK m \in 0 .. q - 1 : d = (k - 1) * D + PriceOffset + m * p
  BY DEF PriceDecisions
<1>2. D \in Nat \ {0} /\ p \in Nat \ {0} /\ PriceOffset \in 0 .. p - 1
  BY DaysDivided, PriceAssumption
<1>. HIDE DEF D, p
<1>3. q \in Int /\ q * p <= D /\ q * p \in Int
  BY <1>2, Multiples
<1>. HIDE DEF q
<1>4. m \in Int /\ m * p \in Int /\ 0 <= m * p /\ m * p <= q * p - p
  <2>1. m \in Int /\ 0 <= m /\ m <= q - 1
    BY <1>3
  <2>2. 0 * p <= m * p /\ 0 * p = 0 /\ m * p <= (q - 1) * p /\ m * p \in Int
    BY <1>2, <1>3, <2>1, Multiples
  <2>3. (q - 1) * p = q * p - 1 * p /\ 1 * p = p
    BY <1>2, <1>3, Multiples
  <2>. QED BY <2>1, <2>2, <2>3
<1>5. (k - 1) * D = k * D - 1 * D /\ 1 * D = D /\ k * D \in Int /\ (k - 1) * D \in Int
  BY <1>2, Multiples
<1>6. d \in Int /\ (k - 1) * D <= d /\ d < k * D
  BY <1>1, <1>2, <1>3, <1>4, <1>5
<1>. QED BY <1>5, <1>6 DEF D

\* Of a set of bars whose starts are bounded there is an earliest and a latest.
LEMMA BarsBounded ==
  ASSUME NEW S, S # {}, NEW lo \in Int, NEW hi \in Int, \A b \in S : b.start \in lo .. hi
  PROVE  /\ Earliest(S) \in S /\ \A c \in S : Earliest(S).start <= c.start
         /\ Latest(S) \in S /\ \A c \in S : c.start <= Latest(S).start
<1>. DEFINE starts == {b.start : b \in S}
<1>1. starts # {} /\ starts \subseteq Int /\ IsFiniteSet(starts)
  <2>1. IsFiniteSet(lo .. hi) /\ starts \subseteq lo .. hi /\ lo .. hi \subseteq Int
    BY FS_Interval
  <2>. QED BY <2>1, FS_Subset
<1>2. (\E x : Least(starts, x)) /\ \E x : Greatest(starts, x)
  <2>. HIDE DEF starts
  <2>. QED BY <1>1, ExtremesExist
<1>3. \E b \in S : \A c \in S : b.start <= c.start
  <2>1. PICK x : Least(starts, x)
    BY <1>2
  <2>. QED BY <2>1 DEF Least
<1>4. \E b \in S : \A c \in S : c.start <= b.start
  <2>1. PICK x \in starts : \A y \in starts : x >= y
    BY <1>2 DEF Greatest
  <2>2. PICK b \in S : b.start = x
    BY <2>1
  <2>3. \A c \in S : c.start <= b.start
    <3>1. \A c \in S : c.start \in starts /\ c.start \in Int
      OBVIOUS
    <3>2. x \in Int
      BY <2>2, <3>1
    <3>. HIDE DEF starts
    <3>. QED BY <2>1, <2>2, <3>1, <3>2
  <2>. QED BY <2>3
<1>. QED BY <1>3, <1>4 DEF Earliest, Latest

\* The second bars next to a day tell the tape.
LEMMA SecondsTell ==
  ASSUME NEW days, Imported(days), NEW k \in DOMAIN days, NEW b \in Seconds(days, k)
  PROVE  \E j \in DOMAIN days : j \in k - 1 .. k + 1 /\ BarOfTape(days, j, b, 1)
<1>1. PICK j \in DOMAIN days : j \in k - 1 .. k + 1 /\ b \in DayBars(days, j, 1)
  BY DEF Seconds
<1>2. Divided(DaySeconds, 1) /\ DaySeconds \div 1 = DaySeconds
  BY DaysDivided
<1>3. BarOfTape(days, j, b, 1)
  BY <1>1, <1>2, DayBarTells
<1>. QED BY <1>1, <1>3

\* And the minutes of a day and the day before.
LEMMA MinutesTell ==
  ASSUME NEW days, Imported(days), NEW k \in DOMAIN days, NEW b \in Minutes(days, k)
  PROVE  \E j \in DOMAIN days : BarOfTape(days, j, b, SecondsPerMinute)
<1>1. PICK j \in DOMAIN days : b \in DayBars(days, j, SecondsPerMinute)
  BY DEF Minutes
<1>2. Divided(MinutesPerDay, SecondsPerMinute) /\ DaySeconds \div SecondsPerMinute = MinutesPerDay
  BY DaysDivided
<1>3. BarOfTape(days, j, b, SecondsPerMinute)
  BY <1>1, <1>2, DayBarTells
<1>. QED BY <1>3

\* They have a bar of every trade of those days.
LEMMA SecondOfTrade ==
  ASSUME NEW days, Imported(days), NEW k \in DOMAIN days, NEW t \in Tape(days), t.day \in k - 1 .. k + 1
  PROVE  \E b \in Seconds(days, k) : b.start = t.at
<1>1. Divided(DaySeconds, 1) /\ DaySeconds \div 1 = DaySeconds
  BY DaysDivided
<1>2. PICK b \in DayBars(days, t.day, 1) : b.start = t.at \div 1
  BY <1>1, BarOfTrade
<1>3. t.at \in Int /\ t.day \in DOMAIN days
  BY Moments DEF OfTape
<1>4. t.at \div 1 = t.at
  BY <1>3
<1>5. b \in Seconds(days, k)
  BY <1>3 DEF Seconds
<1>. QED BY <1>2, <1>4, <1>5

\* A second is known with its trades.
LEMMA KnownTogether ==
  ASSUME NEW days, Imported(days), NEW j, NEW b, BarOfTape(days, j, b, 1)
  PROVE  /\ b.start \in Int /\ AvailableAt(b, 1) = b.start + 1 + AssumedLatency
         /\ \E t \in Tape(days) : t.at = b.start
         /\ \A t \in Tape(days) : t \in InBar(days, b, 1) <=> t.at = b.start
<1>1. b.start \in Int /\ AssumedLatency \in Int
  BY TradeBarsAssumption DEF BarOfTape
<1>2. AvailableAt(b, 1) = b.start + 1 + AssumedLatency
  BY <1>1 DEF AvailableAt
<1>3. \A t \in Tape(days) : t.at \div 1 = t.at
  <2>1. ASSUME NEW t \in Tape(days) PROVE t.at \div 1 = t.at
    <3>1. t.at \in Int
      BY Moments
    <3>. QED BY <3>1
  <2>. QED BY <2>1
<1>4. \A t \in Tape(days) : t \in InBar(days, b, 1) <=> t.at = b.start
  BY <1>3 DEF InBar
<1>5. \E t : t \in InBar(days, b, 1)
  BY DEF BarOfTape
<1>6. InBar(days, b, 1) \subseteq Tape(days)
  BY DEF InBar
<1>. QED BY <1>1, <1>2, <1>4, <1>5, <1>6

\* The price of a row is the last that is known (_SecondSeries.features_at).
LEMMA PriceOfTape ==
  ASSUME NEW days, Imported(days), NEW k \in DOMAIN days, NEW d \in PriceDecisions(k),
         NEW used, used = Between(Seconds(days, k), -1, d), used # {},
         ~ (d - AvailableAt(Latest(used), 1) > TradeAge)
  PROVE  \E t \in Tape(days) : /\ KnownFrom(t) <= d /\ Latest(used).close = t.price
                               /\ t.price \in Int /\ d - KnownFrom(t) <= TradeAge
                               /\ \A u \in Tape(days) : KnownFrom(u) <= d => Succeeds(t, u)
<1>. DEFINE D == DaySeconds
            L == AssumedLatency
            b == Latest(used)
<1>1. k \in Int /\ D \in Nat \ {0} /\ L \in Nat /\ TradeAge \in Nat
  BY DaysDivided, TradeBarsAssumption, PriceAssumption DEF Imported
<1>2. d \in Int /\ (k - 1) * D <= d /\ d < k * D /\ (k - 1) * D \in Int /\ k * D \in Int
  BY <1>1, DecisionInDay
<1>3. ASSUME NEW c \in used
      PROVE  /\ c \in Seconds(days, k) /\ c.start \in Int /\ -1 < c.start + 1 + L /\ c.start + 1 + L <= d
  <2>1. c \in Seconds(days, k) /\ -1 < AvailableAt(c, 1) /\ AvailableAt(c, 1) <= d
    BY DEF Between
  <2>2. PICK j \in DOMAIN days : BarOfTape(days, j, c, 1)
    BY <2>1, SecondsTell
  <2>3. c.start \in Int /\ AvailableAt(c, 1) = c.start + 1 + L
    BY <2>2, KnownTogether
  <2>. QED BY <2>1, <2>3
<1>4. b \in used /\ \A c \in used : c.start <= b.start
  <2>. DEFINE lo == -1 - 1 - L
  <2>1. lo \in Int /\ \A c \in used : c.start \in lo .. d
    BY <1>1, <1>2, <1>3
  <2>. HIDE DEF lo
  <2>. QED BY <1>2, <2>1, BarsBounded
<1>. HIDE DEF b
<1>5. PICK j \in DOMAIN days : j \in k - 1 .. k + 1 /\ BarOfTape(days, j, b, 1)
  BY <1>3, <1>4, SecondsTell
<1>6. PICK t \in InBar(days, b, 1) : t.price = b.close /\ \A u \in InBar(days, b, 1) : Succeeds(t, u)
  BY <1>5 DEF BarOfTape
<1>7. /\ b.start \in Int /\ AvailableAt(b, 1) = b.start + 1 + L
      /\ \A u \in Tape(days) : u \in InBar(days, b, 1) <=> u.at = b.start
  BY <1>5, KnownTogether
<1>8. t \in Tape(days) /\ t.at = b.start /\ t.day = j
  BY <1>5, <1>6, <1>7 DEF InBar, BarOfTape
<1>9. b.start + 1 + L <= d
  BY <1>3, <1>4
<1>10. KnownFrom(t) <= d /\ d - KnownFrom(t) <= TradeAge
  <2>1. KnownFrom(t) = b.start + 1 + L
    BY <1>8 DEF KnownFrom
  <2>2. ~ (d - (b.start + 1 + L) > TradeAge)
    BY <1>7 DEF b
  <2>. HIDE DEF L
  <2>. QED BY <1>1, <1>2, <1>7, <1>9, <2>1, <2>2
<1>11. ASSUME NEW u \in Tape(days), KnownFrom(u) <= d PROVE Succeeds(t, u)
  <2>1. /\ u.at \in Int /\ u.day \in 1 .. Len(days) /\ (u.day - 1) * D <= u.at /\ (u.day - 1) * D \in Int
    BY Moments
  <2>2. u.at + 1 + L <= d
    BY <1>11 DEF KnownFrom
  <2>3. CASE u.at = b.start
    BY <1>6, <1>7, <2>3
  <2>4. CASE u.at < b.start
    BY <1>8, <2>4, TapeInOrder
  <2>5. CASE u.at > b.start
    <3>1. j <= u.day
      <4>1. t.at <= u.at
        BY <1>7, <1>8, <2>1, <2>5
      <4>. QED BY <1>8, <4>1, DaysInOrder
    <3>2. u.day <= k
      <4>. DEFINE e == u.day
                  x == u.at
      <4>1. e \in Int /\ x \in Int /\ (e - 1) * D <= x /\ (e - 1) * D \in Int /\ x + 1 + L <= d
        BY <2>1, <2>2
      <4>. HIDE DEF e, D, x, L
      <4>2. k <= e - 1 => k * D <= (e - 1) * D
        BY <1>1, <4>1, Multiples
      <4>3. e <= k
        <5>. DEFINE m == (e - 1) * D
                    l == k * D
        <5>1. m \in Int /\ l \in Int /\ m <= x /\ d < l /\ (k <= e - 1 => l <= m)
          BY <1>2, <4>1, <4>2
        <5>. HIDE DEF m, l
        <5>. QED BY <1>1, <1>2, <4>1, <5>1
      <4>. QED BY <4>3 DEF e
    <3>3. u.day \in k - 1 .. k + 1
      <4>. DEFINE e == u.day
      <4>1. e \in Int /\ j \in Int /\ k - 1 <= j /\ j <= e /\ e <= k
        BY <1>1, <1>5, <2>1, <3>1, <3>2
      <4>. HIDE DEF e
      <4>2. e \in k - 1 .. k + 1
        BY <1>1, <4>1
      <4>. QED BY <4>2 DEF e
    <3>4. PICK c \in Seconds(days, k) : c.start = u.at
      BY <3>3, SecondOfTrade
    <3>5. c \in used
      <4>1. PICK l \in DOMAIN days : BarOfTape(days, l, c, 1)
        BY SecondsTell
      <4>2. AvailableAt(c, 1) = u.at + 1 + L
        BY <3>4, <4>1, KnownTogether
      <4>3. -1 < b.start + 1 + L
        BY <1>3, <1>4
      <4>4. -1 < AvailableAt(c, 1) /\ AvailableAt(c, 1) <= d
        BY <1>1, <1>7, <2>1, <2>2, <2>5, <4>2, <4>3
      <4>. QED BY <4>4 DEF Between
    <3>6. c.start <= b.start
      BY <1>4, <3>5
    <3>. QED BY <1>7, <2>1, <2>5, <3>4, <3>6
  <2>. QED BY <1>7, <2>1, <2>3, <2>4, <2>5
<1>12. t.price \in Int
  BY <1>8, Moments
<1>. QED BY <1>6, <1>8, <1>10, <1>11, <1>12 DEF b

\* A minute that is available was over, and its trades are known.
LEMMA MinuteOfTape ==
  ASSUME NEW days, Imported(days), NEW k \in DOMAIN days, NEW d \in Int, NEW b \in Minutes(days, k),
         AvailableAt(b, SecondsPerMinute) <= d
  PROVE  /\ (b.start + 1) * SecondsPerMinute <= d
         /\ b.trades = Cardinality({t \in {u \in Tape(days) : KnownFrom(u) <= d} :
                                      t.at \div SecondsPerMinute = b.start})
<1>. DEFINE s == SecondsPerMinute
            L == AssumedLatency
<1>1. s \in Nat \ {0} /\ L \in Nat
  BY TradeBarsAssumption
<1>2. PICK j \in DOMAIN days : BarOfTape(days, j, b, s)
  BY MinutesTell
<1>3. b.start \in Int /\ b.trades = Cardinality(InBar(days, b, s))
  BY <1>2 DEF BarOfTape
<1>4. (b.start + 1) * s + L <= d /\ (b.start + 1) * s \in Int
  BY <1>1, <1>3 DEF AvailableAt
<1>5. ASSUME NEW t \in Tape(days), t.at \div s = b.start PROVE KnownFrom(t) <= d
  <2>. DEFINE a == t.at
              e == b.start
  <2>1. a \in Int
    BY Moments
  <2>2. a < (a \div s) * s + s
    BY <1>1, <2>1, Multiples
  <2>3. (e + 1) * s = e * s + 1 * s /\ 1 * s = s /\ e * s \in Int
    BY <1>1, <1>3, Multiples
  <2>4. a < e * s + s /\ e * s + s + L <= d
    BY <1>4, <1>5, <2>2, <2>3
  <2>. HIDE DEF a, e, L, s
  <2>5. a + 1 + L <= d
    <3>. DEFINE m == e * s
    <3>1. m \in Int /\ a < m + s /\ m + s + L <= d
      BY <2>3, <2>4
    <3>. HIDE DEF m
    <3>. QED BY <1>1, <2>1, <3>1
  <2>. QED BY <2>5 DEF KnownFrom, a, L
<1>6. InBar(days, b, s) = {t \in {u \in Tape(days) : KnownFrom(u) <= d} : t.at \div s = b.start}
  BY <1>5 DEF InBar
<1>7. (b.start + 1) * s <= d
  <2>. DEFINE m == (b.start + 1) * s
  <2>1. m + L <= d /\ m \in Int
    BY <1>4
  <2>. HIDE DEF m, L
  <2>2. m <= d
    BY <1>1, <2>1
  <2>. QED BY <2>2 DEF m
<1>. QED BY <1>3, <1>6, <1>7

\* A row is of the tape.
LEMMA RowHonest ==
  ASSUME NEW days, Imported(days), NEW k \in DOMAIN days, NEW d \in PriceDecisions(k),
         PriceRow(days, k, d) # None
  PROVE  RowOfTape(days, d, PriceRow(days, k, d)) /\ PriceRow(days, k, d).price \in Int
<1>. DEFINE minutes == MinuteFeatures(Minutes(days, k), d)
            seconds == SecondFeatures(Seconds(days, k), d)
            row == [minutes |-> minutes, seconds |-> seconds, price |-> Latest(seconds).close]
            last == d \div SecondsPerMinute - 1
            known == {t \in Tape(days) : KnownFrom(t) <= d}
<1>1. minutes # None /\ seconds # None /\ PriceRow(days, k, d) = row
  BY DEF PriceRow
<1>2. d \in Int
  <2>1. k \in Int
    BY DEF Imported
  <2>. QED BY <2>1, DecisionInDay
<1>3. /\ minutes \subseteq Minutes(days, k) /\ {b.start : b \in minutes} = last - PriceHistory .. last
      /\ \A b \in minutes : AvailableAt(b, SecondsPerMinute) <= d
  BY <1>1 DEF MinuteFeatures
<1>4. /\ seconds = Between(Seconds(days, k), -1, d) /\ seconds # {}
      /\ ~ (d - AvailableAt(Latest(seconds), 1) > TradeAge)
  BY <1>1 DEF SecondFeatures
<1>. HIDE DEF minutes, seconds, last
<1>5. PICK t \in known : /\ Latest(seconds).close = t.price /\ t.price \in Int /\ d - KnownFrom(t) <= TradeAge
                         /\ \A u \in known : Succeeds(t, u)
  BY <1>4, PriceOfTape
<1>6. ASSUME NEW b \in minutes
      PROVE  /\ (b.start + 1) * SecondsPerMinute <= d
             /\ b.trades = Cardinality({u \in known : u.at \div SecondsPerMinute = b.start})
  BY <1>2, <1>3, MinuteOfTape
<1>7. row.price = t.price /\ row.minutes = minutes
  BY <1>5
<1>. HIDE DEF row
<1>8. RowOfTape(days, d, row)
  BY <1>3, <1>5, <1>6, <1>7 DEF RowOfTape, last
<1>. QED BY <1>1, <1>5, <1>7, <1>8

\* A bar is at a barrier if one of its trades is.
LEMMA BarTouches ==
  ASSUME NEW days, Imported(days), NEW j, NEW b, BarOfTape(days, j, b, 1),
         NEW side \in {"LONG", "SHORT"}, NEW entry \in Int
  PROVE  /\ BarAtTarget(side, entry, b) <=> \E t \in InBar(days, b, 1) : AtTarget(side, entry, t)
         /\ BarAtStop(side, entry, b) <=> \E t \in InBar(days, b, 1) : AtStop(side, entry, t)
<1>. DEFINE own == InBar(days, b, 1)
            prices == {t.price : t \in own}
            high == b.high
            low == b.low
<1>1. TakeProfit \in Int /\ Stop \in Int
  BY LabelsAssumption
<1>2. Greatest(prices, high) /\ Least(prices, low)
  BY DEF BarOfTape
<1>3. \A t \in own : t.price \in Int
  <2>1. \A t \in own : t \in Tape(days)
    BY DEF InBar
  <2>. QED BY <2>1, Moments
<1>4. /\ high \in Int /\ low \in Int /\ \A t \in own : low <= t.price /\ t.price <= high
      /\ (\E t \in own : t.price = high) /\ \E t \in own : t.price = low
  <2>1. high \in prices /\ low \in prices /\ prices \subseteq Int
    BY <1>2, <1>3 DEF Greatest, Least
  <2>2. \A x \in prices : high >= x /\ low <= x
    BY <1>2 DEF Greatest, Least
  <2>3. \A t \in own : t.price \in prices
    OBVIOUS
  <2>. QED BY <1>3, <2>1, <2>2, <2>3
<1>. HIDE DEF own, prices, high, low
<1>5. \A c \in Int : high >= c <=> \E t \in own : t.price >= c
  BY <1>3, <1>4
<1>6. \A c \in Int : low <= c <=> \E t \in own : t.price <= c
  BY <1>3, <1>4
<1>7. CASE side = "LONG"
  <2>1. BarAtTarget(side, entry, b) <=> high >= entry + TakeProfit
    BY <1>7 DEF BarAtTarget, Worth, high
  <2>2. BarAtStop(side, entry, b) <=> low <= entry - Stop
    BY <1>7 DEF BarAtStop, Worth, low
  <2>3. \A t \in own : AtTarget(side, entry, t) <=> t.price >= entry + TakeProfit
    BY <1>7 DEF AtTarget, Worth
  <2>4. \A t \in own : AtStop(side, entry, t) <=> t.price <= entry - Stop
    BY <1>7 DEF AtStop, Worth
  <2>5. entry + TakeProfit \in Int /\ entry - Stop \in Int
    BY <1>1
  <2>. QED BY <1>5, <1>6, <2>1, <2>2, <2>3, <2>4, <2>5 DEF own
<1>8. CASE side = "SHORT"
  <2>1. BarAtTarget(side, entry, b) <=> low <= entry - TakeProfit
    BY <1>1, <1>4, <1>8 DEF BarAtTarget, Worth, low
  <2>2. BarAtStop(side, entry, b) <=> high >= entry + Stop
    BY <1>1, <1>4, <1>8 DEF BarAtStop, Worth, high
  <2>3. \A t \in own : AtTarget(side, entry, t) <=> t.price <= entry - TakeProfit
    BY <1>1, <1>3, <1>8 DEF AtTarget, Worth
  <2>4. \A t \in own : AtStop(side, entry, t) <=> t.price >= entry + Stop
    BY <1>1, <1>3, <1>8 DEF AtStop, Worth
  <2>5. entry - TakeProfit \in Int /\ entry + Stop \in Int
    BY <1>1
  <2>. QED BY <1>5, <1>6, <2>1, <2>2, <2>3, <2>4, <2>5 DEF own
<1>. QED BY <1>7, <1>8

\* What becomes known within the horizon is of the days next to the decision's.
LEMMA HorizonNearby ==
  ASSUME NEW days, Imported(days), NEW k \in DOMAIN days, NEW d \in PriceDecisions(k), NEW t \in Tape(days),
         d < KnownFrom(t), KnownFrom(t) <= d + PriceHorizon
  PROVE  t.day \in k - 1 .. k + 1
<1>. DEFINE D == DaySeconds
            L == AssumedLatency
            P == PriceHorizon
            e == t.day
            x == t.at
<1>1. k \in Int /\ D \in Nat \ {0} /\ L \in Nat /\ P \in Nat /\ P + L + 1 <= D
  BY DaysDivided, TradeBarsAssumption, PriceAssumption DEF Imported
<1>2. d \in Int /\ (k - 1) * D <= d /\ d < k * D /\ (k - 1) * D \in Int /\ k * D \in Int
  BY <1>1, DecisionInDay
<1>3. /\ e \in 1 .. Len(days) /\ x \in Int /\ (e - 1) * D <= x /\ x < e * D
      /\ (e - 1) * D \in Int /\ e * D \in Int
  BY Moments
<1>4. d < x + 1 + L /\ x + 1 + L <= d + P
  BY DEF KnownFrom
<1>. HIDE DEF D, L, P, e, x
<1>5. e \in Int
  BY <1>3
<1>6. (k - 1) * D = k * D - 1 * D /\ (k + 1) * D = k * D + 1 * D /\ (k - 2) * D = k * D - 2 * D
      /\ 1 * D = D /\ 2 * D = D + D
  BY <1>1, Multiples
<1>7. (e <= k - 2 => e * D <= (k - 2) * D) /\ (k + 1 <= e - 1 => (k + 1) * D <= (e - 1) * D)
  <2>. DEFINE f == k - 2
              g == k + 1
              h == e - 1
  <2>1. f \in Int /\ g \in Int /\ h \in Int
    BY <1>1, <1>5
  <2>. HIDE DEF f, g, h
  <2>2. (e <= f => e * D <= f * D) /\ (g <= h => g * D <= h * D)
    BY <1>1, <1>5, <2>1, Multiples
  <2>. QED BY <2>2 DEF f, g, h
<1>. DEFINE m == k * D
            y == e * D
            z == (e - 1) * D
<1>8. /\ m \in Int /\ y \in Int /\ z \in Int /\ m - D <= d /\ d < m /\ z <= x /\ x < y
      /\ (e <= k - 2 => y <= m - (D + D)) /\ (k + 1 <= e - 1 => m + D <= z)
  BY <1>2, <1>3, <1>6, <1>7
<1>. HIDE DEF m, y, z
<1>9. ~ (e <= k - 2)
  BY <1>1, <1>2, <1>3, <1>4, <1>8
<1>10. ~ (k + 1 <= e - 1)
  BY <1>1, <1>2, <1>3, <1>4, <1>8
<1>. QED BY <1>1, <1>5, <1>9, <1>10 DEF e

\* A label is of the tape (_SecondSeries.barrier_outcome).
LEMMA LabelOfTape ==
  ASSUME NEW days, Imported(days), NEW k \in DOMAIN days, NEW d \in PriceDecisions(k),
         NEW side \in {"LONG", "SHORT"}, NEW entry \in Int
  PROVE  OutcomeOfTape(days, d, side, entry,
                       PriceOutcome(Between(Seconds(days, k), d, d + PriceHorizon), side, entry))
<1>. DEFINE to == d + PriceHorizon
            L == AssumedLatency
            bars == Between(Seconds(days, k), d, to)
            Touched(b) == BarAtTarget(side, entry, b) \/ BarAtStop(side, entry, b)
            Touch(t) == AtTarget(side, entry, t) \/ AtStop(side, entry, t)
            struck == {b \in bars : Touched(b)}
            future == {t \in Tape(days) : d < KnownFrom(t) /\ KnownFrom(t) <= to}
            hits == {t \in future : Touch(t)}
            first == {t \in hits : \A u \in hits : t.at <= u.at}
            outcome == PriceOutcome(bars, side, entry)
            target == \E t \in first : AtTarget(side, entry, t)
            stop == \E t \in first : AtStop(side, entry, t)
<1>0. OutcomeOfTape(days, d, side, entry, outcome)
        <=> /\ outcome = "TIMEOUT" <=> hits = {}
            /\ outcome = "AMBIGUOUS" <=> target /\ stop
            /\ outcome = "TP_FIRST" <=> target /\ ~ stop
  BY DEF OutcomeOfTape
<1>1. d \in Int /\ to \in Int /\ L \in Nat
  <2>1. k \in Int /\ PriceHorizon \in Int /\ L \in Nat
    BY PriceAssumption, TradeBarsAssumption DEF Imported
  <2>2. d \in Int
    BY <2>1, DecisionInDay
  <2>. QED BY <2>1, <2>2
<1>2. ASSUME NEW b \in bars
      PROVE  /\ b.start \in Int /\ d < b.start + 1 + L /\ b.start + 1 + L <= to
             /\ \A t \in Tape(days) : t \in InBar(days, b, 1) <=> t.at = b.start
             /\ BarAtTarget(side, entry, b) <=> \E t \in InBar(days, b, 1) : AtTarget(side, entry, t)
             /\ BarAtStop(side, entry, b) <=> \E t \in InBar(days, b, 1) : AtStop(side, entry, t)
  <2>1. b \in Seconds(days, k) /\ d < AvailableAt(b, 1) /\ AvailableAt(b, 1) <= to
    BY DEF Between
  <2>2. PICK j \in DOMAIN days : BarOfTape(days, j, b, 1)
    BY <2>1, SecondsTell
  <2>3. /\ b.start \in Int /\ AvailableAt(b, 1) = b.start + 1 + L
        /\ \A t \in Tape(days) : t \in InBar(days, b, 1) <=> t.at = b.start
    BY <2>2, KnownTogether
  <2>4. /\ BarAtTarget(side, entry, b) <=> \E t \in InBar(days, b, 1) : AtTarget(side, entry, t)
        /\ BarAtStop(side, entry, b) <=> \E t \in InBar(days, b, 1) : AtStop(side, entry, t)
    BY <2>2, BarTouches
  <2>. QED BY <2>1, <2>3, <2>4
<1>3. ASSUME NEW t \in future PROVE t.at \in Int /\ \E b \in bars : b.start = t.at
  <2>1. t \in Tape(days) /\ d < KnownFrom(t) /\ KnownFrom(t) <= d + PriceHorizon
    OBVIOUS
  <2>2. t.day \in k - 1 .. k + 1 /\ t.at \in Int
    <3>. HIDE DEF future
    <3>. QED BY <2>1, HorizonNearby, Moments
  <2>3. PICK b \in Seconds(days, k) : b.start = t.at
    BY <2>1, <2>2, SecondOfTrade
  <2>4. AvailableAt(b, 1) = KnownFrom(t)
    <3>1. PICK j \in DOMAIN days : BarOfTape(days, j, b, 1)
      BY SecondsTell
    <3>2. AvailableAt(b, 1) = b.start + 1 + L
      BY <3>1, KnownTogether
    <3>. QED BY <2>3, <3>2 DEF KnownFrom
  <2>5. b \in bars
    BY <2>1, <2>4 DEF Between
  <2>. QED BY <2>2, <2>3, <2>5
<1>4. ASSUME NEW b \in bars, NEW t \in InBar(days, b, 1) PROVE t \in future /\ t.at = b.start
  <2>1. t \in Tape(days)
    BY DEF InBar
  <2>2. t.at = b.start /\ d < b.start + 1 + L /\ b.start + 1 + L <= to
    BY <1>2, <2>1
  <2>. QED BY <2>1, <2>2 DEF KnownFrom
<1>5. ASSUME NEW t \in future, NEW b \in bars, b.start = t.at PROVE t \in InBar(days, b, 1)
  BY <1>2, <1>5
<1>. HIDE DEF bars, future
<1>6. ASSUME NEW t \in hits PROVE t.at \in Int /\ \E b \in struck : b.start = t.at
  <2>1. PICK b \in bars : b.start = t.at
    BY <1>3
  <2>2. t \in InBar(days, b, 1)
    BY <1>5, <2>1
  <2>. QED BY <1>2, <1>3, <2>1, <2>2
<1>7. ASSUME NEW b \in struck PROVE b.start \in Int /\ \E t \in hits : t \in InBar(days, b, 1) /\ t.at = b.start
  BY <1>2, <1>4
<1>8. hits = {} <=> struck = {}
  BY <1>6, <1>7
<1>9. CASE struck = {}
  <2>1. outcome = "TIMEOUT"
    BY <1>9 DEF PriceOutcome
  <2>2. hits = {} /\ first = {}
    BY <1>8, <1>9
  <2>3. ~ target
    BY <2>2
  <2>. HIDE DEF outcome, target, stop, first, hits
  <2>4. OutcomeOfTape(days, d, side, entry, outcome)
    BY <1>0, <2>1, <2>2, <2>3
  <2>. QED BY <2>4 DEF outcome, bars
<1>10. CASE struck # {}
  <2>. DEFINE b == Earliest(struck)
  <2>1. b \in struck /\ \A c \in struck : b.start <= c.start
    <3>. DEFINE lo == d - 1 - L
                S == struck
    <3>1. lo \in Int /\ \A c \in struck : c.start \in lo .. to
      BY <1>1, <1>2
    <3>. HIDE DEF lo, struck
    <3>. QED BY <1>1, <1>10, <3>1, BarsBounded
  <2>2. outcome = IF ~ BarAtStop(side, entry, b) THEN "TP_FIRST"
                  ELSE IF ~ BarAtTarget(side, entry, b) THEN "SL_FIRST" ELSE "AMBIGUOUS"
    BY <1>10 DEF PriceOutcome
  <2>. HIDE DEF b, outcome
  <2>3. \A t : t \in first <=> t \in InBar(days, b, 1) /\ Touch(t)
    <3>1. ASSUME NEW u \in hits PROVE b.start <= u.at
      BY <1>6, <2>1
    <3>2. PICK v \in hits : v.at = b.start
      BY <1>7, <2>1
    <3>3. ASSUME NEW t \in first PROVE t \in InBar(days, b, 1) /\ Touch(t)
      <4>1. t \in hits /\ t.at <= b.start /\ b.start <= t.at /\ t.at \in Int /\ b.start \in Int
        BY <1>6, <1>7, <2>1, <3>1, <3>2
      <4>2. t.at = b.start
        BY <4>1
      <4>. QED BY <1>5, <2>1, <4>1, <4>2
    <3>4. ASSUME NEW t \in InBar(days, b, 1), Touch(t) PROVE t \in first
      <4>1. t \in hits /\ t.at = b.start
        BY <1>4, <2>1, <3>4
      <4>. QED BY <3>1, <4>1
    <3>. HIDE DEF first, hits
    <3>. QED BY <3>3, <3>4
  <2>4. (BarAtTarget(side, entry, b) <=> target) /\ (BarAtStop(side, entry, b) <=> stop)
    <3>1. /\ BarAtTarget(side, entry, b) <=> \E t \in InBar(days, b, 1) : AtTarget(side, entry, t)
          /\ BarAtStop(side, entry, b) <=> \E t \in InBar(days, b, 1) : AtStop(side, entry, t)
      BY <1>2, <2>1
    <3>. HIDE DEF first
    <3>. QED BY <2>3, <3>1
  <2>5. (BarAtTarget(side, entry, b) \/ BarAtStop(side, entry, b)) /\ hits # {}
    BY <1>8, <1>10, <2>1
  <2>. HIDE DEF target, stop, first, hits
  <2>6. OutcomeOfTape(days, d, side, entry, outcome)
    BY <1>0, <2>2, <2>4, <2>5
  <2>. QED BY <2>6 DEF outcome, bars
<1>. QED BY <1>9, <1>10

\* The rows and labels that are built of imported days say of the trades what they seem
\* to: the price is the last that was known, no minute is left out, nothing is known too
\* early, and the outcome is that of the first trades at a barrier, for any split of any
\* trades into days (price_history_builder.py).
THEOREM PriceIsHonest ==
  ASSUME NEW days, Len(days) \in Nat, DOMAIN days = 1 .. Len(days), \A k \in DOMAIN days : Tabled(days[k])
  PROVE  PriceHonest(days)
<1>1. ASSUME Selectable(days), NEW k \in DOMAIN days, NEW r \in PriceRows(days, k)
      PROVE  /\ RowOfTape(days, r.decision, r.row)
             /\ \A side \in {"LONG", "SHORT"} :
                   \A label \in {PriceLabel(days, k, r.decision, side, r.row.price)} \ {None} :
                      OutcomeOfTape(days, r.decision, side, r.row.price, label)
  <2>1. Imported(days)
    BY <1>1 DEF Selectable, Imported
  <2>2. PICK d \in PriceDecisions(k) : r = [decision |-> d, row |-> PriceRow(days, k, d)] /\ r.row # None
    BY DEF PriceRows
  <2>3. RowOfTape(days, d, PriceRow(days, k, d)) /\ PriceRow(days, k, d).price \in Int
    BY <2>1, <2>2, RowHonest
  <2>. DEFINE row == r.row
              price == row.price
  <2>4. RowOfTape(days, r.decision, row) /\ price \in Int /\ r.decision = d
    BY <2>2, <2>3
  <2>. HIDE DEF price, row
  <2>5. ASSUME NEW side \in {"LONG", "SHORT"}, PriceLabel(days, k, d, side, price) # None
        PROVE  OutcomeOfTape(days, d, side, price, PriceLabel(days, k, d, side, price))
    <3>1. PriceLabel(days, k, d, side, price)
            = PriceOutcome(Between(Seconds(days, k), d, d + PriceHorizon), side, price)
      BY <2>5 DEF PriceLabel
    <3>2. OutcomeOfTape(days, d, side, price,
                        PriceOutcome(Between(Seconds(days, k), d, d + PriceHorizon), side, price))
      BY <2>1, <2>4, LabelOfTape
    <3>. QED BY <3>1, <3>2
  <2>. QED BY <2>4, <2>5 DEF price, row
<1>. QED BY <1>1 DEF PriceHonest
==============================================================================
