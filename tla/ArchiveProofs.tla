--------------------------- MODULE ArchiveProofs ---------------------------
(* Proofs about Archive, for any number of files, days, commands and outputs,
   shared outputs included: a deleted file is in the archive, was verified and
   is old enough.  The inductive invariant says what a command that has begun
   to delete knows about the files of its plan. *)
EXTENDS Archive, TLAPS

Kept(f) == manifest[DayOf[f]] # None /\ f \in manifest[DayOf[f]]

\* What the preflight established holds until the command ends: the commits of
\* others keep the manifests, and the days that pass only age the files.
Approved(q) ==
  /\ q.asOf <= today
  /\ \A f \in q.files : Kept(f) /\ DayOf[f] < q.asOf - Retention /\ DayOf[f] \notin damaged

DeletesApproved == \A p \in Procs : pc[p] = "delete" => Approved(job[p].plan)

ArchiveInv == TypeOK /\ DataNeverLost /\ DeletesApproved

-----------------------------------------------------------------------------
(* Types *)

\* The first state has the types.
LEMMA InitTyped == Init => TypeOK
<1>. SUFFICES ASSUME Init PROVE TypeOK
  OBVIOUS
<1>1. \A p \in Procs : Placed(pc[p], job[p])
  BY DEF Init, Placed
<1>. QED BY <1>1, ArchiveAssumption DEF Init, TypeOK, Days

\* One process that moves to a place with a job that belongs there leaves
\* every process placed.
LEMMA PlacedAfter ==
  ASSUME TypeOK, NEW p \in Procs, NEW l, NEW j, Placed(l, j),
         pc' = [pc EXCEPT ![p] = l], job' = [job EXCEPT ![p] = j]
  PROVE  /\ pc' \in [Procs -> {"idle", "build", "catalog"} \cup ApplyPlaces]
         /\ job' \in [Procs -> {None} \cup BuildJobs \cup ApplyJobs]
         /\ \A q \in Procs : Placed(pc'[q], job'[q])
<1>1. l \in {"idle", "build", "catalog"} \cup ApplyPlaces
  BY DEF Placed
<1>2. j \in {None} \cup BuildJobs \cup ApplyJobs
  BY DEF Placed
<1>3. /\ pc \in [Procs -> {"idle", "build", "catalog"} \cup ApplyPlaces]
      /\ job \in [Procs -> {None} \cup BuildJobs \cup ApplyJobs]
      /\ \A q \in Procs : Placed(pc[q], job[q])
  BY DEF TypeOK
<1>4. ASSUME NEW q \in Procs PROVE Placed(pc'[q], job'[q])
  <2>1. CASE q = p
    <3>1. pc'[q] = l /\ job'[q] = j
      BY <1>3, <2>1
    <3>. QED BY <3>1
  <2>2. CASE q # p
    <3>1. pc'[q] = pc[q] /\ job'[q] = job[q]
      BY <1>3, <2>2
    <3>. QED BY <1>3, <3>1
  <2>. QED BY <2>1, <2>2
<1>. QED BY <1>1, <1>2, <1>3, <1>4

\* The job of a command that applies a plan.
LEMMA ApplyJob ==
  ASSUME TypeOK, NEW p \in Procs, pc[p] \in ApplyPlaces
  PROVE  /\ job[p] \in ApplyJobs /\ job[p].output \in Outputs
         /\ job[p].plan \in Plans /\ job[p].plan.files \in SUBSET Files
         /\ job[p].deleted \in SUBSET Files /\ job[p].listed \in SUBSET Files
<1>1. job[p] \in ApplyJobs
  BY DEF TypeOK, Placed, ApplyPlaces
<1>. QED BY <1>1 DEF ApplyJobs, Plans

\* The job of a command that archives a day.
LEMMA BuildJob ==
  ASSUME TypeOK, NEW p \in Procs, pc[p] = "build"
  PROVE  job[p].day \in Days /\ job[p].files \in SUBSET Files
<1>1. job[p] \in BuildJobs
  BY DEF TypeOK, Placed, ApplyPlaces
<1>. QED BY <1>1 DEF BuildJobs

\* A process that ends is placed.
LEMMA QuitPlaced ==
  ASSUME TypeOK, NEW p \in Procs, Quit(p)
  PROVE  /\ pc' \in [Procs -> {"idle", "build", "catalog"} \cup ApplyPlaces]
         /\ job' \in [Procs -> {None} \cup BuildJobs \cup ApplyJobs]
         /\ \A q \in Procs : Placed(pc'[q], job'[q])
<1>1. Placed("idle", None)
  BY DEF Placed
<1>. QED BY <1>1, PlacedAfter DEF Quit, Goto

\* A process that goes on with the same job is placed.
LEMMA GotoPlaced ==
  ASSUME TypeOK, NEW p \in Procs, NEW l, Goto(p, l), UNCHANGED job, Placed(l, job[p])
  PROVE  /\ pc' \in [Procs -> {"idle", "build", "catalog"} \cup ApplyPlaces]
         /\ job' \in [Procs -> {None} \cup BuildJobs \cup ApplyJobs]
         /\ \A q \in Procs : Placed(pc'[q], job'[q])
<1>1. job' = [job EXCEPT ![p] = job[p]]
  BY DEF TypeOK
<1>. QED BY <1>1, PlacedAfter DEF Goto

\* A receipt that is written keeps its type.
LEMMA ListTyped ==
  ASSUME TypeOK, NEW p \in Procs, pc[p] \in ApplyPlaces,
         NEW files \in SUBSET Files, NEW complete \in BOOLEAN, List(p, files, complete)
  PROVE  receipt' \in [Outputs -> {None} \cup [deleted : SUBSET Files, complete : BOOLEAN]]
<1>1. job[p].output \in Outputs
  BY ApplyJob
<1>. QED BY <1>1 DEF TypeOK, List

\* A command that deletes and cannot release its lock.
Keeping(p) ==
  /\ UNCHANGED lock /\ Goto(p, "report")
  /\ job' = [job EXCEPT ![p].deleted = {}]
  /\ stuck' = [stuck EXCEPT ![job[p].output] = TRUE]

\* Its process is placed behind it.
LEMMA KeepingPlaced ==
  ASSUME TypeOK, NEW p \in Procs, pc[p] = "delete", Keeping(p)
  PROVE  /\ pc' \in [Procs -> {"idle", "build", "catalog"} \cup ApplyPlaces]
         /\ job' \in [Procs -> {None} \cup BuildJobs \cup ApplyJobs]
         /\ \A q \in Procs : Placed(pc'[q], job'[q])
         /\ lock' \in {None} \cup Procs /\ stuck' \in [Outputs -> BOOLEAN]
<1>. DEFINE j == [job[p] EXCEPT !.deleted = {}]
<1>1. job[p] \in ApplyJobs
  BY ApplyJob DEF ApplyPlaces
<1>2. Placed("report", j)
  BY <1>1 DEF Placed, ApplyPlaces, ApplyJobs
<1>3. job' = [job EXCEPT ![p] = j] /\ pc' = [pc EXCEPT ![p] = "report"]
  BY DEF Keeping, Goto
<1>4. lock' \in {None} \cup Procs /\ stuck' \in [Outputs -> BOOLEAN]
  BY DEF Keeping, TypeOK
<1>. QED BY <1>2, <1>3, <1>4, PlacedAfter

\* A command that deletes and ends, or cannot release its lock.
LEMMA QuitLeft ==
  ASSUME TypeOK, NEW p \in Procs, pc[p] = "delete", Leave(p, Quit(p))
  PROVE  /\ pc' \in [Procs -> {"idle", "build", "catalog"} \cup ApplyPlaces]
         /\ job' \in [Procs -> {None} \cup BuildJobs \cup ApplyJobs]
         /\ \A q \in Procs : Placed(pc'[q], job'[q])
         /\ lock' \in {None} \cup Procs /\ stuck' \in [Outputs -> BOOLEAN]
<1>1. CASE Release /\ Quit(p) /\ UNCHANGED stuck
  BY <1>1, QuitPlaced DEF TypeOK, Release
<1>2. CASE Keeping(p)
  BY <1>2, KeepingPlaced
<1>. QED BY <1>1, <1>2 DEF Leave, Keeping

\* Every step keeps the types.
LEMMA StepTyped == TypeOK /\ [Next]_vars => TypeOK'
<1>. SUFFICES ASSUME TypeOK, [Next]_vars PROVE TypeOK'
  OBVIOUS
<1>. USE ArchiveAssumption DEF told
<1>1. CASE NextDay
  BY <1>1 DEF TypeOK, NextDay, archive, Days
<1>2. CASE ClearLock
  BY <1>2 DEF TypeOK, ClearLock, Release, archive, collection
<1>3. ASSUME NEW f \in Files, CreateFile(f) \/ FinishFile(f) PROVE TypeOK'
  BY <1>3 DEF TypeOK, CreateFile, FinishFile, archive
<1>4. ASSUME NEW d \in Days, Damage(d) PROVE TypeOK'
  BY <1>4 DEF TypeOK, Damage, collection
<1>5. ASSUME NEW d \in Days, PlanRetention(d) PROVE TypeOK'
  <2>1. Candidates(d) \in SUBSET Files
    BY DEF Candidates, Old
  <2>2. plan' \in Plans
    BY <1>5, <2>1 DEF PlanRetention, TypeOK, Plans
  <2>. QED BY <1>5, <2>2 DEF TypeOK, PlanRetention, collection, archive
<1>6. ASSUME NEW p \in Procs, Command(p) PROVE TypeOK'
  <2>1. ASSUME NEW d \in Days, ArchiveDay(p, d) PROVE TypeOK'
    <3>1. CASE Goto(p, "catalog") /\ UNCHANGED job
      <4>1. Placed("catalog", job[p])
        BY <2>1, <3>1 DEF ArchiveDay, TypeOK, Placed, ApplyPlaces
      <4>. QED BY <2>1, <3>1, <4>1, GotoPlaced
           DEF TypeOK, ArchiveDay, Acquire, collection, archive
    <3>2. CASE /\ Goto(p, "build")
               /\ job' = [job EXCEPT ![p] = [day |-> d, files |-> FilesOf(d, "final")]]
      <4>1. Placed("build", [day |-> d, files |-> FilesOf(d, "final")])
        BY DEF Placed, BuildJobs, FilesOf
      <4>. QED BY <2>1, <3>2, <4>1, PlacedAfter
           DEF TypeOK, ArchiveDay, Acquire, Goto, collection, archive
    <3>. QED BY <2>1, <3>1, <3>2 DEF ArchiveDay
  <2>2. CASE AbandonDay(p)
    BY <2>2, QuitPlaced DEF TypeOK, AbandonDay, Release, collection, archive
  <2>3. CASE CommitDay(p)
    <3>1. job[p].day \in Days /\ job[p].files \in SUBSET Files
      BY <2>3, BuildJob DEF CommitDay
    <3>2. Placed("catalog", None)
      BY DEF Placed
    <3>. QED BY <2>3, <3>1, <3>2, PlacedAfter DEF TypeOK, CommitDay, Goto, collection
  <2>4. CASE RebuildCatalog(p)
    <3>1. Placed("catalog", job[p])
      BY <2>4 DEF RebuildCatalog, TypeOK, Placed, ApplyPlaces
    <3>. QED BY <2>4, <3>1, GotoPlaced
         DEF TypeOK, RebuildCatalog, Acquire, collection, archive
  <2>5. CASE BuildCatalog(p)
    BY <2>5, QuitPlaced DEF TypeOK, BuildCatalog, Committed, Release, collection
  <2>6. ASSUME NEW o \in Outputs, CallApply(p, o) PROVE TypeOK'
    <3>. DEFINE j == [output |-> o, existed |-> receipt[o] # None,
                      plan |-> plan, deleted |-> {}, listed |-> {}]
    <3>1. plan \in Plans
      BY <2>6 DEF CallApply, TypeOK
    <3>2. j \in ApplyJobs
      BY <3>1 DEF ApplyJobs
    <3>3. Placed("called", j)
      BY <3>2 DEF Placed, ApplyPlaces
    <3>. QED BY <2>6, <3>3, PlacedAfter DEF TypeOK, CallApply, Goto, collection, archive
  <2>7. CASE CheckReceipt(p)
    <3>1. job[p] \in ApplyJobs
      BY <2>7, ApplyJob DEF CheckReceipt, ApplyPlaces
    <3>2. Placed("checked", job[p]) /\ Placed("report", job[p])
      BY <3>1 DEF Placed, ApplyPlaces
    <3>. QED BY <2>7, <3>2, GotoPlaced DEF TypeOK, CheckReceipt, collection, archive
  <2>8. CASE Preflight(p)
    <3>1. job[p] \in ApplyJobs
      BY <2>8, ApplyJob DEF Preflight, ApplyPlaces
    <3>2. Placed("delete", job[p])
      BY <3>1 DEF Placed, ApplyPlaces
    <3>3. receipt' \in [Outputs -> {None} \cup [deleted : SUBSET Files, complete : BOOLEAN]]
      BY <2>8, ListTyped DEF Preflight, ApplyPlaces
    <3>. QED BY <2>8, <3>2, <3>3, GotoPlaced
         DEF TypeOK, Preflight, Acquire, collection, archive
  <2>9. CASE Reject(p)
    <3>1. job[p] \in ApplyJobs
      BY <2>9, ApplyJob DEF Reject, ApplyPlaces
    <3>2. Placed("report", job[p])
      BY <3>1 DEF Placed, ApplyPlaces
    <3>. QED BY <2>9, <3>2, GotoPlaced DEF TypeOK, Reject, Acquire, collection, archive
  <2>10. ASSUME NEW f \in Files, DeleteFile(p, f) PROVE TypeOK'
    <3>1. job[p] \in ApplyJobs /\ job[p].output \in Outputs /\ job[p].deleted \in SUBSET Files
      BY <2>10, ApplyJob DEF DeleteFile, ApplyPlaces
    <3>2. Placed("delete", [job[p] EXCEPT !.deleted = @ \cup {f}])
      BY <3>1 DEF Placed, ApplyPlaces, ApplyJobs
    <3>3. pc' = [pc EXCEPT ![p] = "delete"]
      BY <2>10 DEF DeleteFile, TypeOK
    <3>. QED BY <2>10, <3>1, <3>2, <3>3, PlacedAfter DEF TypeOK, DeleteFile, archive
  <2>11. CASE FinishDay(p)
    <3>1. job[p] \in ApplyJobs /\ job[p].deleted \in SUBSET Files
      BY <2>11, ApplyJob DEF FinishDay, ApplyPlaces
    <3>2. Placed("delete", [job[p] EXCEPT !.listed = job[p].deleted])
      BY <3>1 DEF Placed, ApplyPlaces, ApplyJobs
    <3>3. pc' = [pc EXCEPT ![p] = "delete"]
      BY <2>11 DEF FinishDay, TypeOK
    <3>4. receipt' \in [Outputs -> {None} \cup [deleted : SUBSET Files, complete : BOOLEAN]]
      BY <2>11, <3>1, ListTyped DEF FinishDay, ApplyPlaces
    <3>. QED BY <2>11, <3>2, <3>3, <3>4, PlacedAfter
         DEF TypeOK, FinishDay, collection, archive
  <2>12. CASE FinishApply(p)
    <3>1. job[p].deleted \in SUBSET Files
      BY <2>12, ApplyJob DEF FinishApply, ApplyPlaces
    <3>2. receipt' \in [Outputs -> {None} \cup [deleted : SUBSET Files, complete : BOOLEAN]]
      BY <2>12, <3>1, ListTyped DEF FinishApply, ApplyPlaces
    <3>3. Leave(p, Quit(p))
      BY <2>12 DEF FinishApply
    <3>. QED BY <2>12, <3>2, <3>3, QuitLeft DEF TypeOK, FinishApply, collection, archive
  <2>13. CASE FailApply(p)
    <3>1. job[p] \in ApplyJobs /\ job[p].deleted \in SUBSET Files
      BY <2>13, ApplyJob DEF FailApply, ApplyPlaces
    <3>2. Placed("report", job[p])
      BY <3>1 DEF Placed, ApplyPlaces
    <3>3. receipt' \in [Outputs -> {None} \cup [deleted : SUBSET Files, complete : BOOLEAN]]
      BY <2>13, <3>1, ListTyped DEF FailApply, ApplyPlaces
    <3>4. CASE Release /\ Goto(p, "report") /\ UNCHANGED <<job, stuck>>
      BY <2>13, <3>2, <3>3, <3>4, GotoPlaced
      DEF TypeOK, FailApply, Release, collection, archive
    <3>5. CASE Keeping(p)
      BY <2>13, <3>3, <3>5, KeepingPlaced DEF TypeOK, FailApply, collection, archive
    <3>. QED BY <2>13, <3>4, <3>5 DEF FailApply, Leave, Keeping
  <2>14. CASE LoseReceipt(p)
    <3>1. Leave(p, Quit(p))
      BY <2>14 DEF LoseReceipt
    <3>. QED BY <2>14, <3>1, QuitLeft DEF TypeOK, LoseReceipt, collection, archive
  <2>15. CASE Report(p)
    <3>1. job[p].deleted \in SUBSET Files
      BY <2>15, ApplyJob DEF Report, ApplyPlaces
    <3>2. receipt' \in [Outputs -> {None} \cup [deleted : SUBSET Files, complete : BOOLEAN]]
      BY <2>15, <3>1, ListTyped DEF Report, ApplyPlaces, TypeOK
    <3>. QED BY <2>15, <3>2, QuitPlaced DEF TypeOK, Report, collection, archive
  <2>16. CASE Crash(p)
    BY <2>16, QuitPlaced DEF TypeOK, Crash, collection, archive
  <2>. QED BY <1>6, <2>1, <2>2, <2>3, <2>4, <2>5, <2>6, <2>7, <2>8, <2>9, <2>10,
              <2>11, <2>12, <2>13, <2>14, <2>15, <2>16 DEF Command
<1>7. CASE UNCHANGED vars
  BY <1>7 DEF TypeOK, vars
<1>. QED BY <1>1, <1>2, <1>3, <1>4, <1>5, <1>6, <1>7 DEF Next

\* In every behaviour of the archive, its retention and its collector, the
\* variables keep their types.
THEOREM ArchiveTyped == Spec => []TypeOK
BY InitTyped, StepTyped, PTL DEF Spec

-----------------------------------------------------------------------------
(* Safety *)

\* A commit aside, a step leaves the manifests alone; today never goes back; no
\* day is damaged under a command that deletes.
LEMMA StepOfArchive ==
  ASSUME TypeOK, [Next]_vars
  PROVE  /\ UNCHANGED manifest \/ \E p \in Procs : CommitDay(p)
         /\ today <= today'
         /\ UNCHANGED damaged \/ \A p \in Procs : pc[p] # "delete"
<1>1. CASE NextDay
  BY <1>1 DEF TypeOK, NextDay, archive, Days
<1>2. CASE ClearLock \/ (\E f \in Files : CreateFile(f) \/ FinishFile(f)) \/ UNCHANGED vars
  BY <1>2, ArchiveAssumption
     DEF TypeOK, ClearLock, CreateFile, FinishFile, vars, collection, archive, Days
<1>3. CASE \E d \in Days : Damage(d) \/ PlanRetention(d)
  BY <1>3, ArchiveAssumption DEF TypeOK, Damage, PlanRetention, collection, archive, Days
<1>4. ASSUME NEW p \in Procs, Command(p)
      PROVE  (UNCHANGED manifest \/ CommitDay(p)) /\ today <= today' /\ UNCHANGED damaged
  <2>1. (UNCHANGED manifest \/ CommitDay(p)) /\ UNCHANGED <<today, damaged>>
    BY <1>4
       DEF Command, ArchiveDay, AbandonDay, CommitDay, RebuildCatalog, BuildCatalog, CallApply,
           CheckReceipt, Preflight, Reject, DeleteFile, FinishDay, FinishApply, FailApply,
           LoseReceipt, Report, Crash, collection, archive
  <2>. QED BY <2>1, ArchiveAssumption DEF TypeOK, Days
<1>. QED BY <1>1, <1>2, <1>3, <1>4 DEF Next

\* What is in a committed archive stays in it.
LEMMA KeptStays ==
  ASSUME TypeOK, [Next]_vars, NEW f \in Files, Kept(f)
  PROVE  Kept(f)'
<1>1. CASE UNCHANGED manifest
  BY <1>1 DEF Kept
<1>2. ASSUME NEW p \in Procs, CommitDay(p) PROVE Kept(f)'
  <2>1. job[p].day \in Days
    BY <1>2, BuildJob DEF CommitDay
  <2>. QED BY <1>2, <2>1, ArchiveAssumption DEF CommitDay, Writable, Kept, TypeOK
<1>. QED BY <1>1, <1>2, StepOfArchive

\* An approved plan stays approved while its command deletes.
LEMMA ApprovedStays ==
  ASSUME ArchiveInv, [Next]_vars, NEW p \in Procs, pc[p] = "delete"
  PROVE  /\ today <= today'
         /\ job[p].plan.asOf <= today'
         /\ \A f \in job[p].plan.files :
              Kept(f)' /\ DayOf[f] < job[p].plan.asOf - Retention /\ DayOf[f] \notin damaged'
<1>1. Approved(job[p].plan)
  BY DEF ArchiveInv, DeletesApproved
<1>2. job[p].plan.files \in SUBSET Files /\ job[p].plan \in Plans
  BY ApplyJob DEF ArchiveInv, ApplyPlaces
<1>3. today <= today' /\ UNCHANGED damaged
  BY StepOfArchive DEF ArchiveInv
<1>4. TypeOK /\ TypeOK'
  BY StepTyped DEF ArchiveInv
<1>5. job[p].plan.asOf <= today'
  BY <1>1, <1>2, <1>3, <1>4, ArchiveAssumption DEF Approved, TypeOK, Plans, Days
<1>. QED BY <1>1, <1>2, <1>3, <1>4, <1>5, KeptStays DEF Approved

\* A command that deletes after a step was deleting the same plan before it, or
\* has just passed its preflight.
LEMMA DeleteBefore ==
  ASSUME TypeOK, [Next]_vars, NEW p \in Procs, pc'[p] = "delete"
  PROVE  (pc[p] = "delete" /\ job'[p].plan = job[p].plan) \/ Preflight(p)
<1>1. CASE UNCHANGED <<pc, job>>
  BY <1>1
<1>2. ASSUME NEW q \in Procs, Command(q), q # p
      PROVE  pc[p] = "delete" /\ job'[p].plan = job[p].plan
  BY <1>2 DEF Command, ArchiveDay, AbandonDay, CommitDay, RebuildCatalog, BuildCatalog,
              CallApply, CheckReceipt, Preflight, Reject, DeleteFile, FinishDay, FinishApply,
              FailApply, LoseReceipt, Report, Crash, Leave, Quit, Goto, TypeOK
<1>3. CASE Command(p)
  <2>1. CASE \E f \in Files : DeleteFile(p, f)
    <3>1. job[p] \in ApplyJobs
      BY <2>1, ApplyJob DEF DeleteFile, ApplyPlaces
    <3>. QED BY <2>1, <3>1 DEF DeleteFile, TypeOK, ApplyJobs
  <2>2. CASE FinishDay(p)
    <3>1. job[p] \in ApplyJobs
      BY <2>2, ApplyJob DEF FinishDay, ApplyPlaces
    <3>. QED BY <2>2, <3>1 DEF FinishDay, TypeOK, ApplyJobs
  <2>3. CASE ~(\E f \in Files : DeleteFile(p, f)) /\ ~FinishDay(p) /\ ~Preflight(p)
    BY <1>3, <2>3
       DEF Command, ArchiveDay, AbandonDay, CommitDay, RebuildCatalog, BuildCatalog, CallApply,
           CheckReceipt, Reject, FinishApply, FailApply, LoseReceipt, Report, Crash, Leave, Quit,
           Goto, TypeOK
  <2>. QED BY <2>1, <2>2, <2>3
<1>4. CASE NextDay \/ ClearLock \/ (\E f \in Files : CreateFile(f) \/ FinishFile(f))
           \/ (\E d \in Days : Damage(d) \/ PlanRetention(d)) \/ UNCHANGED vars
  BY <1>1, <1>4 DEF NextDay, ClearLock, CreateFile, FinishFile, Damage, PlanRetention, vars
<1>. QED BY <1>2, <1>3, <1>4 DEF Next

\* A file that a step deletes is in the plan of a command that was deleting.
LEMMA DeletedFromPlan ==
  ASSUME TypeOK, [Next]_vars, NEW f \in Files, raw'[f] # raw[f], raw'[f] = "deleted"
  PROVE  \E p \in Procs : pc[p] = "delete" /\ f \in job[p].plan.files
<1>1. ASSUME NEW p \in Procs, NEW g \in Files, DeleteFile(p, g)
      PROVE  pc[p] = "delete" /\ f \in job[p].plan.files
  <2>1. f = g
    BY <1>1 DEF DeleteFile, TypeOK
  <2>. QED BY <1>1, <2>1 DEF DeleteFile, Batch
<1>2. CASE NextDay \/ ClearLock \/ (\E g \in Files : CreateFile(g) \/ FinishFile(g))
           \/ (\E d \in Days : Damage(d) \/ PlanRetention(d)) \/ UNCHANGED vars
  BY <1>2 DEF NextDay, ClearLock, CreateFile, FinishFile, Damage, PlanRetention, vars,
              collection, TypeOK
<1>3. ASSUME NEW p \in Procs, Command(p)
      PROVE  \E g \in Files : DeleteFile(p, g)
  BY <1>3 DEF Command, ArchiveDay, AbandonDay, CommitDay, RebuildCatalog, BuildCatalog,
              CallApply, CheckReceipt, Preflight, Reject, FinishDay, FinishApply, FailApply,
              LoseReceipt, Report, Crash, collection
<1>. QED BY <1>1, <1>2, <1>3 DEF Next

\* The preflight approves the plan.
LEMMA PreflightApproves ==
  ASSUME TypeOK, NEW p \in Procs, Preflight(p)
  PROVE  Approved(job[p].plan)'
<1>1. job'[p].plan = job[p].plan /\ UNCHANGED <<today, manifest, damaged>>
  BY DEF Preflight, collection, archive
<1>2. StillValid(job[p].plan)
  BY DEF Preflight
<1>. QED BY <1>1, <1>2 DEF StillValid, DateAllowed, Candidates, Old, Archived, Approved, Kept

\* Every step keeps the invariant.
LEMMA ArchiveStep == ArchiveInv /\ [Next]_vars => ArchiveInv'
<1>. SUFFICES ASSUME ArchiveInv, [Next]_vars PROVE ArchiveInv'
  OBVIOUS
<1>1. TypeOK /\ TypeOK'
  BY StepTyped DEF ArchiveInv
<1>2. DataNeverLost'
  <2>. SUFFICES ASSUME NEW f \in Files, raw'[f] = "deleted" PROVE Kept(f)'
    BY DEF DataNeverLost, Kept
  <2>1. CASE raw[f] = "deleted"
    <3>1. Kept(f)
      BY <2>1 DEF ArchiveInv, DataNeverLost, Kept
    <3>. QED BY <1>1, <3>1, KeptStays
  <2>2. CASE raw[f] # "deleted"
    <3>1. PICK p \in Procs : pc[p] = "delete" /\ f \in job[p].plan.files
      BY <1>1, <2>2, DeletedFromPlan
    <3>. QED BY <3>1, ApprovedStays
  <2>. QED BY <2>1, <2>2
<1>3. DeletesApproved'
  <2>. SUFFICES ASSUME NEW p \in Procs, pc'[p] = "delete" PROVE Approved(job[p].plan)'
    BY DEF DeletesApproved
  <2>1. CASE pc[p] = "delete" /\ job'[p].plan = job[p].plan
    BY <2>1, ApprovedStays DEF Approved
  <2>2. CASE Preflight(p)
    BY <1>1, <2>2, PreflightApproves
  <2>. QED BY <1>1, <2>1, <2>2, DeleteBefore
<1>. QED BY <1>1, <1>2, <1>3 DEF ArchiveInv

\* The invariant holds in every behaviour.
LEMMA ArchiveInvariant == Spec => []ArchiveInv
<1>1. Init => ArchiveInv
  BY InitTyped DEF Init, ArchiveInv, DataNeverLost, DeletesApproved
<1>. QED BY <1>1, ArchiveStep, PTL DEF Spec

\* No record is lost by retention: every raw file that apply_raw_retention
\* deleted is in the committed archive of its day.
THEOREM DataNeverLostHolds == Spec => []DataNeverLost
<1>1. ArchiveInv => DataNeverLost
  BY DEF ArchiveInv
<1>. QED BY <1>1, ArchiveInvariant, PTL

\* A step of retention deletes only files of days before the last Retention
\* days, whatever plan was approved.
THEOREM RecentKeptHolds == Spec => RecentKept
<1>1. ArchiveInv /\ [Next]_vars =>
        [\A f \in Files : raw[f] # raw'[f] /\ raw'[f] = "deleted"
                            => DayOf[f] + Retention < today]_vars
  <2>. SUFFICES ASSUME ArchiveInv, [Next]_vars,
                       NEW f \in Files, raw'[f] # raw[f], raw'[f] = "deleted"
                PROVE  DayOf[f] + Retention < today
    OBVIOUS
  <2>1. PICK p \in Procs : pc[p] = "delete" /\ f \in job[p].plan.files
    BY DeletedFromPlan DEF ArchiveInv
  <2>2. Approved(job[p].plan)
    BY <2>1 DEF ArchiveInv, DeletesApproved
  <2>3. job[p].plan.asOf \in Days /\ today \in Days
    BY <2>1, ApplyJob DEF ArchiveInv, ApplyPlaces, TypeOK, Plans
  <2>. QED BY <2>1, <2>2, <2>3, ArchiveAssumption DEF Approved, Days
<1>. QED BY <1>1, ArchiveInvariant, PTL DEF Spec, RecentKept

\* A step of retention deletes only files of days whose archive matched its
\* SHA-256 when the deletions began.
THEOREM DeletedWhileVerifiedHolds == Spec => DeletedWhileVerified
<1>1. ArchiveInv /\ [Next]_vars =>
        [\A f \in Files : raw[f] # raw'[f] /\ raw'[f] = "deleted"
                            => DayOf[f] \notin damaged]_vars
  <2>. SUFFICES ASSUME ArchiveInv, [Next]_vars,
                       NEW f \in Files, raw'[f] # raw[f], raw'[f] = "deleted"
                PROVE  DayOf[f] \notin damaged
    OBVIOUS
  <2>1. PICK p \in Procs : pc[p] = "delete" /\ f \in job[p].plan.files
    BY DeletedFromPlan DEF ArchiveInv
  <2>. QED BY <2>1 DEF ArchiveInv, DeletesApproved, Approved
<1>. QED BY <1>1, ArchiveInvariant, PTL DEF Spec, DeletedWhileVerified

-----------------------------------------------------------------------------
(* Receipts *)

\* What the receipt r and the deletions u of a command's output say about it when
\* it is at place l with job j; lost says that its lock could not be released.
Account(l, j, r, u, lost) ==
  \/ l = "called" /\ (j.existed <=> r # None) /\ j.deleted = {} /\ j.listed = {}
  \/ l = "checked" /\ ~j.existed /\ r = None /\ j.deleted = {} /\ j.listed = {}
  \/ /\ l = "delete" /\ ~j.existed
     /\ r # None /\ ~r.complete /\ r.deleted = j.listed
     /\ u = j.deleted /\ j.listed \subseteq j.deleted /\ j.deleted \subseteq j.plan.files
     /\ j.deleted \ j.listed \subseteq Batch(j)
  \/ /\ l = "report"
     /\ ~j.existed => j.deleted \subseteq u /\ (lost \/ u = j.deleted)
     /\ ~j.existed /\ r # None => r.deleted \subseteq u

\* ReceiptsAccount of one output.
Accounted(r, u, lost) ==
  LET listed == IF r = None THEN {} ELSE r.deleted IN
  /\ r = None => u = {}
  /\ listed \subseteq u
  /\ lost \/ \A f, g \in u \ listed : DayOf[f] = DayOf[g]
  /\ r # None /\ r.complete => u \ listed = {}

\* One command at a time works on an output.
OneCommand ==
  \A p, q \in Procs :
    pc[p] \in ApplyPlaces /\ pc[q] \in ApplyPlaces /\ job[p].output = job[q].output => p = q

CommandsAccount ==
  \A p \in Procs : pc[p] \in ApplyPlaces =>
    Account(pc[p], job[p], receipt[job[p].output], unlinked[job[p].output],
            stuck[job[p].output])

OutputsAccount == \A o \in Outputs : Accounted(receipt[o], unlinked[o], stuck[o])

Accounts == OneCommand /\ CommandsAccount /\ OutputsAccount

ReceiptInv == TypeOK /\ Accounts

\* What the receipt r lists, s lists too, unless it is lost.
Keeps(r, s, lost) == r # None => s # None /\ (lost \/ r.deleted \subseteq s.deleted)

\* A step of one command that changes at most the receipt of its own output.
LEMMA OutputStep ==
  ASSUME ReceiptInv, NEW p \in Procs, NEW o \in Outputs,
         \A q \in Procs : q # p => pc'[q] = pc[q] /\ job'[q] = job[q],
         \A x \in Outputs : x # o => /\ receipt'[x] = receipt[x] /\ unlinked'[x] = unlinked[x]
                                     /\ stuck'[x] = stuck[x],
         \A q \in Procs : q # p /\ pc[q] \in ApplyPlaces => job[q].output # o,
         pc'[p] \in ApplyPlaces => /\ job'[p].output = o
                                   /\ Account(pc'[p], job'[p], receipt'[o], unlinked'[o], stuck'[o]),
         Accounted(receipt'[o], unlinked'[o], stuck'[o]), Keeps(receipt[o], receipt'[o], stuck[o])
  PROVE  Accounts' /\ \A x \in Outputs : Keeps(receipt[x], receipt'[x], stuck[x])
<1>1. OneCommand /\ CommandsAccount /\ OutputsAccount
  BY DEF ReceiptInv, Accounts
<1>2. \A q \in Procs : pc[q] \in ApplyPlaces => job[q].output \in Outputs
  BY ApplyJob DEF ReceiptInv
<1>3. OneCommand'
  BY <1>1 DEF OneCommand
<1>4. ASSUME NEW q \in Procs, pc'[q] \in ApplyPlaces
      PROVE  Account(pc'[q], job'[q], receipt'[job'[q].output], unlinked'[job'[q].output],
                     stuck'[job'[q].output])
  <2>1. CASE q = p
    BY <1>4, <2>1
  <2>2. CASE q # p
    <3>1. /\ pc'[q] = pc[q] /\ job'[q] = job[q] /\ pc[q] \in ApplyPlaces
          /\ job[q].output \in Outputs /\ job[q].output # o
      BY <1>2, <1>4, <2>2
    <3>2. Account(pc[q], job[q], receipt[job[q].output], unlinked[job[q].output],
                stuck[job[q].output])
      BY <1>1, <3>1 DEF CommandsAccount
    <3>. QED BY <3>1, <3>2
  <2>. QED BY <2>1, <2>2
<1>5. ASSUME NEW x \in Outputs
      PROVE  Accounted(receipt'[x], unlinked'[x], stuck'[x]) /\ Keeps(receipt[x], receipt'[x], stuck[x])
  <2>1. CASE x = o
    BY <2>1
  <2>2. CASE x # o
    <3>1. Accounted(receipt[x], unlinked[x], stuck[x])
      BY <1>1 DEF OutputsAccount
    <3>. QED BY <2>2, <3>1 DEF Keeps
  <2>. QED BY <2>1, <2>2
<1>. QED BY <1>3, <1>4, <1>5 DEF Accounts, CommandsAccount, OutputsAccount

\* A step after which the commands that apply are those that applied before.
LEMMA QuietStep ==
  ASSUME ReceiptInv, UNCHANGED told,
         \A q \in Procs : pc'[q] \in ApplyPlaces => pc'[q] = pc[q] /\ job'[q] = job[q]
  PROVE  Accounts' /\ \A x \in Outputs : Keeps(receipt[x], receipt'[x], stuck[x])
<1>. USE DEF told
<1>1. OneCommand /\ CommandsAccount /\ OutputsAccount
  BY DEF ReceiptInv, Accounts
<1>2. OneCommand'
  BY <1>1 DEF OneCommand
<1>3. CommandsAccount'
  <2>1. ASSUME NEW q \in Procs, pc'[q] \in ApplyPlaces
        PROVE  Account(pc'[q], job'[q], receipt'[job'[q].output], unlinked'[job'[q].output],
                     stuck'[job'[q].output])
    <3>1. pc'[q] = pc[q] /\ job'[q] = job[q]
      BY <2>1
    <3>2. Account(pc[q], job[q], receipt[job[q].output], unlinked[job[q].output],
                stuck[job[q].output])
      BY <1>1, <2>1, <3>1 DEF CommandsAccount
    <3>. QED BY <3>1, <3>2
  <2>. QED BY <2>1 DEF CommandsAccount
<1>4. OutputsAccount'
  BY <1>1 DEF OutputsAccount
<1>5. \A x \in Outputs : Keeps(receipt[x], receipt'[x], stuck[x])
  BY DEF Keeps
<1>. QED BY <1>2, <1>3, <1>4, <1>5 DEF Accounts

\* The steps of a command that are not of an apply, and its end.
LEMMA QuietCommand ==
  ASSUME ReceiptInv, NEW p \in Procs,
         \/ (\E d \in Days : ArchiveDay(p, d)) \/ AbandonDay(p) \/ CommitDay(p)
         \/ RebuildCatalog(p) \/ BuildCatalog(p) \/ Crash(p)
         \/ Quit(p) /\ UNCHANGED told
  PROVE  Accounts' /\ \A x \in Outputs : Keeps(receipt[x], receipt'[x], stuck[x])
<1>1. UNCHANGED told
  BY DEF ArchiveDay, AbandonDay, CommitDay, RebuildCatalog, BuildCatalog, Crash
<1>2. /\ pc \in [Procs -> {"idle", "build", "catalog"} \cup ApplyPlaces]
      /\ job \in [Procs -> {None} \cup BuildJobs \cup ApplyJobs]
  BY DEF ReceiptInv, TypeOK
<1>3. \A q \in Procs : q # p => pc'[q] = pc[q] /\ job'[q] = job[q]
  BY <1>2 DEF ArchiveDay, AbandonDay, CommitDay, RebuildCatalog, BuildCatalog, Crash, Quit, Goto
<1>4. pc'[p] \in {"idle", "build", "catalog"}
  BY <1>2 DEF ArchiveDay, AbandonDay, CommitDay, RebuildCatalog, BuildCatalog, Crash, Quit, Goto
<1>5. pc'[p] \notin ApplyPlaces
  BY <1>4 DEF ApplyPlaces
<1>. QED BY <1>1, <1>3, <1>5, QuietStep

\* What the invariant says of a command that applies and of its output.
LEMMA Applying ==
  ASSUME ReceiptInv, NEW p \in Procs, pc[p] \in ApplyPlaces
  PROVE  /\ job[p] \in ApplyJobs /\ job[p].output \in Outputs
         /\ \A q \in Procs : q # p /\ pc[q] \in ApplyPlaces => job[q].output # job[p].output
         /\ Account(pc[p], job[p], receipt[job[p].output], unlinked[job[p].output],
                    stuck[job[p].output])
         /\ Accounted(receipt[job[p].output], unlinked[job[p].output],
                    stuck[job[p].output])
<1>1. job[p] \in ApplyJobs /\ job[p].output \in Outputs
  BY ApplyJob DEF ReceiptInv
<1>. QED BY <1>1 DEF ReceiptInv, Accounts, OneCommand, CommandsAccount, OutputsAccount

\* A process that applies goes on to a place with its job.
LEMMA Moves ==
  ASSUME TypeOK, NEW p \in Procs, NEW l, Goto(p, l)
  PROVE  pc'[p] = l /\ \A q \in Procs : q # p => pc'[q] = pc[q]
BY DEF TypeOK, Goto

\* A receipt that is written is that of the command's output.
LEMMA Lists ==
  ASSUME TypeOK, NEW p \in Procs, job[p].output \in Outputs,
         NEW files, NEW complete, List(p, files, complete)
  PROVE  /\ receipt'[job[p].output] = [deleted |-> files, complete |-> complete]
         /\ \A x \in Outputs : x # job[p].output => receipt'[x] = receipt[x]
BY DEF TypeOK, List

\* A receipt is not the absence of one.
LEMMA NewReceipt ==
  ASSUME NEW files \in SUBSET Files, NEW c \in BOOLEAN
  PROVE  LET r == [deleted |-> files, complete |-> c] IN
         r.deleted = files /\ r.complete = c /\ r # None
BY ArchiveAssumption

\* A command begins with an output that nobody works on.
LEMMA StepCallApply ==
  ASSUME SharedOutput = FALSE, ReceiptInv, NEW p \in Procs, NEW o \in Outputs, CallApply(p, o)
  PROVE  Accounts' /\ \A x \in Outputs : Keeps(receipt[x], receipt'[x], stuck[x])
<1>. DEFINE e == receipt[o] # None
            j == [output |-> o, existed |-> e, plan |-> plan, deleted |-> {}, listed |-> {}]
<1>1. TypeOK /\ ~InUse(o) /\ Goto(p, "called") /\ job' = [job EXCEPT ![p] = j]
      /\ UNCHANGED <<receipt, unlinked, stuck>>
  BY DEF CallApply, ReceiptInv, told
<1>2. j.output = o /\ (j.existed <=> e) /\ j.deleted = {} /\ j.listed = {}
  OBVIOUS
<1>. HIDE DEF j
<1>3. job'[p] = j /\ \A q \in Procs : q # p => job'[q] = job[q]
  BY <1>1 DEF TypeOK
<1>4. pc'[p] = "called" /\ \A q \in Procs : q # p => pc'[q] = pc[q]
  BY <1>1, Moves
<1>5. \A q \in Procs : q # p /\ pc[q] \in ApplyPlaces => job[q].output # o
  BY <1>1 DEF InUse, ApplyPlaces
<1>6. Accounted(receipt'[o], unlinked'[o], stuck'[o]) /\ Keeps(receipt[o], receipt'[o], stuck[o])
  BY <1>1 DEF ReceiptInv, Accounts, OutputsAccount, Keeps
<1>7. Account(pc'[p], job'[p], receipt'[o], unlinked'[o], stuck'[o])
  BY <1>1, <1>2, <1>3, <1>4 DEF Account
<1>. QED BY <1>1, <1>2, <1>3, <1>4, <1>5, <1>6, <1>7, OutputStep

\* A command looks for its receipt, or is refused by the preflight.
LEMMA StepCheck ==
  ASSUME ReceiptInv, NEW p \in Procs, CheckReceipt(p) \/ Reject(p)
  PROVE  Accounts' /\ \A x \in Outputs : Keeps(receipt[x], receipt'[x], stuck[x])
<1>. DEFINE o == job[p].output
            l == IF pc[p] = "called" /\ receipt[o] = None THEN "checked" ELSE "report"
<1>1. /\ TypeOK /\ pc[p] \in {"called", "checked"} /\ Goto(p, l)
      /\ UNCHANGED <<job, receipt, unlinked, stuck>>
  BY DEF CheckReceipt, Reject, ReceiptInv, told
<1>2. pc[p] \in ApplyPlaces
  BY <1>1 DEF ApplyPlaces
<1>3. /\ o \in Outputs
      /\ \A q \in Procs : q # p /\ pc[q] \in ApplyPlaces => job[q].output # o
      /\ Account(pc[p], job[p], receipt[o], unlinked[o], stuck[o])
      /\ Accounted(receipt[o], unlinked[o], stuck[o])
  BY <1>2, Applying
<1>. HIDE DEF l, o
<1>4. pc'[p] = l /\ \A q \in Procs : q # p => pc'[q] = pc[q]
  BY <1>1, Moves
<1>5. Account(l, job[p], receipt[o], unlinked[o], stuck[o])
  BY <1>1, <1>3 DEF Account, Accounted, l
<1>6. Keeps(receipt[o], receipt[o], stuck[o])
  BY DEF Keeps
<1>7. job'[p].output = o
  BY <1>1 DEF o
<1>. QED BY <1>1, <1>3, <1>4, <1>5, <1>6, <1>7, OutputStep

\* The preflight makes the receipt.
LEMMA StepPreflight ==
  ASSUME ReceiptInv, NEW p \in Procs, Preflight(p)
  PROVE  Accounts' /\ \A x \in Outputs : Keeps(receipt[x], receipt'[x], stuck[x])
<1>. DEFINE o == job[p].output
            r == [deleted |-> {}, complete |-> FALSE]
<1>1. /\ TypeOK /\ pc[p] = "checked" /\ Goto(p, "delete") /\ List(p, {}, FALSE)
      /\ UNCHANGED <<job, unlinked, stuck>>
  BY DEF Preflight, ReceiptInv
<1>2. pc[p] \in ApplyPlaces
  BY <1>1 DEF ApplyPlaces
<1>3. /\ o \in Outputs
      /\ \A q \in Procs : q # p /\ pc[q] \in ApplyPlaces => job[q].output # o
      /\ Account(pc[p], job[p], receipt[o], unlinked[o], stuck[o])
      /\ Accounted(receipt[o], unlinked[o], stuck[o])
  BY <1>2, Applying
<1>4. receipt'[o] = r /\ \A x \in Outputs : x # o => receipt'[x] = receipt[x]
  BY <1>1, <1>3, Lists
<1>5. pc'[p] = "delete" /\ \A q \in Procs : q # p => pc'[q] = pc[q]
  BY <1>1, Moves
<1>6. r.deleted = {} /\ r.complete = FALSE /\ r # None
  BY NewReceipt
<1>. HIDE DEF o, r
<1>7. receipt[o] = None /\ unlinked[o] = {} /\ ~job[p].existed
      /\ job[p].deleted = {} /\ job[p].listed = {}
  BY <1>1, <1>3 DEF Account, Accounted
<1>8. Account("delete", job[p], r, unlinked[o], stuck[o])
  BY <1>6, <1>7 DEF Account
<1>9. Accounted(r, unlinked[o], stuck[o]) /\ Keeps(receipt[o], r, stuck[o])
  BY <1>6, <1>7 DEF Accounted, Keeps
<1>10. job'[p].output = o
  BY <1>1 DEF o
<1>. QED BY <1>1, <1>3, <1>4, <1>5, <1>8, <1>9, <1>10, OutputStep

\* A file is deleted.
LEMMA StepDelete ==
  ASSUME ReceiptInv, NEW p \in Procs, NEW f \in Files, DeleteFile(p, f)
  PROVE  Accounts' /\ \A x \in Outputs : Keeps(receipt[x], receipt'[x], stuck[x])
<1>. DEFINE o == job[p].output
            j == [job[p] EXCEPT !.deleted = @ \cup {f}]
<1>1. /\ TypeOK /\ pc[p] = "delete" /\ f \in Batch(job[p]) /\ UNCHANGED <<pc, receipt, stuck>>
      /\ job' = [job EXCEPT ![p] = j] /\ unlinked' = [unlinked EXCEPT ![o] = @ \cup {f}]
  BY DEF DeleteFile, ReceiptInv
<1>2. pc[p] \in ApplyPlaces
  BY <1>1 DEF ApplyPlaces
<1>3. /\ job[p] \in ApplyJobs /\ o \in Outputs
      /\ \A q \in Procs : q # p /\ pc[q] \in ApplyPlaces => job[q].output # o
      /\ Account(pc[p], job[p], receipt[o], unlinked[o], stuck[o])
      /\ Accounted(receipt[o], unlinked[o], stuck[o])
  BY <1>2, Applying
<1>4. /\ j.output = o /\ j.existed = job[p].existed /\ j.plan = job[p].plan
      /\ j.deleted = job[p].deleted \cup {f} /\ j.listed = job[p].listed
  BY <1>3 DEF ApplyJobs
<1>5. Batch(j) = Batch(job[p])
  BY <1>4 DEF Batch
<1>. HIDE DEF j
<1>6. job'[p] = j /\ \A q \in Procs : q # p => job'[q] = job[q]
  BY <1>1 DEF TypeOK
<1>7. /\ unlinked'[o] = unlinked[o] \cup {f} /\ UNCHANGED stuck
      /\ \A x \in Outputs : x # o => unlinked'[x] = unlinked[x]
  BY <1>1, <1>3 DEF TypeOK
<1>. HIDE DEF o
<1>8. /\ ~job[p].existed /\ receipt[o] # None /\ ~receipt[o].complete
      /\ receipt[o].deleted = job[p].listed /\ unlinked[o] = job[p].deleted
      /\ job[p].listed \subseteq job[p].deleted /\ job[p].deleted \subseteq job[p].plan.files
      /\ job[p].deleted \ job[p].listed \subseteq Batch(job[p])
  BY <1>1, <1>3 DEF Account
<1>9. f \in job[p].plan.files
  BY <1>1 DEF Batch
<1>10. Account("delete", j, receipt[o], unlinked'[o], stuck'[o])
  BY <1>1, <1>4, <1>5, <1>7, <1>8, <1>9 DEF Account
<1>11. \A g, h \in Batch(job[p]) : DayOf[g] = DayOf[h]
  <2>1. job[p].plan.files \in SUBSET Files
    BY <1>1, <1>2, ApplyJob
  <2>2. \A g \in Files : DayOf[g] \in Int
    BY ArchiveAssumption DEF Days
  <2>3. \A g, h \in Batch(job[p]) : DayOf[g] <= DayOf[h] /\ DayOf[h] <= DayOf[g]
    BY DEF Batch
  <2>4. Batch(job[p]) \subseteq Files
    BY <2>1 DEF Batch
  <2>. QED BY <2>2, <2>3, <2>4
<1>12. Accounted(receipt[o], unlinked'[o], stuck'[o])
  BY <1>1, <1>7, <1>8, <1>11 DEF Accounted
<1>13. Keeps(receipt[o], receipt[o], stuck[o])
  BY DEF Keeps
<1>14. /\ \A q \in Procs : q # p => pc'[q] = pc[q] /\ job'[q] = job[q]
       /\ \A x \in Outputs : x # o => /\ receipt'[x] = receipt[x] /\ unlinked'[x] = unlinked[x]
                                      /\ stuck'[x] = stuck[x]
  BY <1>1, <1>6, <1>7
<1>15. job'[p].output = o /\ Account(pc'[p], job'[p], receipt'[o], unlinked'[o], stuck'[o])
  BY <1>1, <1>4, <1>6, <1>10 DEF o
<1>16. Accounted(receipt'[o], unlinked'[o], stuck'[o]) /\ Keeps(receipt[o], receipt'[o], stuck[o])
  BY <1>1, <1>12, <1>13
<1>. QED BY <1>3, <1>14, <1>15, <1>16, OutputStep

\* The receipt lists the deletions of a finished day.
LEMMA StepFinishDay ==
  ASSUME ReceiptInv, NEW p \in Procs, FinishDay(p)
  PROVE  Accounts' /\ \A x \in Outputs : Keeps(receipt[x], receipt'[x], stuck[x])
<1>. DEFINE o == job[p].output
            j == [job[p] EXCEPT !.listed = job[p].deleted]
            r == [deleted |-> job[p].deleted, complete |-> FALSE]
<1>1. /\ TypeOK /\ pc[p] = "delete" /\ List(p, job[p].deleted, FALSE)
      /\ UNCHANGED <<pc, unlinked, stuck>> /\ job' = [job EXCEPT ![p] = j]
  BY DEF FinishDay, ReceiptInv, TypeOK
<1>2. pc[p] \in ApplyPlaces
  BY <1>1 DEF ApplyPlaces
<1>3. /\ job[p] \in ApplyJobs /\ o \in Outputs
      /\ \A q \in Procs : q # p /\ pc[q] \in ApplyPlaces => job[q].output # o
      /\ Account(pc[p], job[p], receipt[o], unlinked[o], stuck[o])
  BY <1>2, Applying
<1>4. /\ j.output = o /\ j.existed = job[p].existed /\ j.plan = job[p].plan
      /\ j.deleted = job[p].deleted /\ j.listed = job[p].deleted
  BY <1>3 DEF ApplyJobs
<1>5. r.deleted = job[p].deleted /\ r.complete = FALSE /\ r # None
  BY <1>3, NewReceipt DEF ApplyJobs
<1>6. receipt'[o] = r /\ \A x \in Outputs : x # o => receipt'[x] = receipt[x]
  BY <1>1, <1>3, Lists
<1>. HIDE DEF j, r
<1>7. job'[p] = j /\ \A q \in Procs : q # p => job'[q] = job[q]
  BY <1>1 DEF TypeOK
<1>. HIDE DEF o
<1>8. /\ ~job[p].existed /\ receipt[o] # None /\ receipt[o].deleted = job[p].listed
      /\ unlinked[o] = job[p].deleted
      /\ job[p].listed \subseteq job[p].deleted /\ job[p].deleted \subseteq job[p].plan.files
  BY <1>1, <1>3 DEF Account
<1>9. Account("delete", j, r, unlinked[o], stuck[o])
  BY <1>4, <1>5, <1>8 DEF Account
<1>10. Accounted(r, unlinked[o], stuck[o]) /\ Keeps(receipt[o], r, stuck[o])
  BY <1>5, <1>8 DEF Accounted, Keeps
<1>. QED BY <1>1, <1>3, <1>4, <1>6, <1>7, <1>9, <1>10, OutputStep

\* The last receipt of an apply, or the failure receipt, when the lock is released.
LEMMA StepEnd ==
  ASSUME ReceiptInv, NEW p \in Procs, FinishApply(p) \/ FailApply(p), UNCHANGED stuck,
         Quit(p) \/ (Goto(p, "report") /\ UNCHANGED job)
  PROVE  Accounts' /\ \A x \in Outputs : Keeps(receipt[x], receipt'[x], stuck[x])
<1>. DEFINE o == job[p].output
<1>1. PICK c \in BOOLEAN : List(p, job[p].deleted, c)
  BY DEF FinishApply, FailApply
<1>2. /\ TypeOK /\ pc[p] = "delete" /\ UNCHANGED <<unlinked, stuck>>
      /\ \/ Quit(p)
         \/ Goto(p, "report") /\ UNCHANGED job
  BY DEF FinishApply, FailApply, ReceiptInv
<1>3. pc[p] \in ApplyPlaces
  BY <1>2 DEF ApplyPlaces
<1>4. /\ job[p] \in ApplyJobs /\ o \in Outputs
      /\ \A q \in Procs : q # p /\ pc[q] \in ApplyPlaces => job[q].output # o
      /\ Account(pc[p], job[p], receipt[o], unlinked[o], stuck[o])
  BY <1>3, Applying
<1>. DEFINE r == [deleted |-> job[p].deleted, complete |-> c]
<1>5. r.deleted = job[p].deleted /\ r # None
  BY <1>4, NewReceipt DEF ApplyJobs
<1>6. receipt'[o] = r /\ \A x \in Outputs : x # o => receipt'[x] = receipt[x]
  BY <1>1, <1>2, <1>4, Lists
<1>. HIDE DEF r
<1>7. \A q \in Procs : q # p => pc'[q] = pc[q] /\ job'[q] = job[q]
  BY <1>2 DEF Quit, Goto, TypeOK
<1>8. pc'[p] = "idle" \/ (pc'[p] = "report" /\ job'[p] = job[p])
  BY <1>2 DEF Quit, Goto, TypeOK
<1>9. /\ receipt[o] # None /\ receipt[o].deleted = job[p].listed
      /\ unlinked[o] = job[p].deleted /\ job[p].listed \subseteq job[p].deleted
  BY <1>2, <1>4 DEF Account
<1>10. Accounted(r, unlinked[o], stuck[o]) /\ Keeps(receipt[o], r, stuck[o])
  BY <1>5, <1>9 DEF Accounted, Keeps
<1>11. pc'[p] \in ApplyPlaces => /\ job'[p].output = o
                                 /\ Account(pc'[p], job'[p], r, unlinked[o], stuck[o])
  <2>1. Account("report", job[p], r, unlinked[o], stuck[o])
    BY <1>5, <1>9 DEF Account
  <2>. QED BY <1>8, <2>1 DEF ApplyPlaces
<1>. HIDE DEF o
<1>. QED BY <1>2, <1>4, <1>6, <1>7, <1>10, <1>11, OutputStep

\* The lock of an apply cannot be released, whatever became of its receipt.
LEMMA StepKeeping ==
  ASSUME ReceiptInv, NEW p \in Procs, pc[p] = "delete", Keeping(p), UNCHANGED unlinked,
         UNCHANGED receipt \/ \E c \in BOOLEAN : List(p, job[p].deleted, c)
  PROVE  Accounts' /\ \A x \in Outputs : Keeps(receipt[x], receipt'[x], stuck[x])
<1>. DEFINE o == job[p].output
            j == [job[p] EXCEPT !.deleted = {}]
<1>1. TypeOK /\ pc[p] \in ApplyPlaces
  BY DEF ReceiptInv, ApplyPlaces
<1>2. /\ job[p] \in ApplyJobs /\ o \in Outputs
      /\ \A q \in Procs : q # p /\ pc[q] \in ApplyPlaces => job[q].output # o
      /\ Account(pc[p], job[p], receipt[o], unlinked[o], stuck[o])
  BY <1>1, Applying
<1>3. /\ Goto(p, "report") /\ job' = [job EXCEPT ![p] = j]
      /\ stuck' = [stuck EXCEPT ![o] = TRUE]
  BY DEF Keeping
<1>4. j.output = o /\ j.existed = job[p].existed /\ j.deleted = {}
  BY <1>2 DEF ApplyJobs
<1>5. \A x \in Outputs : x # o => receipt'[x] = receipt[x]
  BY <1>1, <1>2, Lists
<1>6. receipt'[o] = receipt[o] \/ (receipt'[o] # None /\ receipt'[o].deleted = job[p].deleted)
  <2>1. CASE UNCHANGED receipt
    BY <2>1
  <2>2. ASSUME NEW c \in BOOLEAN, List(p, job[p].deleted, c)
        PROVE  receipt'[o] # None /\ receipt'[o].deleted = job[p].deleted
    <3>1. receipt'[o] = [deleted |-> job[p].deleted, complete |-> c]
      BY <1>1, <1>2, <2>2, Lists
    <3>2. job[p].deleted \in SUBSET Files
      BY <1>2 DEF ApplyJobs
    <3>. QED BY <3>1, <3>2, NewReceipt
  <2>. QED BY <2>1, <2>2
<1>. HIDE DEF j
<1>7. job'[p] = j /\ \A q \in Procs : q # p => job'[q] = job[q]
  BY <1>1, <1>3 DEF TypeOK
<1>8. pc'[p] = "report" /\ \A q \in Procs : q # p => pc'[q] = pc[q]
  BY <1>1, <1>3, Moves
<1>9. stuck'[o] = TRUE /\ \A x \in Outputs : x # o => stuck'[x] = stuck[x]
  BY <1>1, <1>2, <1>3 DEF TypeOK
<1>. HIDE DEF o
<1>10. /\ receipt[o] # None /\ ~receipt[o].complete /\ receipt[o].deleted = job[p].listed
       /\ unlinked'[o] = job[p].deleted /\ job[p].listed \subseteq job[p].deleted
  BY <1>2 DEF Account
<1>11. /\ receipt'[o] # None /\ receipt[o].deleted \subseteq receipt'[o].deleted
       /\ receipt'[o].deleted \subseteq unlinked'[o]
       /\ receipt'[o].complete => receipt'[o].deleted = unlinked'[o]
  BY <1>6, <1>10
<1>12. Account("report", j, receipt'[o], unlinked'[o], stuck'[o])
  BY <1>4, <1>9, <1>11 DEF Account
<1>13. Accounted(receipt'[o], unlinked'[o], stuck'[o]) /\ Keeps(receipt[o], receipt'[o], stuck[o])
  BY <1>9, <1>11 DEF Accounted, Keeps
<1>14. job'[p].output = o /\ Account(pc'[p], job'[p], receipt'[o], unlinked'[o], stuck'[o])
  BY <1>4, <1>7, <1>8, <1>12
<1>15. \A x \in Outputs : x # o => /\ receipt'[x] = receipt[x] /\ unlinked'[x] = unlinked[x]
                                   /\ stuck'[x] = stuck[x]
  BY <1>5, <1>9
<1>. QED BY <1>2, <1>7, <1>8, <1>13, <1>14, <1>15, OutputStep

\* The block that holds the lock of an apply ends.
LEMMA StepLeave ==
  ASSUME ReceiptInv, NEW p \in Procs, FinishApply(p) \/ FailApply(p) \/ LoseReceipt(p)
  PROVE  Accounts' /\ \A x \in Outputs : Keeps(receipt[x], receipt'[x], stuck[x])
<1>1. CASE Keeping(p)
  <2>1. pc[p] = "delete" /\ UNCHANGED unlinked
    BY DEF FinishApply, FailApply, LoseReceipt
  <2>2. UNCHANGED receipt \/ \E c \in BOOLEAN : List(p, job[p].deleted, c)
    BY DEF FinishApply, FailApply, LoseReceipt
  <2>. QED BY <1>1, <2>1, <2>2, StepKeeping
<1>2. CASE ~Keeping(p) /\ (FinishApply(p) \/ FailApply(p))
  <2>1. UNCHANGED stuck /\ (Quit(p) \/ (Goto(p, "report") /\ UNCHANGED job))
    BY <1>2 DEF FinishApply, FailApply, Leave, Keeping
  <2>. QED BY <1>2, <2>1, StepEnd
<1>3. CASE ~Keeping(p) /\ LoseReceipt(p)
  <2>1. Quit(p) /\ UNCHANGED told
    BY <1>3 DEF LoseReceipt, Leave, Keeping, told
  <2>. QED BY <2>1, QuietCommand
<1>. QED BY <1>1, <1>2, <1>3

\* The report of a command that was rejected or has failed.
LEMMA StepReport ==
  ASSUME ReceiptInv, NEW p \in Procs, Report(p)
  PROVE  Accounts' /\ \A x \in Outputs : Keeps(receipt[x], receipt'[x], stuck[x])
<1>. DEFINE o == job[p].output
            r == [deleted |-> job[p].deleted, complete |-> FALSE]
<1>1. /\ TypeOK /\ pc[p] = "report" /\ Quit(p) /\ UNCHANGED <<unlinked, stuck>>
      /\ IF ~job[p].existed THEN List(p, job[p].deleted, FALSE) ELSE UNCHANGED receipt
  BY DEF Report, Writes, ReceiptInv
<1>2. pc[p] \in ApplyPlaces
  BY <1>1 DEF ApplyPlaces
<1>3. /\ job[p] \in ApplyJobs /\ o \in Outputs
      /\ \A q \in Procs : q # p /\ pc[q] \in ApplyPlaces => job[q].output # o
      /\ Account(pc[p], job[p], receipt[o], unlinked[o], stuck[o])
      /\ Accounted(receipt[o], unlinked[o], stuck[o])
  BY <1>2, Applying
<1>4. \A q \in Procs : q # p => pc'[q] = pc[q] /\ job'[q] = job[q]
  BY <1>1 DEF Quit, Goto, TypeOK
<1>5. pc'[p] \notin ApplyPlaces
  BY <1>1 DEF Quit, Goto, TypeOK, ApplyPlaces
<1>6. CASE job[p].existed
  <2>1. \A q \in Procs : pc'[q] \in ApplyPlaces => pc'[q] = pc[q] /\ job'[q] = job[q]
    BY <1>4, <1>5
  <2>2. UNCHANGED told
    BY <1>1, <1>6 DEF told
  <2>. QED BY <2>1, <2>2, QuietStep
<1>7. CASE ~job[p].existed
  <2>1. r.deleted = job[p].deleted /\ r.complete = FALSE /\ r # None
    BY <1>3, NewReceipt DEF ApplyJobs
  <2>2. receipt'[o] = r /\ \A x \in Outputs : x # o => receipt'[x] = receipt[x]
    BY <1>1, <1>3, <1>7, Lists
  <2>. HIDE DEF r
  <2>3. /\ job[p].deleted \subseteq unlinked[o]
        /\ stuck[o] \/ unlinked[o] = job[p].deleted
        /\ receipt[o] # None => receipt[o].deleted \subseteq unlinked[o]
    BY <1>1, <1>3, <1>7 DEF Account
  <2>4. Accounted(r, unlinked[o], stuck[o]) /\ Keeps(receipt[o], r, stuck[o])
    <3>1. CASE stuck[o]
      BY <2>1, <2>3, <3>1 DEF Accounted, Keeps
    <3>2. CASE ~stuck[o]
      BY <2>1, <2>3, <3>2 DEF Accounted, Keeps
    <3>. QED BY <3>1, <3>2
  <2>. HIDE DEF o
  <2>. QED BY <1>1, <1>3, <1>4, <1>5, <2>2, <2>4, OutputStep
<1>. QED BY <1>6, <1>7

\* Every step keeps the invariant, and what a receipt lists.
LEMMA ReceiptStep ==
  ASSUME SharedOutput = FALSE, ReceiptInv, [Next]_vars
  PROVE  ReceiptInv' /\ \A x \in Outputs : Keeps(receipt[x], receipt'[x], stuck[x])
<1>1. TypeOK'
  BY StepTyped DEF ReceiptInv
<1>2. CASE \/ NextDay \/ ClearLock \/ (\E f \in Files : CreateFile(f) \/ FinishFile(f))
           \/ (\E d \in Days : Damage(d) \/ PlanRetention(d)) \/ UNCHANGED vars
  <2>1. UNCHANGED <<told, pc, job>>
    BY <1>2 DEF NextDay, ClearLock, CreateFile, FinishFile, Damage, PlanRetention, vars, told
  <2>. QED BY <1>1, <2>1, QuietStep DEF ReceiptInv
<1>3. ASSUME NEW p \in Procs, Command(p)
      PROVE  Accounts' /\ \A x \in Outputs : Keeps(receipt[x], receipt'[x], stuck[x])
  <2>1. CASE \/ (\E d \in Days : ArchiveDay(p, d)) \/ AbandonDay(p) \/ CommitDay(p)
             \/ RebuildCatalog(p) \/ BuildCatalog(p) \/ Crash(p)
    BY <2>1, QuietCommand
  <2>2. CASE \E o \in Outputs : CallApply(p, o)
    BY <2>2, StepCallApply
  <2>3. CASE CheckReceipt(p) \/ Reject(p)
    BY <2>3, StepCheck
  <2>4. CASE Preflight(p)
    BY <2>4, StepPreflight
  <2>5. CASE \E f \in Files : DeleteFile(p, f)
    BY <2>5, StepDelete
  <2>6. CASE FinishDay(p)
    BY <2>6, StepFinishDay
  <2>7. CASE FinishApply(p) \/ FailApply(p) \/ LoseReceipt(p)
    BY <2>7, StepLeave
  <2>8. CASE Report(p)
    BY <2>8, StepReport
  <2>. QED BY <1>3, <2>1, <2>2, <2>3, <2>4, <2>5, <2>6, <2>7, <2>8 DEF Command
<1>. QED BY <1>1, <1>2, <1>3 DEF Next, ReceiptInv

\* As long as no two commands run with the same --output at a time, every command
\* knows of its receipt what is in it, and no deletion is left out of the account.
LEMMA ReceiptInvariant ==
  ASSUME SharedOutput = FALSE
  PROVE  Spec => []ReceiptInv
<1>1. Init => ReceiptInv
  <2>. SUFFICES ASSUME Init PROVE ReceiptInv
    OBVIOUS
  <2>1. TypeOK
    BY InitTyped
  <2>2. \A p \in Procs : pc[p] \notin ApplyPlaces
    BY DEF Init, ApplyPlaces
  <2>3. \A o \in Outputs : receipt[o] = None /\ unlinked[o] = {}
    BY DEF Init
  <2>. QED BY <2>1, <2>2, <2>3
       DEF ReceiptInv, Accounts, OneCommand, CommandsAccount, OutputsAccount, Accounted
<1>2. ReceiptInv /\ [Next]_vars => ReceiptInv'
  BY ReceiptStep
<1>. QED BY <1>1, <1>2, PTL DEF Spec

\* A receipt lists only deletions of its own command, a complete one lists all;
\* those another lacks after a crash or a lost receipt are of the one day that
\* was being deleted, if the command could release its lock.
THEOREM ReceiptsAccountHolds ==
  ASSUME SharedOutput = FALSE
  PROVE  Spec => []ReceiptsAccount
<1>1. ReceiptInv => ReceiptsAccount
  BY DEF ReceiptInv, Accounts, OutputsAccount, Accounted, ReceiptsAccount
<1>. QED BY <1>1, ReceiptInvariant, PTL

\* No later receipt, failure receipt or report of a command, nor a command run
\* again after a crash, takes a deletion out of a receipt, unless it is the report
\* of a command that could not release its lock.
THEOREM DeletionsStayListedHolds ==
  ASSUME SharedOutput = FALSE
  PROVE  Spec => DeletionsStayListed
<1>1. ReceiptInv /\ [Next]_vars =>
        [\A o \in Outputs :
           receipt[o] # None =>
             /\ receipt'[o] # None
             /\ stuck[o] \/ receipt[o].deleted \subseteq receipt'[o].deleted]_vars
  <2>. SUFFICES ASSUME ReceiptInv, [Next]_vars
                PROVE  \A o \in Outputs : Keeps(receipt[o], receipt'[o], stuck[o])
    BY DEF Keeps
  <2>. QED BY ReceiptStep
<1>. QED BY <1>1, ReceiptInvariant, PTL DEF Spec, DeletionsStayListed
=============================================================================
