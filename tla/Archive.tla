------------------------------ MODULE Archive ------------------------------
(* The daily archive and the deletion of raw files it allows (data/archive.py,
   the apply-retention command of cli.py).  Operators start the commands as
   processes beside the collector, which may still finish files of past days.
   A raw file is a value, its content does not change once it is final; a day's
   canonical Parquet may be damaged on the disk.  A scan of the raw tree is one
   step: the code lists the completed files before the partial ones, and a file
   renamed in between, which is in neither list, is one created just after it. *)
EXTENDS NoValue, Integers, FiniteSets

CONSTANTS
  Files,        \* raw files
  DayOf,        \* the UTC day of each file's partition
  LastDay,      \* bound: days are 0 .. LastDay
  Retention,    \* retention_days
  Procs,        \* processes that run a command
  Outputs,      \* receipt paths
  SharedOutput  \* two commands may run with the same --output

Days == 0 .. LastDay

ASSUME ArchiveAssumption ==
  /\ LastDay \in Nat /\ Retention \in Nat \ {0} /\ SharedOutput \in BOOLEAN
  /\ DayOf \in [Files -> Days]
  /\ None \notin [deleted : SUBSET Files, complete : BOOLEAN]

VARIABLES
  today,
  raw,       \* of each file: "none", "partial", "final", "deleted"
  manifest,  \* of each day: None, or the files of the committed archive
  damaged,   \* days whose canonical files fail their SHA-256
  catalog,   \* days listed in catalog.json
  lock,      \* .archive.lock: None or the process that made the directory
  plan,      \* the last saved retention plan, or None
  pc,        \* "idle", "build", "catalog", "called", "checked", "delete", "report"
  job,       \* what the process works on, or None
  receipt,   \* of each output: None, or the deletions it lists and if complete
  unlinked,  \* history: the files the commands with each output deleted
  stuck      \* history: of each output, if an apply deleted and kept its lock

collection == <<today, raw>>
archive == <<manifest, damaged, catalog>>
told == <<receipt, unlinked, stuck>>
vars == <<today, raw, manifest, damaged, catalog, lock, plan, pc, job, receipt, unlinked, stuck>>

FilesOf(d, state) == {f \in Files : DayOf[f] = d /\ raw[f] = state}

Init ==
  /\ today = 0 /\ raw = [f \in Files |-> "none"]
  /\ manifest = [d \in Days |-> None] /\ damaged = {} /\ catalog = {}
  /\ lock = None /\ plan = None
  /\ pc = [p \in Procs |-> "idle"] /\ job = [p \in Procs |-> None]
  /\ receipt = [o \in Outputs |-> None] /\ unlinked = [o \in Outputs |-> {}]
  /\ stuck = [o \in Outputs |-> FALSE]

-----------------------------------------------------------------------------
\* The clock and the collector.

NextDay ==
  /\ today < LastDay /\ today' = today + 1
  /\ UNCHANGED <<raw, archive, lock, plan, pc, job, told>>

\* A record that waited over midnight opens a file of the day before.
CreateFile(f) ==
  /\ raw[f] = "none" /\ today - DayOf[f] \in {0, 1}
  /\ raw' = [raw EXCEPT ![f] = "partial"]
  /\ UNCHANGED <<today, archive, lock, plan, pc, job, told>>

\* At the end of the segment, or when a restart recovers it on a later day.
FinishFile(f) ==
  /\ raw[f] = "partial" /\ raw' = [raw EXCEPT ![f] = "final"]
  /\ UNCHANGED <<today, archive, lock, plan, pc, job, told>>

-----------------------------------------------------------------------------
\* _archive_lock: mkdir, and rmdir at the end.  A killed process leaves the
\* directory behind, and so does an rmdir that fails; the operator removes it.

Acquire(p) == lock = None /\ lock' = p

Release == lock' = None

ClearLock ==
  /\ \E p \in Procs : lock = p /\ pc[p] = "idle"
  /\ Release
  /\ UNCHANGED <<collection, archive, plan, pc, job, told>>

Goto(p, l) == pc' = [pc EXCEPT ![p] = l]

\* A process that ends and remembers its job.
KeepJob(p) == Goto(p, "idle") /\ UNCHANGED job

Quit(p) == Goto(p, "idle") /\ job' = [job EXCEPT ![p] = None]

Crash(p) ==
  /\ pc[p] # "idle" /\ Quit(p)
  /\ UNCHANGED <<collection, archive, lock, plan, told>>

-----------------------------------------------------------------------------
\* archive_day: audit of the day, canonical build, day manifest, catalog.

Reused(d) == manifest[d] # None

ArchiveDay(p, d) ==
  /\ pc[p] = "idle" /\ d < today /\ Acquire(p)
  /\ \/ /\ Reused(d) /\ d \notin damaged
        /\ Goto(p, "catalog") /\ UNCHANGED job
     \/ /\ ~Reused(d) /\ FilesOf(d, "final") # {}
        /\ Goto(p, "build")
        /\ job' = [job EXCEPT ![p] = [day |-> d, files |-> FilesOf(d, "final")]]
  /\ UNCHANGED <<collection, archive, plan, told>>

\* _assert_raw_partition_stable.
Stable(j) == FilesOf(j.day, "partial") = {} /\ FilesOf(j.day, "final") = j.files

\* The acceptance, the build or a stability check fails.
AbandonDay(p) ==
  /\ pc[p] = "build" /\ (Release \/ UNCHANGED lock) /\ Quit(p)
  /\ UNCHANGED <<collection, archive, plan, told>>

\* _write_immutable_json: the same bytes or a new file.
Writable(old, new) == old \in {None, new}

CommitDay(p) ==
  /\ pc[p] = "build" /\ Stable(job[p])
  /\ Writable(manifest[job[p].day], job[p].files)
  /\ manifest' = [manifest EXCEPT ![job[p].day] = job[p].files]
  /\ Goto(p, "catalog") /\ job' = [job EXCEPT ![p] = None]
  /\ UNCHANGED <<collection, damaged, catalog, lock, plan, told>>

RebuildCatalog(p) ==
  /\ pc[p] = "idle" /\ Acquire(p) /\ Goto(p, "catalog")
  /\ UNCHANGED <<collection, archive, plan, job, told>>

Committed == {d \in Days : manifest[d] # None}

BuildCatalog(p) ==
  /\ pc[p] = "catalog" /\ catalog' = Committed
  /\ (Release \/ UNCHANGED lock) /\ Quit(p)
  /\ UNCHANGED <<collection, manifest, damaged, plan, told>>

\* The disk damages a day's Parquet.  An apply verifies it once, before its
\* first deletion; damage after that is out of its reach.
Damage(d) ==
  /\ manifest[d] # None /\ d \notin damaged /\ \A p \in Procs : pc[p] # "delete"
  /\ damaged' = damaged \cup {d}
  /\ UNCHANGED <<collection, manifest, catalog, lock, plan, pc, job, told>>

-----------------------------------------------------------------------------
\* plan_raw_retention and load_retention_plan.

Old(asOf) == {f \in Files : DayOf[f] < asOf - Retention}

\* A plan that trusts the catalog's word for a whole day.
DayArchived(f) == DayOf[f] \in catalog

Archived(f) ==
  /\ DayOf[f] \in catalog \ damaged
  /\ manifest[DayOf[f]] # None /\ f \in manifest[DayOf[f]]

Candidates(asOf) == {f \in Old(asOf) : raw[f] = "final" /\ Archived(f)}

Blockers(asOf) ==
  {f \in Old(asOf) : raw[f] = "partial" \/ (raw[f] = "final" /\ ~Archived(f))}

\* A plan for any day the operator names.
AnyDate(asOf) == asOf \in Days

DateAllowed(asOf) == asOf <= today

\* A plan with blockers is refused when it is loaded; one without a catalog
\* fails, and one without candidates deletes nothing: only the others are saved.
PlanRetention(asOf) ==
  /\ DateAllowed(asOf) /\ catalog # {} /\ Blockers(asOf) = {} /\ Candidates(asOf) # {}
  /\ plan' = [asOf |-> asOf, catalog |-> catalog, files |-> Candidates(asOf)]
  /\ UNCHANGED <<collection, archive, lock, pc, job, told>>

-----------------------------------------------------------------------------
\* _run_retention_apply and apply_raw_retention.

InUse(o) == \E p \in Procs : pc[p] \in {"called", "checked", "delete", "report"}
                             /\ job[p].output = o

\* output_existed_before, read by the command before anything else.
CallApply(p, o) ==
  /\ pc[p] = "idle" /\ plan # None /\ (SharedOutput \/ ~InUse(o))
  /\ Goto(p, "called")
  /\ job' = [job EXCEPT ![p] = [output |-> o, existed |-> receipt[o] # None,
                                plan |-> plan, deleted |-> {}, listed |-> {}]]
  /\ UNCHANGED <<collection, archive, lock, plan, told>>

\* The receipt must not exist; nobody looks again once the lock is held.
CheckReceipt(p) ==
  /\ pc[p] = "called"
  /\ Goto(p, IF receipt[job[p].output] = None THEN "checked" ELSE "report")
  /\ UNCHANGED <<collection, archive, lock, plan, job, told>>

\* An apply that trusts the plan it was given.
TrustPlan(q) == TRUE

\* The preflight: the plan made again, under the lock, is the approved one.
StillValid(q) ==
  /\ DateAllowed(q.asOf) /\ catalog = q.catalog
  /\ Blockers(q.asOf) = {} /\ Candidates(q.asOf) = q.files

List(p, files, complete) ==
  receipt' = [receipt EXCEPT ![job[p].output] = [deleted |-> files, complete |-> complete]]

Preflight(p) ==
  /\ pc[p] = "checked" /\ StillValid(job[p].plan)
  /\ Acquire(p) /\ Goto(p, "delete") /\ List(p, {}, FALSE)
  /\ UNCHANGED <<collection, archive, plan, job, unlinked, stuck>>

\* Another command has the lock, or the plan no longer holds and the lock is
\* given back, unless its rmdir fails.
Reject(p) ==
  /\ pc[p] = "checked" /\ (lock # None \/ ~StillValid(job[p].plan))
  /\ Goto(p, "report") /\ (UNCHANGED lock \/ Acquire(p))
  /\ UNCHANGED <<collection, archive, plan, job, told>>

\* A receipt that is written once for the whole plan.
WholePlan(j) == j.plan.files \ j.listed

\* The files of the earliest day that the receipt does not list yet.
Batch(j) ==
  {f \in j.plan.files \ j.listed :
     \A g \in j.plan.files \ j.listed : DayOf[f] <= DayOf[g]}

DeleteFile(p, f) ==
  /\ pc[p] = "delete" /\ f \in Batch(job[p]) \ job[p].deleted /\ raw[f] = "final"
  /\ raw' = [raw EXCEPT ![f] = "deleted"]
  /\ job' = [job EXCEPT ![p].deleted = @ \cup {f}]
  /\ unlinked' = [unlinked EXCEPT ![job[p].output] = @ \cup {f}]
  /\ UNCHANGED <<today, archive, lock, plan, pc, receipt, stuck>>

\* The receipt after each finished UTC day.
FinishDay(p) ==
  /\ pc[p] = "delete" /\ Batch(job[p]) # {} /\ Batch(job[p]) \subseteq job[p].deleted
  /\ List(p, job[p].deleted, FALSE)
  /\ job' = [job EXCEPT ![p].listed = job[p].deleted]
  /\ UNCHANGED <<collection, archive, lock, plan, pc, unlinked, stuck>>

\* The lock is released and the command goes on as it should; or the rmdir fails
\* behind the deletions, and its error, which has no details, replaces what the
\* command had to tell, the end of a complete apply included.
Leave(p, outcome) ==
  \/ Release /\ outcome /\ UNCHANGED stuck
  \/ /\ UNCHANGED lock /\ Goto(p, "report")
     /\ job' = [job EXCEPT ![p].deleted = {}]
     /\ stuck' = [stuck EXCEPT ![job[p].output] = TRUE]

FinishApply(p) ==
  /\ pc[p] = "delete" /\ job[p].listed = job[p].plan.files
  /\ List(p, job[p].deleted, TRUE) /\ Leave(p, Quit(p))
  /\ UNCHANGED <<collection, archive, plan, unlinked>>

\* A file changed or could not be deleted: the failure receipt, then the
\* lock, then the report of the command.
FailApply(p) ==
  /\ pc[p] = "delete" /\ List(p, job[p].deleted, FALSE)
  /\ Leave(p, Goto(p, "report") /\ UNCHANGED job)
  /\ UNCHANGED <<collection, archive, plan, unlinked>>

\* The receipt cannot be written either: the OSError ends the command.
LoseReceipt(p) ==
  /\ pc[p] = "delete" /\ Leave(p, Quit(p))
  /\ UNCHANGED <<collection, archive, plan, receipt, unlinked>>

\* A report written whether or not the output was there before.
AlwaysWrites(j) == TRUE

Writes(j) == ~j.existed

\* The except branch of _run_retention_apply: a rejection and a lock that could
\* not be released list no deletion, a failure those of the failure receipt.
Report(p) ==
  /\ pc[p] = "report" /\ Quit(p)
  /\ IF Writes(job[p]) THEN List(p, job[p].deleted, FALSE) ELSE UNCHANGED receipt
  /\ UNCHANGED <<collection, archive, lock, plan, unlinked, stuck>>

-----------------------------------------------------------------------------
Command(p) ==
  \/ \E d \in Days : ArchiveDay(p, d)
  \/ AbandonDay(p) \/ CommitDay(p) \/ RebuildCatalog(p) \/ BuildCatalog(p)
  \/ \E o \in Outputs : CallApply(p, o)
  \/ CheckReceipt(p) \/ Preflight(p) \/ Reject(p)
  \/ \E f \in Files : DeleteFile(p, f)
  \/ FinishDay(p) \/ FinishApply(p) \/ FailApply(p) \/ LoseReceipt(p) \/ Report(p)
  \/ Crash(p)

Next ==
  \/ NextDay \/ ClearLock
  \/ \E f \in Files : CreateFile(f) \/ FinishFile(f)
  \/ \E d \in Days : Damage(d) \/ PlanRetention(d)
  \/ \E p \in Procs : Command(p)

Spec == Init /\ [][Next]_vars

-----------------------------------------------------------------------------
Plans == [asOf : Days, catalog : SUBSET Days, files : SUBSET Files]

BuildJobs == [day : Days, files : SUBSET Files]

ApplyJobs == [output : Outputs, existed : BOOLEAN, plan : Plans,
              deleted : SUBSET Files, listed : SUBSET Files]

ApplyPlaces == {"called", "checked", "delete", "report"}

\* The job of a process that is at place l.
Placed(l, j) ==
  \/ l \in {"idle", "catalog"} /\ j = None
  \/ l = "build" /\ j \in BuildJobs
  \/ l \in ApplyPlaces /\ j \in ApplyJobs

\* Every variable keeps its type, and a process has the job of its place.
TypeOK ==
  /\ today \in Days
  /\ raw \in [Files -> {"none", "partial", "final", "deleted"}]
  /\ manifest \in [Days -> {None} \cup SUBSET Files]
  /\ damaged \in SUBSET Days /\ catalog \in SUBSET Days
  /\ lock \in {None} \cup Procs /\ plan \in {None} \cup Plans
  /\ pc \in [Procs -> {"idle", "build", "catalog"} \cup ApplyPlaces]
  /\ job \in [Procs -> {None} \cup BuildJobs \cup ApplyJobs]
  /\ \A p \in Procs : Placed(pc[p], job[p])
  /\ receipt \in [Outputs -> {None} \cup [deleted : SUBSET Files, complete : BOOLEAN]]
  /\ unlinked \in [Outputs -> SUBSET Files] /\ stuck \in [Outputs -> BOOLEAN]

\* A raw file that was deleted is in the committed archive of its day, also when
\* it was finished after the day was archived.
DataNeverLost ==
  \A f \in Files :
    raw[f] = "deleted" => manifest[DayOf[f]] # None /\ f \in manifest[DayOf[f]]

\* No file is deleted whose archive no longer matched its SHA-256 when the
\* apply began, however long ago the plan was approved.
DeletedWhileVerified ==
  [][\A f \in Files : raw[f] # raw'[f] /\ raw'[f] = "deleted" => DayOf[f] \notin damaged]_vars

\* The files of the last Retention days stay, whatever date a plan names.
RecentKept ==
  [][\A f \in Files : raw[f] # raw'[f] /\ raw'[f] = "deleted"
                        => DayOf[f] + Retention < today]_vars

\* A receipt lists only deletions of its own command, and a complete one lacks
\* none.  Those another lacks are of a single UTC day, unless its command could
\* not release the lock: the report then takes the receipt's place.
ReceiptsAccount ==
  \A o \in Outputs :
    LET listed == IF receipt[o] = None THEN {} ELSE receipt[o].deleted
        rest == unlinked[o] \ listed
    IN /\ listed \subseteq unlinked[o]
       /\ ~stuck[o] => \A f, g \in rest : DayOf[f] = DayOf[g]
       /\ receipt[o] # None /\ receipt[o].complete => rest = {}

\* A receipt stays, and so does a deletion once listed in it, unless the command
\* could not release the lock.
DeletionsStayListed ==
  [][\A o \in Outputs :
       receipt[o] # None =>
         /\ receipt'[o] # None
         /\ stuck[o] \/ receipt[o].deleted \subseteq receipt'[o].deleted]_vars

\* What apply_raw_retention says of its receipts, that they are durable, without
\* the exception of a lock that could not be released.
ReceiptsDurable ==
  [][\A o \in Outputs :
       receipt[o] # None => /\ receipt'[o] # None
                            /\ receipt[o].deleted \subseteq receipt'[o].deleted]_vars
=============================================================================
