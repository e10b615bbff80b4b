--------------------------- MODULE ShadowJournal ---------------------------
(* The durable hash chain of shadow/journal.py: processes that contend for the
   writer lock of one run directory, create or check its manifest, validate the
   day files and append to them.  A line's hash is a number no other line has;
   its payload is left out.  ShadowRuntime uses the chain as one sequence of
   events: AppendOnly is what entitles it to. *)
EXTENDS NoValue, Integers, SequencesExt

CONSTANTS
  Writers,    \* processes started on the run directory
  Bundles,    \* bundles they may be started with
  DayLength,  \* ticks in a UTC day
  Faults,     \* may os.fsync raise?
  MaxNow, MaxLines   \* bounds: the clock, the lines written

ASSUME JournalAssumption ==
  /\ {DayLength, MaxNow, MaxLines} \subseteq Nat \ {0}
  /\ Faults \in BOOLEAN
  /\ None \notin Writers \cup Bundles /\ "torn" \notin Bundles

VARIABLES
  now,          \* time.time_ns(), in ticks; may be set back
  writerLock,   \* the process that holds .writer.lock
  runManifest,  \* the bundle run.json names, "torn" while it is being written
  dayFiles,     \* dayFiles[d]: the lines of day d's events file
  minted,       \* hashes given out, one for each line written
  stage,        \* where each process is
  bundle,       \* the bundle it was started with
  head,         \* its sequence, previous_hash and last_recorded_at_ns
  inflight      \* the event an append has written and not yet synced

journalVars == <<now, writerLock, runManifest, dayFiles, minted, stage, bundle, head, inflight>>

Day(t) == t \div DayLength + 1
JournalDays == 1..Day(MaxNow)

Lines == FlattenSeq(dayFiles)

NoHead == [sequence |-> 0, hash |-> 0, at |-> 0]

HeadOf(line) == [sequence |-> line.sequence, hash |-> line.hash, at |-> line.at]

\* _validate_existing_events.
ValidLine(line, previous) ==
  /\ line.sequence = previous.sequence + 1
  /\ line.previous = previous.hash
  /\ line.at >= previous.at
  /\ line.bundle = runManifest

Valid ==
  /\ \A i \in DOMAIN Lines :
       ValidLine(Lines[i], IF i = 1 THEN NoHead ELSE HeadOf(Lines[i - 1]))
  /\ \A d \in JournalDays : \A i \in DOMAIN dayFiles[d] : Day(dayFiles[d][i].at) = d

-----------------------------------------------------------------------------
JournalInit ==
  /\ now = 1 /\ writerLock = None /\ runManifest = None /\ minted = 0
  /\ dayFiles = [d \in JournalDays |-> <<>>]
  /\ stage = [w \in Writers |-> "closed"]
  /\ bundle = [w \in Writers |-> None]
  /\ head = [w \in Writers |-> NoHead]
  /\ inflight = [w \in Writers |-> None]

\* The clock runs, and NTP or an operator may set it back.
Clock ==
  /\ now' \in 1..MaxNow
  /\ UNCHANGED <<writerLock, runManifest, dayFiles, minted, stage, bundle, head, inflight>>

\* close(), or the end of the process: the kernel drops the lock.
LeaveRun(w) ==
  /\ stage' = [stage EXCEPT ![w] = "closed"]
  /\ writerLock' = IF writerLock = w THEN None ELSE writerLock
  /\ bundle' = [bundle EXCEPT ![w] = None]
  /\ head' = [head EXCEPT ![w] = NoHead]
  /\ inflight' = [inflight EXCEPT ![w] = None]

\* A lock that is never contended.
Unlocked == TRUE

LockFree == writerLock = None

\* _acquire_lock; the process that finds it taken gives up and stays closed.
Lock(w) ==
  /\ stage[w] = "closed" /\ LockFree
  /\ writerLock' = w
  /\ stage' = [stage EXCEPT ![w] = "manifest"]
  /\ \E b \in Bundles : bundle' = [bundle EXCEPT ![w] = b]
  /\ UNCHANGED <<now, runManifest, dayFiles, minted, head, inflight>>

\* run.json: created with mode "x", or it must be readable and name the bundle.
CheckManifest(w) ==
  /\ stage[w] = "manifest"
  /\ \/ /\ runManifest = None
        /\ runManifest' = "torn" /\ stage' = [stage EXCEPT ![w] = "creating"]
        /\ UNCHANGED <<writerLock, bundle, head, inflight>>
     \/ /\ runManifest = bundle[w]
        /\ stage' = [stage EXCEPT ![w] = "validate"]
        /\ UNCHANGED <<writerLock, runManifest, bundle, head, inflight>>
     \/ /\ runManifest \notin {None, bundle[w]}
        /\ LeaveRun(w) /\ UNCHANGED runManifest
  /\ UNCHANGED <<now, dayFiles, minted>>

WriteManifest(w) ==
  /\ stage[w] = "creating"
  /\ runManifest' = bundle[w]
  /\ stage' = [stage EXCEPT ![w] = "validate"]
  /\ UNCHANGED <<now, writerLock, dayFiles, minted, bundle, head, inflight>>

Validate(w) ==
  /\ stage[w] = "validate"
  /\ IF Valid
     THEN /\ stage' = [stage EXCEPT ![w] = "open"]
          /\ head' = [head EXCEPT ![w] =
                        IF Lines = <<>> THEN NoHead ELSE HeadOf(Last(Lines))]
          /\ UNCHANGED <<writerLock, bundle, inflight>>
     ELSE LeaveRun(w)
  /\ UNCHANGED <<now, runManifest, dayFiles, minted>>

-----------------------------------------------------------------------------
\* The clock as it is.
RawStamp(w) == now

\* recorded_at_ns never falls behind the event before it.
Stamp(w) == IF now < head[w].at THEN head[w].at ELSE now

\* append(): the line goes to the file of its day ...
WriteLine(w) ==
  /\ stage[w] = "open" /\ minted < MaxLines
  /\ LET line == [sequence |-> head[w].sequence + 1, previous |-> head[w].hash,
                  hash |-> minted + 1, at |-> Stamp(w), bundle |-> bundle[w]]
     IN  /\ dayFiles' = [dayFiles EXCEPT ![Day(line.at)] = Append(@, line)]
         /\ inflight' = [inflight EXCEPT ![w] = HeadOf(line)]
  /\ minted' = minted + 1
  /\ stage' = [stage EXCEPT ![w] = "written"]
  /\ UNCHANGED <<now, writerLock, runManifest, bundle, head>>

\* ... then the sync, and only then the sequence, hash and time in memory.  A
\* sync that raises leaves the journal open and its memory behind the file.
Sync(w) ==
  /\ stage[w] = "written"
  /\ \E ok \in IF Faults THEN BOOLEAN ELSE {TRUE} :
       head' = [head EXCEPT ![w] = IF ok THEN inflight[w] ELSE @]
  /\ inflight' = [inflight EXCEPT ![w] = None]
  /\ stage' = [stage EXCEPT ![w] = "open"]
  /\ UNCHANGED <<now, writerLock, runManifest, dayFiles, minted, bundle>>

CloseJournal(w) ==
  /\ stage[w] = "open" /\ LeaveRun(w)
  /\ UNCHANGED <<now, runManifest, dayFiles, minted>>

\* The process is killed wherever it is; what it has written stays.
JournalCrash(w) ==
  /\ stage[w] # "closed" /\ LeaveRun(w)
  /\ UNCHANGED <<now, runManifest, dayFiles, minted>>

JournalNext ==
  \/ Clock
  \/ \E w \in Writers :
       \/ Lock(w) \/ CheckManifest(w) \/ WriteManifest(w) \/ Validate(w)
       \/ WriteLine(w) \/ Sync(w) \/ CloseJournal(w) \/ JournalCrash(w)

JournalSpec == JournalInit /\ [][JournalNext]_journalVars

-----------------------------------------------------------------------------
\* The next start accepts the journal, wherever the last process was killed and
\* however the clock was set: every line follows the one before it, in the file
\* of its day, under the manifest of the run.
ChainIntact == Valid

\* The process that may append knows the head of the chain on disk, so its next
\* line continues it; between write and sync it is one line behind.
HeadIsOnDisk ==
  \A w \in Writers : stage[w] \in {"open", "written"} =>
    LET known == IF stage[w] = "open" THEN head[w] ELSE inflight[w]
    IN  known = IF Lines = <<>> THEN NoHead ELSE HeadOf(Last(Lines))

\* Read in order, the day files only ever grow at the end: no append, by any
\* process and at any hour, changes or slips in front of what was read before.
AppendOnly == [][IsPrefix(Lines, Lines')]_journalVars
=============================================================================
