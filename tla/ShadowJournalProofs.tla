------------------------ MODULE ShadowJournalProofs ------------------------
(* Proofs about ShadowJournal, for any number of processes, bundles and days and
   any clock, as long as a sync does not fail: the chain is intact wherever a
   process is killed, the writer knows its head, and the day files, read in
   order, only grow at the end. *)
EXTENDS ShadowJournal, RecursionLemmas

Moments == 0 .. MaxNow
Heads   == [sequence : Nat, hash : Nat, at : Moments]
Events  == [sequence : Nat, previous : Nat, hash : Nat, at : Moments, bundle : Bundles]
Places  == {"closed", "manifest", "creating", "validate", "open", "written"}

JournalTyped ==
  /\ now \in 1 .. MaxNow
  /\ writerLock \in Writers \cup {None}
  /\ runManifest \in Bundles \cup {None, "torn"}
  /\ dayFiles \in [JournalDays -> Seq(Events)]
  /\ minted \in Nat
  /\ stage \in [Writers -> Places]
  /\ bundle \in [Writers -> Bundles \cup {None}]
  /\ head \in [Writers -> Heads]
  /\ inflight \in [Writers -> Heads \cup {None}]

\* Whoever is inside holds the lock, so there is one at most.
LockHeld == \A w \in Writers : stage[w] # "closed" => writerLock = w /\ bundle[w] \in Bundles

\* There are lines only under a manifest, and the process that gets to them was
\* started with the bundle it names.
RunNamed ==
  /\ \A w \in Writers : stage[w] = "creating" => runManifest = "torn"
  /\ \A w \in Writers : stage[w] \in {"validate", "open", "written"} => runManifest = bundle[w]
  /\ runManifest \notin Bundles => Lines = <<>>

\* The head of the chain on disk.
Top == IF Lines = <<>> THEN NoHead ELSE HeadOf(Last(Lines))

Before(lines, i) == IF i = 1 THEN NoHead ELSE HeadOf(lines[i - 1])

Chained == \A i \in DOMAIN Lines : ValidLine(Lines[i], Before(Lines, i))

\* A line is in the file of its day and not younger than the last, which is why
\* the files of the days after that of the last line are empty.
InItsDay ==
  \A d \in JournalDays : \A i \in DOMAIN dayFiles[d] :
    Day(dayFiles[d][i].at) = d /\ dayFiles[d][i].at <= Top.at

JournalInv ==
  JournalTyped /\ LockHeld /\ RunNamed /\ Chained /\ InItsDay /\ HeadIsOnDisk

-----------------------------------------------------------------------------
(* Days *)

\* A later moment is on the same day or a later one: _day_path goes by the UTC date.
LEMMA DayOrder ==
  /\ \A t \in Nat : Day(t) \in Nat \ {0}
  /\ \A s, t \in Nat : s <= t => Day(s) <= Day(t)
<1>1. DayLength \in Nat \ {0}
  BY JournalAssumption
<1>2. \A t \in Nat : t \div DayLength \in Nat
  BY <1>1
<1>3. \A s, t \in Nat : s <= t => s \div DayLength <= t \div DayLength
  BY <1>1
<1>. QED BY <1>2, <1>3 DEF Day

\* The clock's moments are on the days that have a file.
LEMMA DaysCounted ==
  /\ MaxNow \in Nat \ {0} /\ Day(MaxNow) \in Nat \ {0}
  /\ \A t \in Moments : t \in Nat /\ Day(t) \in JournalDays
<1>1. MaxNow \in Nat \ {0}
  BY JournalAssumption
<1>2. \A t \in Moments : t \in Nat /\ t <= MaxNow
  BY <1>1 DEF Moments
<1>. QED BY <1>1, <1>2, DayOrder DEF JournalDays

\* The day files are a sequence of sequences.
LEMMA DayFiles ==
  ASSUME NEW S, NEW f \in [JournalDays -> Seq(S)]
  PROVE  /\ f \in Seq(Seq(S)) /\ Len(f) = Day(MaxNow) /\ DOMAIN f = JournalDays
         /\ FlattenSeq(f) \in Seq(S)
<1>1. Day(MaxNow) \in Nat
  BY DaysCounted
<1>2. f \in Seq(Seq(S)) /\ Len(f) = Day(MaxNow) /\ DOMAIN f = JournalDays
  BY <1>1 DEF JournalDays
<1>. QED BY <1>2, FlattenTyped

-----------------------------------------------------------------------------
\* The first state has the invariant: there is no line in any file.
LEMMA JournalBegins == JournalInit => JournalInv
<1>. SUFFICES ASSUME JournalInit PROVE JournalInv
  OBVIOUS
<1>1. NoHead \in Heads
  BY DaysCounted DEF NoHead, Heads, Moments
<1>2. dayFiles \in [JournalDays -> Seq(Events)]
  BY EmptySeq DEF JournalInit
<1>3. JournalTyped
  BY <1>1, <1>2, DaysCounted DEF JournalInit, JournalTyped, Places
<1>4. Lines = <<>>
  <2>. DEFINE none == [d \in JournalDays |-> <<>>]
  <2>1. none \in [JournalDays -> Seq({})]
    BY EmptySeq
  <2>2. FlattenSeq(none) \in Seq({})
    BY <2>1, DayFiles
  <2>3. \A s \in Seq({}) : s = <<>>
    OBVIOUS
  <2>. QED BY <2>2, <2>3 DEF JournalInit, Lines
<1>5. LockHeld /\ RunNamed /\ HeadIsOnDisk
  BY <1>4 DEF JournalInit, LockHeld, RunNamed, HeadIsOnDisk
<1>6. Chained
  BY <1>4 DEF Chained
<1>7. InItsDay
  BY DEF JournalInit, InItsDay
<1>. QED BY <1>3, <1>5, <1>6, <1>7 DEF JournalInv

-----------------------------------------------------------------------------
(* Types *)

\* The line that the process writes next.
NextLine(w) ==
  [sequence |-> head[w].sequence + 1, previous |-> head[w].hash,
   hash |-> minted + 1, at |-> Stamp(w), bundle |-> bundle[w]]

\* A stamp is a moment of the clock's range and not behind the head.
LEMMA Stamped ==
  ASSUME JournalTyped, NEW w \in Writers
  PROVE  Stamp(w) \in Moments /\ head[w].at <= Stamp(w)
<1>1. now \in Moments /\ head[w].at \in Moments /\ MaxNow \in Nat
  BY DaysCounted DEF JournalTyped, Heads, Moments
<1>. QED BY <1>1 DEF Stamp, Moments

\* The line is an event of a day the model has.
LEMMA LineTyped ==
  ASSUME JournalTyped, LockHeld, NEW w \in Writers, stage[w] = "open"
  PROVE  NextLine(w) \in Events /\ Day(NextLine(w).at) \in JournalDays
<1>1. Stamp(w) \in Moments
  BY Stamped
<1>2. head[w].sequence + 1 \in Nat /\ head[w].hash \in Nat /\ minted + 1 \in Nat
  BY DEF JournalTyped, Heads
<1>3. bundle[w] \in Bundles
  BY DEF LockHeld
<1>. QED BY <1>1, <1>2, <1>3, DaysCounted DEF NextLine, Events

\* The head of a chain of events has a head's type.
LEMMA TopTyped ==
  ASSUME JournalTyped
  PROVE  Lines \in Seq(Events) /\ Top \in Heads
<1>1. Lines \in Seq(Events)
  BY DayFiles DEF JournalTyped, Lines
<1>2. ASSUME Lines # <<>> PROVE Last(Lines) \in Events
  <2>1. Len(Lines) \in 1 .. Len(Lines)
    BY <1>1, <1>2, EmptySeq
  <2>. QED BY <1>1, <2>1, ElementOfSeq DEF Last
<1>3. NoHead \in Heads
  BY DaysCounted DEF NoHead, Heads, Moments
<1>4. \A line \in Events : HeadOf(line) \in Heads
  BY DEF Events, Heads, HeadOf
<1>. QED BY <1>1, <1>2, <1>3, <1>4 DEF Top

\* A process that leaves goes back to where it was before it came.
LEMMA LeaveTyped ==
  ASSUME JournalTyped, NEW w \in Writers, LeaveRun(w), UNCHANGED <<now, runManifest, dayFiles, minted>>
  PROVE  JournalTyped'
<1>1. NoHead \in Heads
  BY DaysCounted DEF NoHead, Heads, Moments
<1>2. writerLock' \in Writers \cup {None}
  BY DEF JournalTyped, LeaveRun
<1>. QED BY <1>1, <1>2 DEF JournalTyped, LeaveRun, Places, JournalDays

\* Every step keeps the types.
LEMMA TypedStep ==
  ASSUME JournalTyped, LockHeld, HeadIsOnDisk, [JournalNext]_journalVars
  PROVE  JournalTyped'
<1>1. CASE UNCHANGED journalVars
  BY <1>1 DEF JournalTyped, journalVars, JournalDays
<1>2. CASE Clock
  BY <1>2 DEF JournalTyped, Clock, JournalDays
<1>3. ASSUME NEW w \in Writers, Lock(w) PROVE JournalTyped'
  <2>1. /\ writerLock' \in Writers \cup {None} /\ stage' \in [Writers -> Places]
        /\ bundle' \in [Writers -> Bundles \cup {None}]
    BY <1>3 DEF JournalTyped, Lock, Places
  <2>. QED BY <1>3, <2>1 DEF JournalTyped, Lock, JournalDays
<1>4. ASSUME NEW w \in Writers, CheckManifest(w) PROVE JournalTyped'
  <2>1. CASE LeaveRun(w) /\ UNCHANGED runManifest
    BY <1>4, <2>1, LeaveTyped DEF CheckManifest
  <2>2. CASE ~ (LeaveRun(w) /\ UNCHANGED runManifest)
    <3>1. runManifest' \in Bundles \cup {None, "torn"} /\ stage' \in [Writers -> Places]
      BY <1>4, <2>2 DEF JournalTyped, CheckManifest, Places
    <3>2. UNCHANGED <<now, dayFiles, minted, writerLock, bundle, head, inflight>>
      BY <1>4, <2>2 DEF CheckManifest
    <3>. QED BY <3>1, <3>2 DEF JournalTyped, JournalDays
  <2>. QED BY <2>1, <2>2
<1>5. ASSUME NEW w \in Writers, WriteManifest(w) PROVE JournalTyped'
  <2>1. runManifest' \in Bundles \cup {None, "torn"} /\ stage' \in [Writers -> Places]
    BY <1>5 DEF JournalTyped, WriteManifest, Places
  <2>. QED BY <1>5, <2>1 DEF JournalTyped, WriteManifest, JournalDays
<1>6. ASSUME NEW w \in Writers, Validate(w) PROVE JournalTyped'
  <2>1. CASE Valid
    <3>1. head' = [head EXCEPT ![w] = Top] /\ stage' = [stage EXCEPT ![w] = "open"]
      BY <1>6, <2>1 DEF Validate, Top
    <3>2. head' \in [Writers -> Heads] /\ stage' \in [Writers -> Places]
      BY <3>1, TopTyped DEF JournalTyped, Places
    <3>3. UNCHANGED <<now, runManifest, dayFiles, minted, writerLock, bundle, inflight>>
      BY <1>6, <2>1 DEF Validate
    <3>. QED BY <3>2, <3>3 DEF JournalTyped, JournalDays
  <2>2. CASE ~ Valid
    BY <1>6, <2>2, LeaveTyped DEF Validate
  <2>. QED BY <2>1, <2>2
<1>7. ASSUME NEW w \in Writers, WriteLine(w) PROVE JournalTyped'
  <2>. DEFINE line == NextLine(w)  d == Day(line.at)
  <2>1. /\ dayFiles' = [dayFiles EXCEPT ![d] = Append(@, line)]
        /\ inflight' = [inflight EXCEPT ![w] = HeadOf(line)]
    BY <1>7 DEF WriteLine, NextLine
  <2>2. line \in Events /\ d \in JournalDays
    BY <1>7, LineTyped DEF WriteLine
  <2>. HIDE DEF line, d
  <2>3. HeadOf(line) \in Heads
    BY <2>2 DEF HeadOf, Events, Heads
  <2>4. dayFiles[d] \in Seq(Events)
    BY <2>2 DEF JournalTyped
  <2>5. Append(dayFiles[d], line) \in Seq(Events)
    BY <2>2, <2>4, AppendProperties
  <2>6. dayFiles' \in [JournalDays -> Seq(Events)]
    BY <2>1, <2>2, <2>5 DEF JournalTyped
  <2>7. /\ inflight' \in [Writers -> Heads \cup {None}]
        /\ minted' \in Nat /\ stage' \in [Writers -> Places]
    BY <1>7, <2>1, <2>3 DEF JournalTyped, WriteLine, Places
  <2>. QED BY <1>7, <2>6, <2>7 DEF JournalTyped, WriteLine, JournalDays
<1>8. ASSUME NEW w \in Writers, Sync(w) PROVE JournalTyped'
  <2>1. inflight[w] \in Heads
    BY <1>8, TopTyped DEF Sync, HeadIsOnDisk, Top
  <2>2. /\ head' \in [Writers -> Heads] /\ inflight' \in [Writers -> Heads \cup {None}]
        /\ stage' \in [Writers -> Places]
    BY <1>8, <2>1 DEF JournalTyped, Sync, Places
  <2>. QED BY <1>8, <2>2 DEF JournalTyped, Sync, JournalDays
<1>9. ASSUME NEW w \in Writers, CloseJournal(w) \/ JournalCrash(w) PROVE JournalTyped'
  BY <1>9, LeaveTyped DEF CloseJournal, JournalCrash
<1>. QED BY <1>1, <1>2, <1>3, <1>4, <1>5, <1>6, <1>7, <1>8, <1>9 DEF JournalNext

-----------------------------------------------------------------------------
(* The chain *)

\* A line is written behind all the lines there are, in whichever file it goes.
LEMMA WriteAppends ==
  ASSUME JournalInv, NEW w \in Writers, WriteLine(w)
  PROVE  /\ Lines' = Append(Lines, NextLine(w))
         /\ dayFiles' = [dayFiles EXCEPT ![Day(NextLine(w).at)] = Append(@, NextLine(w))]
<1>. DEFINE line == NextLine(w)  d == Day(line.at)
<1>1. dayFiles' = [dayFiles EXCEPT ![d] = Append(@, line)]
  BY DEF WriteLine, NextLine
<1>2. line \in Events /\ d \in JournalDays
  BY LineTyped DEF JournalInv, WriteLine
<1>3. dayFiles \in [JournalDays -> Seq(Events)]
  BY DEF JournalInv, JournalTyped
<1>4. Top.at <= line.at
  <2>1. head[w] = Top
    BY DEF JournalInv, HeadIsOnDisk, Top, WriteLine
  <2>. QED BY <2>1, Stamped DEF JournalInv, NextLine
<1>5. ASSUME NEW j \in JournalDays, j > d PROVE dayFiles[j] = <<>>
  <2>1. SUFFICES ASSUME dayFiles[j] # <<>> PROVE FALSE
    OBVIOUS
  <2>. DEFINE first == dayFiles[j][1]
  <2>2. 1 \in DOMAIN dayFiles[j] /\ first \in Events
    BY <1>3, <2>1
  <2>3. Day(first.at) = j /\ first.at <= Top.at
    BY <2>2 DEF JournalInv, InItsDay
  <2>4. first.at \in Nat /\ line.at \in Nat /\ Top.at \in Nat
    BY <1>2, <2>2, TopTyped, DaysCounted DEF JournalInv, Events, Heads
  <2>. HIDE DEF first, line
  <2>5. first.at <= line.at
    BY <1>4, <2>3, <2>4
  <2>6. Day(first.at) <= d
    BY <2>4, <2>5, DayOrder
  <2>7. d \in Int /\ j \in Int
    BY <1>2 DEF JournalDays
  <2>. QED BY <1>5, <2>3, <2>6, <2>7
<1>. HIDE DEF line, d
<1>6. dayFiles[d] \in Seq(Events)
  BY <1>2, <1>3
<1>7. Append(dayFiles[d], line) = dayFiles[d] \o <<line>> /\ <<line>> \in Seq(Events)
  BY <1>2, <1>6, AppendIsConcat
<1>8. Append(dayFiles[d], line) \in Seq(Events)
  BY <1>2, <1>6, AppendProperties
<1>9. dayFiles' \in [JournalDays -> Seq(Events)]
  BY <1>1, <1>3, <1>8
<1>10. /\ dayFiles \in Seq(Seq(Events)) /\ dayFiles' \in Seq(Seq(Events))
       /\ Len(dayFiles) = Day(MaxNow) /\ Len(dayFiles') = Day(MaxNow)
       /\ FlattenSeq(dayFiles) \in Seq(Events)
  BY <1>3, <1>9, DayFiles
<1>11. d \in 1 .. Len(dayFiles) /\ dayFiles'[d] = dayFiles[d] \o <<line>>
  BY <1>1, <1>2, <1>3, <1>7, <1>10 DEF JournalDays
<1>12. \A i \in 1 .. Len(dayFiles) : i # d => dayFiles'[i] = dayFiles[i]
  BY <1>1, <1>3, <1>10 DEF JournalDays
<1>13. \A i \in d + 1 .. Len(dayFiles) : dayFiles[i] = <<>>
  <2>1. Len(dayFiles) = Day(MaxNow) /\ Day(MaxNow) \in Nat /\ d \in Nat
    BY <1>2, <1>10, DaysCounted DEF JournalDays
  <2>2. \A i \in d + 1 .. Len(dayFiles) : i \in JournalDays /\ i > d
    BY <1>2, <2>1 DEF JournalDays
  <2>. QED BY <1>5, <2>2
<1>14. FlattenSeq(dayFiles') = FlattenSeq(dayFiles) \o <<line>>
  BY <1>7, <1>10, <1>11, <1>12, <1>13, FlattenGrows
<1>15. FlattenSeq(dayFiles) \o <<line>> = Append(FlattenSeq(dayFiles), line)
  BY <1>2, <1>10, AppendIsConcat
<1>16. Lines' = Append(Lines, line)
  BY <1>14, <1>15 DEF Lines
<1>. QED BY <1>1, <1>16 DEF line, d

\* The line that comes last is the head.
LEMMA TopAfter ==
  ASSUME JournalInv, NEW w \in Writers, WriteLine(w)
  PROVE  /\ Lines \in Seq(Events) /\ Len(Lines') = Len(Lines) + 1
         /\ Lines'[Len(Lines) + 1] = NextLine(w)
         /\ \A i \in 1 .. Len(Lines) : Lines'[i] = Lines[i]
         /\ Lines' # <<>> /\ Top' = HeadOf(NextLine(w))
<1>1. Lines' = Append(Lines, NextLine(w)) /\ Lines \in Seq(Events) /\ NextLine(w) \in Events
  BY WriteAppends, TopTyped, LineTyped DEF JournalInv, WriteLine
<1>2. /\ Len(Lines') = Len(Lines) + 1 /\ Lines'[Len(Lines) + 1] = NextLine(w)
      /\ \A i \in 1 .. Len(Lines) : Lines'[i] = Lines[i]
  BY <1>1, AppendProperties
<1>3. Lines' # <<>>
  BY <1>1, <1>2, EmptySeq, LenProperties
<1>. QED BY <1>1, <1>2, <1>3 DEF Top, Last

\* Only a process that writes touches the files.
LEMMA OnlyWrite ==
  ASSUME [JournalNext]_journalVars, ~ (\E w \in Writers : WriteLine(w))
  PROVE  UNCHANGED dayFiles /\ Lines' = Lines /\ Top' = Top
<1>1. UNCHANGED dayFiles
  BY DEF JournalNext, journalVars, Clock, Lock, CheckManifest, WriteManifest, Validate, Sync,
         CloseJournal, JournalCrash
<1>. QED BY <1>1 DEF Lines, Top

\* A run that has lines keeps its manifest.
LEMMA ManifestStays ==
  ASSUME JournalInv, [JournalNext]_journalVars, Lines # <<>>
  PROVE  runManifest' = runManifest
<1>1. runManifest \in Bundles /\ runManifest # None /\ runManifest # "torn"
  BY JournalAssumption DEF JournalInv, RunNamed
<1>2. ASSUME NEW w \in Writers, CheckManifest(w) PROVE runManifest' = runManifest
  BY <1>1, <1>2 DEF CheckManifest
<1>3. ASSUME NEW w \in Writers, WriteManifest(w) PROVE runManifest' = runManifest
  BY <1>1, <1>3 DEF WriteManifest, JournalInv, RunNamed
<1>. QED BY <1>2, <1>3 DEF JournalNext, journalVars, Clock, Lock, Validate, WriteLine, Sync,
                           CloseJournal, JournalCrash

\* The lock keeps its one holder.
LEMMA LockStep ==
  ASSUME JournalInv, [JournalNext]_journalVars
  PROVE  LockHeld'
<1>. USE DEF JournalInv
<1>1. JournalTyped' /\ JournalTyped
  BY TypedStep
<1>2. CASE UNCHANGED journalVars \/ Clock
  BY <1>2 DEF LockHeld, journalVars, Clock
<1>3. ASSUME NEW w \in Writers, Lock(w) PROVE LockHeld'
  BY <1>1, <1>3, JournalAssumption DEF JournalTyped, LockHeld, Lock, LockFree
<1>4. ASSUME NEW w \in Writers, LeaveRun(w) PROVE LockHeld'
  BY <1>1, <1>4, JournalAssumption DEF JournalTyped, LockHeld, LeaveRun
<1>5. ASSUME NEW w \in Writers, stage[w] # "closed", UNCHANGED <<writerLock, bundle>>,
             NEW l, stage' = [stage EXCEPT ![w] = l]
      PROVE  LockHeld'
  BY <1>1, <1>5 DEF JournalTyped, LockHeld
<1>6. ASSUME NEW w \in Writers, CheckManifest(w) PROVE LockHeld'
  <2>1. CASE LeaveRun(w)
    BY <1>4, <2>1
  <2>2. CASE ~ LeaveRun(w)
    BY <1>5, <1>6, <2>2 DEF CheckManifest
  <2>. QED BY <2>1, <2>2
<1>7. ASSUME NEW w \in Writers, Validate(w) PROVE LockHeld'
  BY <1>4, <1>5, <1>7 DEF Validate
<1>8. ASSUME NEW w \in Writers, WriteManifest(w) \/ WriteLine(w) \/ Sync(w) PROVE LockHeld'
  BY <1>5, <1>8 DEF WriteManifest, WriteLine, Sync
<1>9. ASSUME NEW w \in Writers, CloseJournal(w) \/ JournalCrash(w) PROVE LockHeld'
  BY <1>4, <1>9 DEF CloseJournal, JournalCrash
<1>. QED BY <1>2, <1>3, <1>6, <1>7, <1>8, <1>9 DEF JournalNext

\* Where the others are: outside, while one is inside.
LEMMA OthersOutside ==
  ASSUME JournalInv, NEW w \in Writers, stage[w] # "closed", NEW v \in Writers, v # w
  PROVE  stage[v] = "closed"
BY DEF JournalInv, LockHeld

\* Nobody gets to the lines of a run of another bundle.
LEMMA RunStep ==
  ASSUME JournalInv, [JournalNext]_journalVars
  PROVE  RunNamed'
<1>1. JournalTyped /\ LockHeld /\ RunNamed
  BY DEF JournalInv
<1>2. CASE UNCHANGED journalVars \/ Clock
  BY <1>1, <1>2 DEF RunNamed, journalVars, Clock, Lines
<1>3. ASSUME NEW w \in Writers, Lock(w) PROVE RunNamed'
  <2>1. \A v \in Writers : stage[v] = "closed"
    BY <1>1, <1>3, JournalAssumption DEF LockHeld, Lock, LockFree
  <2>2. \A v \in Writers : stage'[v] \in {"closed", "manifest"}
    BY <1>1, <1>3, <2>1 DEF JournalTyped, Lock
  <2>. QED BY <1>1, <1>3, <2>2 DEF RunNamed, Lock, Lines
<1>4. ASSUME NEW w \in Writers, stage[w] # "closed", LeaveRun(w), UNCHANGED <<dayFiles, runManifest>>
      PROVE  RunNamed'
  <2>1. \A v \in Writers : stage'[v] = "closed"
    BY <1>1, <1>4, OthersOutside DEF JournalTyped, LeaveRun
  <2>. QED BY <1>1, <1>4, <2>1 DEF RunNamed, Lines
<1>5. ASSUME NEW w \in Writers, CheckManifest(w) PROVE RunNamed'
  <2>1. stage[w] # "closed" /\ UNCHANGED dayFiles
    BY <1>5 DEF CheckManifest
  <2>2. CASE LeaveRun(w) /\ UNCHANGED runManifest
    BY <1>4, <2>1, <2>2
  <2>3. CASE /\ runManifest = None /\ runManifest' = "torn"
             /\ stage' = [stage EXCEPT ![w] = "creating"] /\ UNCHANGED bundle
    <3>1. \A v \in Writers : stage'[v] \in {"closed", "creating"}
      BY <1>1, <2>1, <2>3, OthersOutside DEF JournalTyped
    <3>2. Lines = <<>>
      BY <1>1, <2>3, JournalAssumption DEF RunNamed
    <3>. QED BY <2>1, <2>3, <3>1, <3>2 DEF RunNamed, Lines
  <2>4. CASE /\ runManifest = bundle[w] /\ UNCHANGED <<runManifest, bundle>>
             /\ stage' = [stage EXCEPT ![w] = "validate"]
    <3>1. stage'[w] = "validate" /\ \A v \in Writers : v # w => stage'[v] = "closed"
      BY <1>1, <2>1, <2>4, OthersOutside DEF JournalTyped
    <3>. QED BY <1>1, <2>1, <2>4, <3>1 DEF RunNamed, Lines
  <2>. QED BY <1>5, <2>2, <2>3, <2>4 DEF CheckManifest
<1>6. ASSUME NEW w \in Writers, WriteManifest(w) PROVE RunNamed'
  <2>1. stage'[w] = "validate" /\ \A v \in Writers : v # w => stage'[v] = "closed"
    BY <1>1, <1>6, OthersOutside DEF JournalTyped, WriteManifest
  <2>2. runManifest' = bundle[w] /\ bundle' = bundle /\ bundle[w] \in Bundles
    BY <1>1, <1>6 DEF LockHeld, WriteManifest
  <2>. QED BY <2>1, <2>2 DEF RunNamed
<1>7. ASSUME NEW w \in Writers, stage[w] \in {"validate", "open", "written"},
             UNCHANGED <<runManifest, bundle>>,
             NEW l \in {"open", "written"}, stage' = [stage EXCEPT ![w] = l]
      PROVE  RunNamed'
  <2>1. stage'[w] = l /\ \A v \in Writers : v # w => stage'[v] = "closed"
    BY <1>1, <1>7, OthersOutside DEF JournalTyped
  <2>2. runManifest = bundle[w] /\ bundle[w] \in Bundles
    BY <1>1, <1>7 DEF LockHeld, RunNamed
  <2>. QED BY <1>7, <2>1, <2>2 DEF RunNamed
<1>8. ASSUME NEW w \in Writers, Validate(w) \/ WriteLine(w) \/ Sync(w) PROVE RunNamed'
  BY <1>4, <1>7, <1>8 DEF Validate, WriteLine, Sync
<1>9. ASSUME NEW w \in Writers, CloseJournal(w) \/ JournalCrash(w) PROVE RunNamed'
  BY <1>4, <1>9 DEF CloseJournal, JournalCrash
<1>. QED BY <1>2, <1>3, <1>5, <1>6, <1>8, <1>9 DEF JournalNext

\* A line that is written continues the chain.
LEMMA ChainStep ==
  ASSUME JournalInv, [JournalNext]_journalVars
  PROVE  Chained'
<1>1. CASE ~ (\E w \in Writers : WriteLine(w))
  <2>1. Lines' = Lines
    BY <1>1, OnlyWrite
  <2>2. CASE Lines = <<>>
    BY <2>1, <2>2 DEF Chained
  <2>3. CASE Lines # <<>>
    BY <2>1, <2>3, ManifestStays DEF JournalInv, Chained, ValidLine, Before
  <2>. QED BY <2>2, <2>3
<1>2. ASSUME NEW w \in Writers, WriteLine(w) PROVE Chained'
  <2>. DEFINE line == NextLine(w)  n == Len(Lines)
  <2>1. /\ Lines \in Seq(Events) /\ Len(Lines') = n + 1 /\ Lines'[n + 1] = line
        /\ \A i \in 1 .. n : Lines'[i] = Lines[i]
    BY <1>2, TopAfter
  <2>2. Lines' \in Seq(Events) /\ n \in Nat /\ DOMAIN Lines = 1 .. n
    <3>1. Lines' = Append(Lines, line)
      BY <1>2, WriteAppends
    <3>2. line \in Events
      BY <1>2, LineTyped DEF JournalInv, WriteLine
    <3>. HIDE DEF line
    <3>. QED BY <2>1, <3>1, <3>2, AppendProperties, LenProperties
  <2>3. DOMAIN Lines' = 1 .. n + 1
    BY <2>1, <2>2, LenProperties
  <2>4. runManifest' = runManifest /\ runManifest = bundle[w] /\ head[w] = Top
    <3>1. stage[w] = "open" /\ runManifest' = runManifest
      BY <1>2 DEF WriteLine
    <3>. QED BY <3>1 DEF JournalInv, RunNamed, HeadIsOnDisk, Top
  <2>5. Before(Lines', n + 1) = Top
    <3>1. CASE n = 0
      <4>1. Lines = <<>>
        BY <2>1, <3>1, EmptySeq
      <4>. QED BY <3>1, <4>1 DEF Before, Top
    <3>2. CASE n # 0
      <4>1. Lines # <<>> /\ n + 1 # 1 /\ (n + 1) - 1 = n /\ n \in 1 .. n
        BY <2>2, <3>2, EmptySeq
      <4>2. Lines'[n] = Lines[n]
        BY <2>1, <4>1
      <4>. QED BY <4>1, <4>2 DEF Before, Top, Last
    <3>. QED BY <3>1, <3>2
  <2>6. /\ line.sequence = Top.sequence + 1 /\ line.previous = Top.hash
        /\ line.at >= Top.at /\ line.bundle = runManifest'
    <3>1. head[w].at <= Stamp(w) /\ Stamp(w) \in Nat /\ head[w].at \in Nat
      BY Stamped, DaysCounted DEF JournalInv, JournalTyped, Heads
    <3>. QED BY <2>4, <3>1 DEF NextLine
  <2>. HIDE DEF line, n
  <2>7. ASSUME NEW i \in 1 .. n
        PROVE  /\ Before(Lines', i) = Before(Lines, i)
               /\ ValidLine(Lines[i], Before(Lines, i))
    <3>1. i # 1 => i - 1 \in 1 .. n
      BY <2>2
    <3>. QED BY <2>1, <2>2, <3>1 DEF Before, JournalInv, Chained
  <2>8. ASSUME NEW i \in 1 .. n + 1
        PROVE  LET last == Lines'[i]  before == Before(Lines', i)
               IN  /\ last.sequence = before.sequence + 1 /\ last.previous = before.hash
                   /\ last.at >= before.at /\ last.bundle = runManifest'
    <3>1. CASE i = n + 1
      BY <2>1, <2>5, <2>6, <3>1
    <3>2. CASE i # n + 1
      <4>1. i \in 1 .. n
        BY <2>2, <3>2
      <4>. QED BY <2>1, <2>4, <2>7, <4>1 DEF ValidLine
    <3>. QED BY <3>1, <3>2
  <2>9. \A i : Before(Lines, i)' = Before(Lines', i)
    BY DEF Before
  <2>. QED BY <2>3, <2>8, <2>9 DEF Chained, ValidLine, Before
<1>. QED BY <1>1, <1>2

\* A line goes to the file of its day and is the youngest there is.
LEMMA DayStep ==
  ASSUME JournalInv, [JournalNext]_journalVars
  PROVE  InItsDay'
<1>1. CASE ~ (\E w \in Writers : WriteLine(w))
  BY <1>1, OnlyWrite DEF JournalInv, InItsDay, JournalDays, Day
<1>2. ASSUME NEW w \in Writers, WriteLine(w) PROVE InItsDay'
  <2>. DEFINE line == NextLine(w)  d == Day(line.at)
  <2>1. dayFiles' = [dayFiles EXCEPT ![d] = Append(@, line)] /\ Top' = HeadOf(line)
    BY <1>2, WriteAppends, TopAfter
  <2>2. dayFiles \in [JournalDays -> Seq(Events)] /\ line \in Events /\ d \in JournalDays
    BY <1>2, LineTyped DEF JournalInv, JournalTyped, WriteLine
  <2>3. Top.at <= line.at /\ Top.at \in Nat /\ line.at \in Nat /\ Top'.at = line.at
    <3>1. head[w] = Top
      BY <1>2 DEF JournalInv, HeadIsOnDisk, Top, WriteLine
    <3>2. Top \in Heads
      BY TopTyped DEF JournalInv
    <3>. QED BY <2>1, <2>2, <3>1, <3>2, Stamped, DaysCounted
         DEF JournalInv, NextLine, Heads, Events, HeadOf
  <2>. HIDE DEF line, d
  <2>4. ASSUME NEW j \in JournalDays, NEW i \in DOMAIN dayFiles'[j]
        PROVE  Day(dayFiles'[j][i].at) = j /\ dayFiles'[j][i].at <= Top'.at
    <3>1. CASE j = d /\ i = Len(dayFiles[d]) + 1
      <4>1. dayFiles'[j][i] = line
        BY <2>1, <2>2, <3>1, AppendProperties
      <4>. QED BY <2>3, <3>1, <4>1 DEF d
    <3>2. CASE ~ (j = d /\ i = Len(dayFiles[d]) + 1)
      <4>1. i \in DOMAIN dayFiles[j] /\ dayFiles'[j][i] = dayFiles[j][i] /\ dayFiles[j][i] \in Events
        <5>1. CASE j = d
          <6>1. /\ dayFiles'[d] = Append(dayFiles[d], line) /\ dayFiles[d] \in Seq(Events)
            BY <2>1, <2>2
          <6>2. /\ DOMAIN dayFiles[d] = 1 .. Len(dayFiles[d]) /\ Len(dayFiles[d]) \in Nat
                /\ DOMAIN dayFiles'[d] = 1 .. Len(dayFiles[d]) + 1
            BY <2>2, <6>1, AppendProperties, LenProperties
          <6>3. i \in 1 .. Len(dayFiles[d])
            BY <3>2, <5>1, <6>2
          <6>. QED BY <2>2, <5>1, <6>1, <6>2, <6>3, AppendProperties, ElementOfSeq
        <5>2. CASE j # d
          BY <2>1, <2>2, <5>2, ElementOfSeq, LenProperties
        <5>. QED BY <5>1, <5>2
      <4>2. Day(dayFiles[j][i].at) = j /\ dayFiles[j][i].at <= Top.at
        BY <4>1 DEF JournalInv, InItsDay
      <4>3. dayFiles[j][i].at \in Nat
        BY <4>1, DaysCounted DEF Events
      <4>. QED BY <2>3, <4>1, <4>2, <4>3
    <3>. QED BY <3>1, <3>2
  <2>. QED BY <2>4 DEF InItsDay, JournalDays, Day
<1>. QED BY <1>1, <1>2

\* The process that appends knows the head, when no sync fails.
LEMMA HeadStep ==
  ASSUME JournalInv, [JournalNext]_journalVars, Faults = FALSE
  PROVE  HeadIsOnDisk'
<1>1. JournalTyped /\ HeadIsOnDisk
  BY DEF JournalInv
<1>2. \A w \in Writers : /\ stage[w] = "open" => head[w] = Top
                         /\ stage[w] = "written" => inflight[w] = Top
  BY <1>1 DEF HeadIsOnDisk, Top
<1>3. SUFFICES ASSUME NEW w \in Writers
               PROVE  /\ stage'[w] = "open" => head'[w] = Top'
                      /\ stage'[w] = "written" => inflight'[w] = Top'
  BY DEF HeadIsOnDisk, Top
<1>4. CASE UNCHANGED journalVars \/ Clock
  BY <1>2, <1>4 DEF journalVars, Clock, Top, Lines
<1>5. ASSUME NEW v \in Writers, WriteLine(v)
      PROVE  /\ stage'[w] = "open" => head'[w] = Top'
             /\ stage'[w] = "written" => inflight'[w] = Top'
  <2>1. inflight' = [inflight EXCEPT ![v] = HeadOf(NextLine(v))] /\ Top' = HeadOf(NextLine(v))
    BY <1>5, TopAfter DEF WriteLine, NextLine
  <2>2. stage[v] = "open" /\ stage' = [stage EXCEPT ![v] = "written"]
    BY <1>5 DEF WriteLine
  <2>3. CASE w = v
    BY <1>1, <2>1, <2>2, <2>3 DEF JournalTyped
  <2>4. CASE w # v
    <3>1. stage'[w] = "closed"
      BY <1>1, <2>2, <2>4, OthersOutside DEF JournalTyped
    <3>. QED BY <3>1
  <2>. QED BY <2>3, <2>4
<1>6. CASE ~ (\E v \in Writers : WriteLine(v))
  <2>1. Top' = Top
    BY <1>6, OnlyWrite
  <2>2. ASSUME NEW v \in Writers, LeaveRun(v) \/ UNCHANGED <<head, inflight>>,
               \A u \in Writers : stage'[u] \in {"open", "written"} => stage'[u] = stage[u]
        PROVE  /\ stage'[w] = "open" => head'[w] = Top'
               /\ stage'[w] = "written" => inflight'[w] = Top'
    BY <1>1, <1>2, <2>1, <2>2 DEF JournalTyped, LeaveRun
  <2>3. ASSUME NEW v \in Writers, LeaveRun(v)
        PROVE  \A u \in Writers : stage'[u] \in {"open", "written"} => stage'[u] = stage[u]
    BY <1>1, <2>3 DEF JournalTyped, LeaveRun
  <2>4. ASSUME NEW v \in Writers, Lock(v) \/ CheckManifest(v) \/ WriteManifest(v)
        PROVE  /\ stage'[w] = "open" => head'[w] = Top'
               /\ stage'[w] = "written" => inflight'[w] = Top'
    <3>1. \A u \in Writers : stage'[u] \in {"open", "written"} => stage'[u] = stage[u]
      BY <1>1, <2>3, <2>4 DEF JournalTyped, Lock, CheckManifest, WriteManifest
    <3>. QED BY <2>2, <2>4, <3>1 DEF Lock, CheckManifest, WriteManifest
  <2>5. ASSUME NEW v \in Writers, Validate(v)
        PROVE  /\ stage'[w] = "open" => head'[w] = Top'
               /\ stage'[w] = "written" => inflight'[w] = Top'
    <3>1. CASE Valid
      <4>1. head' = [head EXCEPT ![v] = Top] /\ stage' = [stage EXCEPT ![v] = "open"]
            /\ inflight' = inflight
        BY <2>5, <3>1 DEF Validate, Top
      <4>. QED BY <1>1, <1>2, <2>1, <4>1 DEF JournalTyped
    <3>2. CASE ~ Valid
      BY <2>2, <2>3, <2>5, <3>2 DEF Validate
    <3>. QED BY <3>1, <3>2
  <2>6. ASSUME NEW v \in Writers, Sync(v)
        PROVE  /\ stage'[w] = "open" => head'[w] = Top'
               /\ stage'[w] = "written" => inflight'[w] = Top'
    <3>1. stage[v] = "written" /\ stage' = [stage EXCEPT ![v] = "open"]
      BY <2>6 DEF Sync
    <3>2. head' = [head EXCEPT ![v] = inflight[v]] /\ inflight' = [inflight EXCEPT ![v] = None]
      BY <2>6 DEF Sync
    <3>. QED BY <1>1, <1>2, <2>1, <3>1, <3>2 DEF JournalTyped
  <2>7. ASSUME NEW v \in Writers, CloseJournal(v) \/ JournalCrash(v)
        PROVE  /\ stage'[w] = "open" => head'[w] = Top'
               /\ stage'[w] = "written" => inflight'[w] = Top'
    BY <2>2, <2>3, <2>7 DEF CloseJournal, JournalCrash
  <2>. QED BY <1>4, <1>6, <2>4, <2>5, <2>6, <2>7 DEF JournalNext
<1>. QED BY <1>5, <1>6

-----------------------------------------------------------------------------
(* Theorems *)

\* The invariant holds of every behaviour in which no sync fails.
THEOREM JournalInvariant ==
  ASSUME Faults = FALSE
  PROVE  JournalSpec => []JournalInv
<1>1. JournalInit => JournalInv
  BY JournalBegins
<1>2. JournalInv /\ [JournalNext]_journalVars => JournalInv'
  <2>1. SUFFICES ASSUME JournalInv, [JournalNext]_journalVars PROVE JournalInv'
    OBVIOUS
  <2>2. JournalTyped'
    BY <2>1, TypedStep DEF JournalInv
  <2>. QED BY <2>1, <2>2, LockStep, RunStep, ChainStep, DayStep, HeadStep DEF JournalInv
<1>. QED BY <1>1, <1>2, PTL DEF JournalSpec

\* Whenever and wherever the process is killed, and however the clock is set, the
\* journal that is left passes the validation of the next start.
THEOREM ChainHolds ==
  ASSUME Faults = FALSE
  PROVE  JournalSpec => []ChainIntact
<1>1. JournalInv => ChainIntact
  BY DEF JournalInv, Chained, InItsDay, ChainIntact, Valid, Before
<1>. QED BY <1>1, JournalInvariant, PTL

\* What a writer takes for the head of the chain is the last line on disk, also
\* right after it has validated the files of another process.
THEOREM HeadHolds ==
  ASSUME Faults = FALSE
  PROVE  JournalSpec => []HeadIsOnDisk
<1>1. JournalInv => HeadIsOnDisk
  BY DEF JournalInv
<1>. QED BY <1>1, JournalInvariant, PTL

\* Appends in different day files are appends to the whole: nothing that was
\* read before is changed or preceded by what is written later.
THEOREM OnlyAppends ==
  ASSUME Faults = FALSE
  PROVE  JournalSpec => AppendOnly
<1>1. JournalInv /\ [JournalNext]_journalVars => [IsPrefix(Lines, Lines')]_journalVars
  <2>1. SUFFICES ASSUME JournalInv, [JournalNext]_journalVars PROVE IsPrefix(Lines, Lines')
    OBVIOUS
  <2>2. Lines \in Seq(Events)
    BY <2>1, TopTyped DEF JournalInv
  <2>3. CASE ~ (\E w \in Writers : WriteLine(w))
    <3>1. Lines' = Lines
      BY <2>1, <2>3, OnlyWrite
    <3>. QED BY <2>2, <3>1, LenProperties DEF IsPrefix
  <2>4. ASSUME NEW w \in Writers, WriteLine(w) PROVE IsPrefix(Lines, Lines')
    <3>1. Len(Lines') = Len(Lines) + 1 /\ \A i \in 1 .. Len(Lines) : Lines'[i] = Lines[i]
      BY <2>1, <2>4, TopAfter
    <3>2. Len(Lines) \in Nat
      BY <2>2, LenProperties
    <3>3. SubSeq(Lines, 1, Len(Lines)) = SubSeq(Lines', 1, Len(Lines))
      BY <3>1, <3>2
    <3>. QED BY <3>1, <3>2, <3>3 DEF IsPrefix
  <2>. QED BY <2>3, <2>4
<1>. QED BY <1>1, JournalInvariant, PTL DEF JournalSpec, AppendOnly
=============================================================================
