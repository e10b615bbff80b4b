-------------------------- MODULE CollectionProofs --------------------------
(* Proofs about Collection, for any capacity, frame size and number of records:
   nothing is lost in silence.  The inductive invariant says in which places a run
   without a fatal error may hold records, and that the records written, queued and
   held are those received. *)
EXTENDS Collection, SequenceTheorems, TLAPS

\* The types, with what they need of each other.
CollectionTyped ==
  /\ TypeOK
  /\ frame <= received
  /\ fatal => status = "error"

\* A health worker that has ended without a fatal error has seen the others stop,
\* and a collector that has ended holds nothing.
EndsEmpty ==
  ~fatal => /\ collector = "done" => frame = 0
            /\ health = "done" => AllStopped

CollectionInv == CollectionTyped /\ EndsEmpty /\ NothingDropped

Numbered(n) == [i \in 1 .. n |-> i]

-----------------------------------------------------------------------------
(* Sequences of records *)

\* Records that follow one another.
LEMMA Following ==
  ASSUME NEW last \in Nat, NEW k \in Nat, last + k <= MaxRecords
  PROVE  /\ [i \in 1 .. k |-> last + i] \in Seq(1 .. MaxRecords)
         /\ Len([i \in 1 .. k |-> last + i]) = k
<1>. DEFINE next == [i \in 1 .. k |-> last + i]
<1>1. next \in [1 .. k -> 1 .. MaxRecords]
  BY CollectionAssumption
<1>2. next \in Seq(1 .. MaxRecords)
  BY <1>1
<1>3. DOMAIN next = 1 .. Len(next) /\ Len(next) \in Nat
  BY <1>2, LenProperties
<1>. QED BY <1>2, <1>3

\* What is numbered from the first record goes on with those behind it.
LEMMA NumberedOn ==
  ASSUME NEW last \in Nat, NEW k \in Nat, last + k <= MaxRecords
  PROVE  Numbered(last) \o [i \in 1 .. k |-> last + i] = Numbered(last + k)
<1>. DEFINE next == [i \in 1 .. k |-> last + i]
            S == 1 .. MaxRecords
<1>1. next \in Seq(S) /\ Len(next) = k
  BY Following
<1>2. \A n \in Nat : n <= MaxRecords => Numbered(n) \in Seq(S) /\ Len(Numbered(n)) = n
  <2>. SUFFICES ASSUME NEW n \in Nat, n <= MaxRecords PROVE Numbered(n) \in Seq(S) /\ Len(Numbered(n)) = n
    OBVIOUS
  <2>1. [i \in 1 .. n |-> 0 + i] = Numbered(n)
    BY DEF Numbered
  <2>2. 0 \in Nat /\ 0 + n <= MaxRecords
    OBVIOUS
  <2>. HIDE DEF S
  <2>3. [i \in 1 .. n |-> 0 + i] \in Seq(1 .. MaxRecords) /\ Len([i \in 1 .. n |-> 0 + i]) = n
    BY <2>2, Following
  <2>. QED BY <2>1, <2>3 DEF S
<1>3. last <= MaxRecords
  BY CollectionAssumption
<1>. DEFINE both == Numbered(last) \o next
<1>4. /\ both \in Seq(S) /\ Len(both) = last + k
      /\ \A i \in 1 .. last + k : both[i] = IF i <= last THEN Numbered(last)[i] ELSE next[i - last]
  <2>1. Numbered(last) \in Seq(S) /\ Len(Numbered(last)) = last
    BY <1>2, <1>3
  <2>. HIDE DEF next, S
  <2>2. /\ Numbered(last) \o next \in Seq(S)
        /\ Len(Numbered(last) \o next) = Len(Numbered(last)) + Len(next)
        /\ \A i \in 1 .. Len(Numbered(last)) + Len(next) : (Numbered(last) \o next)[i] =
              IF i <= Len(Numbered(last)) THEN Numbered(last)[i] ELSE next[i - Len(Numbered(last))]
    BY <1>1, <2>1, ConcatProperties, Zenon
  <2>. QED BY <1>1, <2>1, <2>2
<1>5. Numbered(last + k) \in Seq(S) /\ Len(Numbered(last + k)) = last + k
  BY <1>2
<1>6. \A i \in 1 .. last + k : both[i] = Numbered(last + k)[i]
  <2>. SUFFICES ASSUME NEW i \in 1 .. last + k PROVE both[i] = Numbered(last + k)[i]
    OBVIOUS
  <2>1. both[i] = IF i <= last THEN Numbered(last)[i] ELSE next[i - last]
    BY <1>4
  <2>. HIDE DEF both
  <2>2. CASE i <= last
    BY <2>1, <2>2 DEF Numbered
  <2>3. CASE ~(i <= last)
    BY <2>1, <2>3 DEF Numbered
  <2>. QED BY <2>2, <2>3
<1>. HIDE DEF both, S
<1>. QED BY <1>4, <1>5, <1>6, SeqEqual DEF both

\* Concatenation of records is associative.
LEMMA Regrouped ==
  \A a, b, c \in Seq(1 .. MaxRecords) : a \o (b \o c) = (a \o b) \o c
<1>. SUFFICES ASSUME NEW a \in Seq(1 .. MaxRecords), NEW b \in Seq(1 .. MaxRecords),
                     NEW c \in Seq(1 .. MaxRecords)
              PROVE  a \o (b \o c) = (a \o b) \o c
  OBVIOUS
<1>. QED BY ConcatAssociative

-----------------------------------------------------------------------------
(* The collector puts what fits *)

\* queue.put() keeps the capacity, and the records that fit and those that are held
\* are those that were to be put.
LEMMA PutFits ==
  ASSUME TypeOK, NEW n \in Nat
  PROVE  Fitting(n) \in 0 .. n /\ Len(queue) + Fitting(n) <= QueueMax /\ Held(n) = n - Fitting(n)
BY CollectionAssumption, LenProperties DEF TypeOK, Fitting, Held

\* A put of the records behind those that were put before.
LEMMA PutHolds ==
  ASSUME CollectionInv, NEW last \in Nat, NEW n \in 0 .. FrameMax, collector \in {"recv", "put"},
         last = received - frame, received' = last + n, received' <= MaxRecords, Put(last, n),
         stale' \in BOOLEAN, UNCHANGED <<stop, others, worker, written, health, fatal>>
  PROVE  CollectionInv'
<1>. DEFINE next == [i \in 1 .. Fitting(n) |-> last + i]
<1>0. TypeOK /\ frame \in Nat /\ received \in Nat /\ n \in Nat /\ frame <= received
  BY CollectionAssumption DEF CollectionInv, CollectionTyped, TypeOK
<1>1. Fitting(n) \in 0 .. n /\ Len(queue) + Fitting(n) <= QueueMax /\ Held(n) = n - Fitting(n)
  BY <1>0, PutFits
<1>2. next \in Seq(1 .. MaxRecords) /\ Len(next) = Fitting(n)
  <2>1. last + Fitting(n) <= MaxRecords /\ Fitting(n) \in Nat
    BY <1>0, <1>1, CollectionAssumption
  <2>. QED BY <2>1, Following
<1>3. /\ queue' = queue \o next /\ frame' = n - Fitting(n)
      /\ IF frame' = 0 THEN Continue ELSE collector' = "put" /\ UNCHANGED status
  BY <1>1 DEF Put
<1>4. queue' \in Seq(1 .. MaxRecords) /\ Len(queue') <= QueueMax
  <2>. HIDE DEF next
  <2>. QED BY <1>0, <1>1, <1>2, <1>3, ConcatProperties DEF TypeOK
<1>5. /\ collector' \in {"recv", "put", "done"} /\ (frame' > 0 => collector' = "put")
      /\ status' \in {"starting", "connected", "reconnecting", "stopped", "error"}
      /\ fatal => status' = status
  BY <1>0, <1>1, <1>3 DEF Continue, SetStatus, TypeOK
<1>6. CollectionTyped'
  <2>1. frame' \in 0 .. FrameMax /\ frame' <= received' /\ received' \in 0 .. MaxRecords
    BY <1>0, <1>1, <1>3, CollectionAssumption
  <2>2. TypeOK'
    BY <1>0, <1>4, <1>5, <2>1 DEF TypeOK
  <2>3. fatal' => status' = "error"
    BY <1>5 DEF CollectionInv, CollectionTyped
  <2>. QED BY <2>1, <2>2, <2>3 DEF CollectionTyped
<1>7. EndsEmpty'
  <2>1. frame' \in Nat
    BY <1>1, <1>3
  <2>. QED BY <1>5, <2>1 DEF CollectionInv, EndsEmpty, AllStopped
<1>8. NothingDropped'
  <2>. SUFFICES ASSUME ~(Faults /\ fatal) PROVE written' \o queue' = Numbered(received' - frame')
    BY DEF NothingDropped, Numbered
  <2>1. written \o queue = Numbered(last)
    BY DEF CollectionInv, NothingDropped, Numbered
  <2>2. written \o (queue \o next) = (written \o queue) \o next
    <3>1. written \in Seq(1 .. MaxRecords) /\ queue \in Seq(1 .. MaxRecords)
      BY <1>0 DEF TypeOK
    <3>. HIDE DEF next
    <3>. QED BY <1>2, <3>1, Regrouped
  <2>3. Numbered(last) \o next = Numbered(last + Fitting(n))
    <3>1. last + Fitting(n) <= MaxRecords /\ Fitting(n) \in Nat
      BY <1>0, <1>1, CollectionAssumption
    <3>. QED BY <3>1, NumberedOn
  <2>4. received' - frame' = last + Fitting(n)
    BY <1>1, <1>3
  <2>. QED BY <1>3, <2>1, <2>2, <2>3, <2>4
<1>. QED BY <1>6, <1>7, <1>8 DEF CollectionInv

-----------------------------------------------------------------------------
(* Every step keeps the invariant *)

\* Nothing was received at first.
LEMMA CollectionInitHolds == Init => CollectionInv
<1>. SUFFICES ASSUME Init PROVE CollectionInv
  OBVIOUS
<1>1. CollectionTyped
  <2>1. queue \in Seq(1 .. MaxRecords) /\ Len(queue) <= QueueMax /\ written \in Seq(1 .. MaxRecords)
    BY CollectionAssumption, EmptySeq DEF Init
  <2>2. stop \in BOOLEAN /\ stale \in BOOLEAN /\ fatal \in BOOLEAN /\ ~fatal
    BY DEF Init
  <2>3. received \in 0 .. MaxRecords /\ frame \in 0 .. FrameMax /\ frame <= received /\ ~(frame > 0)
    BY CollectionAssumption DEF Init
  <2>. QED BY <2>1, <2>2, <2>3 DEF Init, CollectionTyped, TypeOK
<1>2. EndsEmpty
  BY DEF Init, EndsEmpty
<1>3. NothingDropped
  <2>1. <<>> \o <<>> = <<>>
    BY ConcatEmptySeq, EmptySeq
  <2>2. Numbered(0) = <<>>
    BY DEF Numbered
  <2>3. received - frame = 0 /\ written = <<>> /\ queue = <<>>
    BY DEF Init
  <2>. QED BY <2>1, <2>2, <2>3 DEF NothingDropped, Numbered
<1>. QED BY <1>1, <1>2, <1>3 DEF CollectionInv

\* A frame of records arrives, or a put goes on.
LEMMA RecordsHold ==
  ASSUME CollectionInv, Frame \/ ResumePut
  PROVE  CollectionInv'
<1>0. /\ received \in Nat /\ frame \in 0 .. FrameMax /\ frame <= received /\ received <= MaxRecords
      /\ frame > 0 => collector \in {"put", "done"}
  BY CollectionAssumption DEF CollectionInv, CollectionTyped, TypeOK
<1>1. CASE Frame
  <2>1. PICK n \in 0 .. FrameMax : received + n <= MaxRecords /\ received' = received + n /\ Put(received, n)
    BY <1>1 DEF Frame
  <2>2. frame = 0
    BY <1>0, <1>1, CollectionAssumption DEF Frame
  <2>3. stale' \in BOOLEAN /\ collector = "recv" /\ UNCHANGED <<stop, others, worker, written, health, fatal>>
    BY <1>1 DEF Frame
  <2>. QED BY <1>0, <2>1, <2>2, <2>3, PutHolds
<1>2. CASE ResumePut
  <2>1. /\ collector = "put" /\ Put(received - frame, frame)
        /\ UNCHANGED <<stop, stale, received, others, worker, written, health, fatal>>
    BY <1>2 DEF ResumePut
  <2>2. stale \in BOOLEAN
    BY DEF CollectionInv, CollectionTyped, TypeOK
  <2>3. /\ received - frame \in Nat /\ (received - frame) + frame = received
    BY <1>0, CollectionAssumption
  <2>. QED BY <1>0, <2>1, <2>2, <2>3, PutHolds
<1>. QED BY <1>1, <1>2

\* The collector takes no record.
LEMMA CollectorHolds ==
  ASSUME CollectionInv, Connect \/ Disconnect \/ BackoffEnds \/ OtherFrame \/ RecvTimeout \/ Quiet
  PROVE  CollectionInv'
<1>1. UNCHANGED <<stop, received, frame, queue, worker, written, health, fatal>>
  BY DEF Connect, Disconnect, BackoffEnds, OtherFrame, RecvTimeout, Quiet, stats
<1>0. stop \in BOOLEAN /\ stale \in BOOLEAN /\ fatal \in BOOLEAN /\ others \in {0, 1} /\ (fatal => status = "error")
  BY DEF CollectionInv, CollectionTyped, TypeOK
<1>2. /\ collector' \in {"dial", "recv", "backoff", "done"} \/ collector' = collector
      /\ collector \in {"put", "done"} => collector' = collector
  BY DEF Connect, Disconnect, BackoffEnds, OtherFrame, RecvTimeout, Quiet, Reconnect, Continue
<1>6. stale' = TRUE \/ stale' = FALSE \/ stale' = stale
  BY DEF Connect, Disconnect, BackoffEnds, OtherFrame, RecvTimeout, Quiet, Reconnect
<1>7. others' = others \/ others' = 1 - others
  BY DEF Connect, Disconnect, BackoffEnds, OtherFrame, RecvTimeout, Quiet
<1>8. \/ status' = status
      \/ ~fatal /\ status' \in {"connected", "reconnecting", "stopped"}
  BY DEF Connect, Disconnect, BackoffEnds, OtherFrame, RecvTimeout, Quiet, Reconnect, Continue,
         SetStatus, stats
<1>9. stop' \in BOOLEAN /\ stale' \in BOOLEAN /\ fatal' \in BOOLEAN /\ others' \in {0, 1} /\ (fatal' => status' = "error")
  <2>1. stop' \in BOOLEAN /\ stale' \in BOOLEAN
    BY <1>0, <1>1, <1>6
  <2>2. fatal' \in BOOLEAN
    BY <1>0, <1>1
  <2>3. others' \in {0, 1}
    BY <1>0, <1>7
  <2>4. fatal' => status' = "error"
    BY <1>0, <1>1, <1>8
  <2>. QED BY <2>1, <2>2, <2>3, <2>4
<1>3. CollectionTyped'
  BY <1>1, <1>2, <1>8, <1>9 DEF CollectionInv, CollectionTyped, TypeOK
<1>4. EndsEmpty'
  <2>1. ~fatal => frame = 0 \/ collector = "put"
    BY CollectionAssumption DEF CollectionInv, CollectionTyped, TypeOK, EndsEmpty
  <2>. QED BY <1>1, <1>2, <2>1 DEF CollectionInv, EndsEmpty, AllStopped
<1>5. NothingDropped'
  BY <1>1 DEF CollectionInv, NothingDropped
<1>. QED BY <1>3, <1>4, <1>5 DEF CollectionInv

\* The storage worker empties the queue, or returns.
LEMMA WorkerHolds ==
  ASSUME CollectionInv, Drain \/ WorkerReturns
  PROVE  CollectionInv'
<1>1. UNCHANGED <<stop, collector, stale, received, others, frame, health, status, fatal>>
  BY DEF Drain, WorkerReturns, feed, stats
<1>2. CASE Drain
  <2>1. written' = written \o queue /\ queue' = <<>> /\ worker' \in {"wait", "done"}
    BY <1>2 DEF Drain
  <2>2. written \in Seq(1 .. MaxRecords) /\ queue \in Seq(1 .. MaxRecords)
    BY DEF CollectionInv, CollectionTyped, TypeOK
  <2>3. written' \in Seq(1 .. MaxRecords) /\ queue' \in Seq(1 .. MaxRecords) /\ Len(queue') = 0
    BY <2>1, <2>2, ConcatProperties, EmptySeq
  <2>4. CollectionTyped'
    BY <1>1, <2>1, <2>3, CollectionAssumption DEF CollectionInv, CollectionTyped, TypeOK
  <2>5. EndsEmpty'
    BY <1>1, <2>1 DEF CollectionInv, EndsEmpty, AllStopped
  <2>6. written' \o queue' = written \o queue
    BY <2>1, <2>3, ConcatEmptySeq
  <2>7. NothingDropped'
    BY <1>1, <2>6 DEF CollectionInv, NothingDropped
  <2>. QED BY <2>4, <2>5, <2>7 DEF CollectionInv
<1>3. CASE WorkerReturns
  <2>1. UNCHANGED <<queue, written>> /\ worker' = "done"
    BY <1>3 DEF WorkerReturns
  <2>. QED BY <1>1, <2>1
         DEF CollectionInv, CollectionTyped, TypeOK, EndsEmpty, AllStopped, NothingDropped
<1>. QED BY <1>2, <1>3

\* The health worker and the stop leave the records.
LEMMA HealthHolds ==
  ASSUME CollectionInv,
         DiskGuard \/ HealthNotices \/ HealthJoins \/ HealthTimeout \/ Stop
  PROVE  CollectionInv'
<1>1. UNCHANGED <<collector, stale, received, others, frame, queue, worker, written>>
  BY DEF DiskGuard, HealthNotices, HealthJoins, HealthTimeout, Stop, feed
<1>2. /\ stop' = stop \/ stop' = TRUE
      /\ (fatal' = TRUE /\ status' = "error") \/ UNCHANGED <<status, fatal>>
      /\ health' = health \/ health' = "await" \/ health' = "done"
  BY DEF DiskGuard, HealthNotices, HealthJoins, HealthTimeout, Stop, MarkFatal, stats
<1>3. health' = health \/ health' = "await" \/ fatal' = TRUE \/ AllStopped
  BY DEF DiskGuard, HealthNotices, HealthJoins, HealthTimeout, Stop, MarkFatal
<1>4. stop \in BOOLEAN /\ stale \in BOOLEAN /\ fatal \in BOOLEAN /\ (fatal => status = "error")
  BY DEF CollectionInv, CollectionTyped, TypeOK
<1>5. stop' \in BOOLEAN /\ stale' \in BOOLEAN /\ fatal' \in BOOLEAN /\ (fatal' => status' = "error") /\ (fatal => fatal')
  <2>1. stop' \in BOOLEAN
    BY <1>2, <1>4
  <2>2. stale' \in BOOLEAN
    BY <1>1, <1>4
  <2>3. fatal' \in BOOLEAN
    BY <1>2, <1>4
  <2>4. fatal' => status' = "error"
    BY <1>2, <1>4
  <2>5. fatal => fatal'
    BY <1>2, <1>4
  <2>. QED BY <2>1, <2>2, <2>3, <2>4, <2>5
<1>6. CollectionTyped'
  BY <1>1, <1>2, <1>5 DEF CollectionInv, CollectionTyped, TypeOK
<1>7. EndsEmpty'
  BY <1>1, <1>3, <1>5 DEF CollectionInv, EndsEmpty, AllStopped
<1>8. NothingDropped'
  BY <1>1, <1>5 DEF CollectionInv, NothingDropped
<1>. QED BY <1>6, <1>7, <1>8 DEF CollectionInv

\* A task that fails ends the run with a fatal error; the record it had is lost.
LEMMA FailureHolds ==
  ASSUME CollectionInv, TaskFails
  PROVE  CollectionInv'
<1>1. /\ Faults /\ fatal' = TRUE /\ status' = "error" /\ stop' = TRUE
      /\ collector' = "done" /\ worker' = "done" /\ health' = "done"
      /\ UNCHANGED <<stale, received, others, frame>>
  BY DEF TaskFails, MarkFatal
<1>2. /\ queue' \in Seq(1 .. MaxRecords) /\ Len(queue') <= QueueMax
      /\ written' \in Seq(1 .. MaxRecords)
  <2>0. /\ written \in Seq(1 .. MaxRecords) /\ queue \in Seq(1 .. MaxRecords) /\ Len(queue) <= QueueMax
    BY DEF CollectionInv, CollectionTyped, TypeOK
  <2>1. CASE UNCHANGED <<queue, written>>
    BY <2>0, <2>1
  <2>2. ASSUME NEW k \in 0 .. (Len(queue) - 1), written' = written \o SubSeq(queue, 1, k),
               queue' = SubSeq(queue, k + 2, Len(queue))
        PROVE  /\ queue' \in Seq(1 .. MaxRecords) /\ Len(queue') <= QueueMax
               /\ written' \in Seq(1 .. MaxRecords)
    <3>1. Len(queue) \in Nat /\ \A i \in 1 .. Len(queue) : queue[i] \in 1 .. MaxRecords
      BY <2>0, LenProperties, ElementOfSeq
    <3>2. SubSeq(queue, 1, k) \in Seq(1 .. MaxRecords)
      BY <3>1, SubSeqProperties
    <3>3. /\ SubSeq(queue, k + 2, Len(queue)) \in Seq(1 .. MaxRecords)
          /\ Len(SubSeq(queue, k + 2, Len(queue))) <= Len(queue)
      BY <3>1, SubSeqProperties
    <3>4. written \o SubSeq(queue, 1, k) \in Seq(1 .. MaxRecords)
      BY <2>0, <3>2, ConcatProperties
    <3>. QED BY <2>0, <2>2, <3>1, <3>3, <3>4, CollectionAssumption
  <2>. QED BY <2>1, <2>2 DEF TaskFails
<1>3. CollectionTyped'
  BY <1>1, <1>2 DEF CollectionInv, CollectionTyped, TypeOK
<1>. QED BY <1>1, <1>3 DEF CollectionInv, EndsEmpty, NothingDropped

LEMMA CollectionStepHolds == CollectionInv /\ [Next]_vars => CollectionInv'
<1>. SUFFICES ASSUME CollectionInv, [Next]_vars PROVE CollectionInv'
  OBVIOUS
<1>1. CASE Next
  BY <1>1, RecordsHold, CollectorHolds, WorkerHolds, HealthHolds, FailureHolds DEF Next
<1>2. CASE UNCHANGED vars
  BY <1>2 DEF vars, feed, stats, CollectionInv, CollectionTyped, TypeOK, EndsEmpty, AllStopped, NothingDropped
<1>. QED BY <1>1, <1>2

-----------------------------------------------------------------------------

\* The capacity is kept and the control state is typed, whatever the sizes.
THEOREM CollectionTypeHolds == Spec => []TypeOK
<1>1. CollectionInv => TypeOK
  BY DEF CollectionInv, CollectionTyped
<1>. QED BY <1>1, CollectionInitHolds, CollectionStepHolds, PTL DEF Spec

\* Until a task fails, what is written, queued and held is what came in, in its
\* order, for every capacity and frame (cli.py, _run_collection).
THEOREM NothingDroppedHolds == Spec => []NothingDropped
<1>1. CollectionInv => NothingDropped
  BY DEF CollectionInv
<1>. QED BY <1>1, CollectionInitHolds, CollectionStepHolds, PTL DEF Spec

\* A run that ends without a fatal error has given every record to the writer: a
\* health worker that waits for the collector and the queue is enough, although the
\* storage worker may return first.
THEOREM LossIsReportedHolds == Spec => []LossIsReported
<1>1. CollectionInv => LossIsReported
  <2>. SUFFICES ASSUME CollectionInv, Ended, ~fatal PROVE Len(written) = received
    BY DEF LossIsReported
  <2>1. frame = 0 /\ queue = <<>>
    BY DEF CollectionInv, EndsEmpty, Ended, AllStopped
  <2>2. written \o queue = Numbered(received - frame)
    BY DEF CollectionInv, NothingDropped, Numbered
  <2>3. written \in Seq(1 .. MaxRecords) /\ received \in Nat /\ received <= MaxRecords
    BY CollectionAssumption DEF CollectionInv, CollectionTyped, TypeOK
  <2>4. written = Numbered(received)
    BY <2>1, <2>2, <2>3, ConcatEmptySeq
  <2>5. Numbered(received) = [i \in 1 .. received |-> 0 + i]
    BY <2>3 DEF Numbered
  <2>6. 0 \in Nat /\ 0 + received <= MaxRecords
    BY <2>3, CollectionAssumption
  <2>. QED BY <2>3, <2>4, <2>5, <2>6, Following
<1>. QED BY <1>1, CollectionInitHolds, CollectionStepHolds, PTL DEF Spec

\* No reconnect, stop or late health report takes a fatal error back (CollectorStats).
THEOREM FatalIsLatchedHolds == Spec => FatalIsLatched
<1>1. CollectionInv /\ CollectionInv' /\ [Next]_vars => [fatal => fatal' /\ status' = "error"]_vars
  <2>. SUFFICES ASSUME CollectionInv', Next, fatal PROVE fatal' /\ status' = "error"
    OBVIOUS
  <2>1. fatal'
    BY DEF Next, Connect, Disconnect, BackoffEnds, Frame, ResumePut, OtherFrame, RecvTimeout, Quiet,
           Drain, WorkerReturns, DiskGuard, HealthNotices, HealthJoins, HealthTimeout, Stop,
           TaskFails, MarkFatal, stats
  <2>. QED BY <2>1 DEF CollectionInv, CollectionTyped
<1>2. Spec => []CollectionInv
  BY CollectionInitHolds, CollectionStepHolds, PTL DEF Spec
<1>. QED BY <1>1, <1>2, PTL DEF Spec, FatalIsLatched
=============================================================================
