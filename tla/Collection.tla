----------------------------- MODULE Collection -----------------------------
(* One run of `collect` (cli.py, _run_collection): the WebSocket collector, the
   bounded asyncio.Queue, the storage worker and the health worker in one task
   group.  A task keeps the loop until it awaits, so an action takes a task from
   one await to the next.  Records are numbered in the order they are received;
   what becomes of a record once the writer has it is in SegmentStore. *)
EXTENDS Integers, Sequences

CONSTANTS
  QueueMax,   \* storage.queue_maxsize
  FrameMax,   \* the most records one WebSocket frame carries
  Faults,     \* may a write fail or the disk run low?
  MaxRecords  \* bound: records received

\* The configuration asks for a positive queue_maxsize only; it ships 100000,
\* far above the records of any frame, and the shutdown counts on that.
ASSUME CollectionAssumption ==
  /\ {QueueMax, FrameMax} \subseteq Nat \ {0} /\ FrameMax <= QueueMax
  /\ MaxRecords \in Nat
  /\ Faults \in BOOLEAN

VARIABLES
  stop,       \* stop_event
  collector,  \* what the collector awaits: "dial", "recv", "put", "backoff"; or "done"
  stale,      \* no topic data for stale_connection_seconds
  received,   \* records received so far
  others,     \* frames without a topic received so far, modulo 2
  frame,      \* records of the current frame not yet in the queue
  queue,      \* the records in the queue
  worker,     \* the storage worker: "wait"s in queue.get(), or is "done"
  written,    \* the records the writer was given
  health,     \* the health worker: "watch", "await" (the others to stop), "done"
  status, fatal   \* CollectorStats.status and fatal_error

feed  == <<collector, stale, received, others, frame>>
stats == <<status, fatal>>
vars  == <<stop, feed, queue, worker, written, health, stats>>

Init ==
  /\ stop = FALSE /\ collector = "dial" /\ stale = FALSE
  /\ received = 0 /\ others = 0 /\ frame = 0 /\ queue = <<>>
  /\ worker = "wait" /\ written = <<>> /\ health = "watch"
  /\ status = "starting" /\ fatal = FALSE

Ended == collector = "done" /\ worker = "done" /\ health = "done"

\* A status that forgets the fatal error.
SetAnyway(s) == status' = s

\* connection_opened, the reconnect branch of run() and mark_stopped leave the
\* status of a fatal error alone.
SetStatus(s) == status' = IF fatal THEN status ELSE s

MarkFatal == fatal' = TRUE /\ status' = "error"

-----------------------------------------------------------------------------
\* The collector.  Back at the head of its loop it returns if stop is set.
Continue ==
  IF stop
  THEN collector' = "done" /\ SetStatus("stopped")
  ELSE collector' = "recv" /\ UNCHANGED status

Reconnect == collector' = "backoff" /\ stale' = FALSE /\ SetStatus("reconnecting")

Connect ==
  /\ collector = "dial"
  /\ IF stop
     THEN collector' = "done" /\ SetStatus("stopped")
     ELSE collector' = "recv" /\ SetStatus("connected")
  /\ stale' = FALSE
  /\ UNCHANGED <<stop, received, others, frame, queue, worker, written, health, fatal>>

\* The dial fails, the peer closes, or a frame cannot be used.
Disconnect ==
  /\ collector \in {"dial", "recv"} /\ Reconnect
  /\ UNCHANGED <<stop, received, others, frame, queue, worker, written, health, fatal>>

BackoffEnds ==
  /\ collector = "backoff"
  /\ IF stop THEN collector' = "done" /\ SetStatus("stopped")
             ELSE collector' = "dial" /\ UNCHANGED status
  /\ UNCHANGED <<stop, stale, received, others, frame, queue, worker, written, health, fatal>>

\* A sink that takes no notice of the capacity.
Unbounded(n) == n

\* queue.put() goes on without a pause as long as there is room.
Fitting(n) == IF n <= QueueMax - Len(queue) THEN n ELSE QueueMax - Len(queue)

\* A sink that drops what does not fit.
Dropped(n) == 0

Held(n) == n - Fitting(n)

\* Put the records after `last`, n of them, as far as they fit.
Put(last, n) ==
  /\ queue' = queue \o [i \in 1..Fitting(n) |-> last + i]
  /\ frame' = Held(n)
  /\ IF frame' = 0 THEN Continue ELSE collector' = "put" /\ UNCHANGED status

Frame ==
  /\ collector = "recv"
  /\ \E n \in 0..FrameMax :
       /\ received + n <= MaxRecords
       /\ received' = received + n
       /\ stale' = FALSE
       /\ Put(received, n)
  /\ UNCHANGED <<stop, others, worker, written, health, fatal>>

\* The queue has room again for a collector that waits in put().
ResumePut ==
  /\ collector = "put" /\ Len(queue) < QueueMax
  /\ Put(received - frame, frame)
  /\ UNCHANGED <<stop, stale, received, others, worker, written, health, fatal>>

\* A watchdog that is looked at only when recv() times out.
Pongs == FALSE

\* _topic_data_is_stale for a frame without a topic.
StaleFrame == stale

\* A pong, a subscription reply or an unreadable message.
OtherFrame ==
  /\ collector = "recv"
  /\ others' = 1 - others
  /\ IF StaleFrame THEN Reconnect ELSE Continue /\ UNCHANGED stale
  /\ UNCHANGED <<stop, received, frame, queue, worker, written, health, fatal>>

\* recv() yields nothing for a second.
RecvTimeout ==
  /\ collector = "recv"
  /\ IF stale THEN Reconnect ELSE Continue /\ UNCHANGED stale
  /\ UNCHANGED <<stop, received, others, frame, queue, worker, written, health, fatal>>

\* stale_connection_seconds pass without topic data.
Quiet ==
  /\ collector \in {"recv", "put"} /\ ~stale /\ stale' = TRUE
  /\ UNCHANGED <<stop, collector, received, others, frame, queue, worker, written, health, stats>>

-----------------------------------------------------------------------------
\* The storage worker.  While the queue has records, neither get() nor the
\* writer yields, so it takes everything there is.
Drain ==
  /\ worker = "wait" /\ queue # <<>>
  /\ written' = written \o queue /\ queue' = <<>>
  /\ worker' = IF stop THEN "done" ELSE "wait"
  /\ UNCHANGED <<stop, feed, health, stats>>

\* get() times out, and nothing is left to do.
WorkerReturns ==
  /\ worker = "wait" /\ queue = <<>> /\ stop
  /\ worker' = "done"
  /\ UNCHANGED <<stop, feed, queue, written, health, stats>>

-----------------------------------------------------------------------------
\* The health worker.
DiskGuard ==
  /\ Faults /\ health = "watch" /\ ~stop
  /\ MarkFatal /\ stop' = TRUE
  /\ UNCHANGED <<feed, queue, worker, written, health>>

HealthNotices ==
  /\ health = "watch" /\ stop /\ health' = "await"
  /\ UNCHANGED <<stop, feed, queue, worker, written, stats>>

\* queue.join() alone.
QueueJoined == queue = <<>>

AllStopped == collector = "done" /\ queue = <<>>

HealthJoins ==
  /\ health = "await" /\ AllStopped /\ health' = "done"
  /\ UNCHANGED <<stop, feed, queue, worker, written, stats>>

\* Waiting for the others without a limit.
Patience == FALSE

\* shutdown_timeout_seconds may pass at any time.
HealthTimeout ==
  /\ health = "await" /\ health' = "done" /\ MarkFatal
  /\ UNCHANGED <<stop, feed, queue, worker, written>>

-----------------------------------------------------------------------------
\* A signal or the automatic stop.
Stop ==
  /\ ~stop /\ stop' = TRUE
  /\ UNCHANGED <<feed, queue, worker, written, health, stats>>

\* An exception of the storage worker, after k more records and with the next
\* one lost, or of the health worker: the task group cancels the other tasks.
TaskFails ==
  /\ Faults
  /\ \/ health # "done" /\ UNCHANGED <<queue, written>>
     \/ /\ worker # "done"
        /\ \E k \in 0..(Len(queue) - 1) :
             /\ written' = written \o SubSeq(queue, 1, k)
             /\ queue' = SubSeq(queue, k + 2, Len(queue))
  /\ collector' = "done" /\ worker' = "done" /\ health' = "done" /\ stop' = TRUE
  /\ MarkFatal
  /\ UNCHANGED <<stale, received, others, frame>>

Next ==
  \/ Connect \/ Disconnect \/ BackoffEnds \/ Frame \/ ResumePut \/ OtherFrame
  \/ RecvTimeout \/ Quiet \/ Drain \/ WorkerReturns
  \/ DiskGuard \/ HealthNotices \/ HealthJoins \/ HealthTimeout
  \/ Stop \/ TaskFails

Spec == Init /\ [][Next]_vars

(* Fairness: every await of these tasks has a timeout (the dial 15 s, recv() 1 s,
   get() flush_seconds, the backoff, the shutdown wait), or is a put() that goes
   on as soon as the queue has room. *)
FairSpec ==
  /\ Spec
  /\ WF_vars(Connect \/ (collector = "dial" /\ Disconnect)) /\ WF_vars(BackoffEnds)
  /\ WF_vars(Frame \/ OtherFrame \/ RecvTimeout) /\ WF_vars(ResumePut)
  /\ WF_vars(Drain) /\ WF_vars(WorkerReturns)
  /\ WF_vars(HealthNotices) /\ WF_vars(HealthJoins) /\ WF_vars(HealthTimeout)

-----------------------------------------------------------------------------
\* Every variable keeps to its values; the queue to its capacity.
TypeOK ==
  /\ stop \in BOOLEAN /\ stale \in BOOLEAN /\ fatal \in BOOLEAN
  /\ collector \in {"dial", "recv", "put", "backoff", "done"}
  /\ received \in 0..MaxRecords /\ others \in {0, 1} /\ frame \in 0..FrameMax
  /\ frame > 0 => collector \in {"put", "done"}
  /\ queue \in Seq(1..MaxRecords) /\ Len(queue) <= QueueMax
  /\ written \in Seq(1..MaxRecords)
  /\ worker \in {"wait", "done"} /\ health \in {"watch", "await", "done"}
  /\ status \in {"starting", "connected", "reconnecting", "stopped", "error"}

\* Nothing is lost in silence: when the process ends without a fatal error, every
\* record received is with the writer.
LossIsReported == Ended /\ ~fatal => Len(written) = received

\* Until a task fails, no backpressure, reconnect or stop loses, repeats or
\* reorders a record: what is written, queued and held by put() is what came in.
NothingDropped ==
  ~(Faults /\ fatal) =>
    /\ written \o queue = [i \in 1..(received - frame) |-> i]

\* A fatal error stays: no reconnect, stop or late health report takes it back.
FatalIsLatched == [][fatal => fatal' /\ status' = "error"]_vars

\* After stop_event the process ends, also with a full queue, a collector in the
\* middle of a dial and a storage worker that has already returned.
StopEndsTheRun == stop ~> Ended

\* A connection without topic data is given up, or gets data, however many pongs
\* it answers and while the sink holds the collector back.
StaleIsNoticed == stale ~> ~stale \/ collector = "done"

\* A received record reaches the writer, or the run reports a fatal error.
WrittenOrReported == \A n \in 1..MaxRecords :
  received >= n ~> Len(written) >= n \/ fatal

\* A graceful stop empties the queue (SOAK_TEST.md).
QueueEmptiesAtStop == Ended => queue = <<>>
=============================================================================
