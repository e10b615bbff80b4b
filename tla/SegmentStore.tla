---------------------------- MODULE SegmentStore ----------------------------
(* SegmentedJsonlWriter (storage/jsonl.py) over the runs of one process after
   another: writing, rotation, flush, the atomic rename at the end of a segment,
   and the recovery of what a killed process left behind.  A record is a number;
   a file's last line may be incomplete, as far as the buffer was written out
   when the process died.  A failed write ends the process, so it is a Crash
   here; the loss of a whole machine is not modelled. *)
EXTENDS NoValue, Integers, SequencesExt

CONSTANTS
  Streams,  \* (kind, symbol) keys
  Dates,    \* UTC dates of exchange_ts_ms
  MaxRecords, MaxStarts  \* bounds: records written, processes started

ASSUME StoreAssumption ==
  /\ {MaxRecords, MaxStarts} \subseteq Nat
  /\ None \notin Nat \cup Dates \cup [stream : Streams, date : Dates \cup {None}]

VARIABLES
  writer,   \* "down", "recover", "open", "rename", "close", "stopped"
  starts,
  files,    \* in the order they were created: [stream, date, lines, torn, state]
  segment,  \* _segments: the place in files of each stream's open segment
  buffer,   \* the records each stream's handle holds back
  records,  \* the date of each record written so far
  renamed   \* the segment flushed and closed but not yet renamed, and the
            \* record that is written next: [stream, date], date None at the end

storeVars == <<writer, starts, files, segment, buffer, records, renamed>>

Partials == {i \in DOMAIN files : files[i].state = "partial"}

NoSegments == [s \in Streams |-> None]
NoBuffers  == [s \in Streams |-> <<>>]

StoreInit ==
  /\ writer = "down" /\ starts = 0 /\ files = <<>> /\ records = <<>> /\ renamed = None
  /\ segment = NoSegments /\ buffer = NoBuffers

\* The buffers are gone with the process, the files stay as they are.
StoreCrash ==
  /\ writer \notin {"down", "stopped"} /\ writer' = "down"
  /\ segment' = NoSegments /\ buffer' = NoBuffers /\ renamed' = None
  /\ UNCHANGED <<starts, files, records>>

Start ==
  /\ writer \in {"down", "stopped"} /\ starts < MaxStarts
  /\ starts' = starts + 1 /\ writer' = "recover"
  /\ UNCHANGED <<files, segment, buffer, records, renamed>>

-----------------------------------------------------------------------------
\* _recover_partials: cut off an incomplete line, then rename.

\* A recovery that takes the file as it is.
AsItIs(f) == FALSE

Incomplete(f) == f.torn

\* A cut that takes a complete line with it.
OneTooFew(lines) == SubSeq(lines, 1, Len(lines) - 1)

\* _truncate_incomplete_line.
Complete(lines) == lines

Truncate(i) ==
  /\ writer = "recover" /\ Incomplete(files[i])
  /\ files' = [files EXCEPT ![i].torn = FALSE, ![i].lines = Complete(@)]
  /\ UNCHANGED <<writer, starts, segment, buffer, records, renamed>>

Recovered(i) ==
  /\ writer = "recover" /\ ~Incomplete(files[i])
  /\ files' = [files EXCEPT ![i].state = "final"]
  /\ UNCHANGED <<writer, starts, segment, buffer, records, renamed>>

RecoveryEnds ==
  /\ writer = "recover" /\ Partials = {} /\ writer' = "open"
  /\ UNCHANGED <<starts, files, segment, buffer, records, renamed>>

-----------------------------------------------------------------------------
\* flush_if_due, and the buffer running over: k records reach the file, perhaps
\* with the beginning of the next one.
Flush(s) ==
  /\ writer \in {"open", "close"} /\ buffer[s] # <<>>
  /\ \E k \in 0..Len(buffer[s]) : \E torn \in BOOLEAN :
       /\ torn => k < Len(buffer[s])
       /\ files[segment[s]].torn => k > 0 \/ torn
       /\ files' = [files EXCEPT ![segment[s]].lines = @ \o SubSeq(buffer[s], 1, k),
                                 ![segment[s]].torn = torn]
       /\ buffer' = [buffer EXCEPT ![s] = SubSeq(@, k + 1, Len(@))]
  /\ UNCHANGED <<writer, starts, segment, records, renamed>>

\* _finalize up to the rename.
Finalize(s) ==
  /\ files' = [files EXCEPT ![segment[s]].lines = @ \o buffer[s],
                            ![segment[s]].torn = FALSE]
  /\ buffer' = [buffer EXCEPT ![s] = <<>>]
  /\ writer' = "rename"

\* A segment kept for whatever date comes.
EveryDate(s, date) == FALSE

OtherDate(s, date) == files[segment[s]].date # date

\* The record, numbered, goes to the stream's handle.
Put(s, date) ==
  /\ buffer' = [buffer EXCEPT ![s] = Append(@, Len(records) + 1)]
  /\ records' = Append(records, date)

\* write() into the open segment.
Write(s, date) ==
  /\ writer = "open" /\ Len(records) < MaxRecords
  /\ segment[s] # None /\ ~OtherDate(s, date)
  /\ Put(s, date)
  /\ UNCHANGED <<writer, starts, files, segment, renamed>>

\* _open_segment and the record that comes first in it.
OpenWith(s, date, done) ==
  /\ files' = Append(done, [stream |-> s, date |-> date, lines |-> <<>>,
                            torn |-> FALSE, state |-> "partial"])
  /\ segment' = [segment EXCEPT ![s] = Len(done) + 1]
  /\ Put(s, date)

WriteFirst(s, date) ==
  /\ writer = "open" /\ Len(records) < MaxRecords /\ segment[s] = None
  /\ OpenWith(s, date, files)
  /\ UNCHANGED <<writer, starts, renamed>>

\* write() that rotates: another date, or the segment is too old or too long.
Rotate(s, date) ==
  /\ writer = "open" /\ Len(records) < MaxRecords /\ segment[s] # None
  /\ Finalize(s)
  /\ renamed' = [stream |-> s, date |-> date]
  /\ UNCHANGED <<starts, segment, records>>

Final == [files EXCEPT ![segment[renamed.stream]].state = "final"]

\* A rotation that goes on with the segment it has finalized.
SameSegment ==
  /\ files' = Final /\ Put(renamed.stream, renamed.date)
  /\ UNCHANGED segment

NewSegment == OpenWith(renamed.stream, renamed.date, Final)

Rename ==
  /\ writer = "rename" /\ renamed' = None
  /\ IF renamed.date = None
     THEN /\ files' = Final
          /\ segment' = [segment EXCEPT ![renamed.stream] = None]
          /\ writer' = "close" /\ UNCHANGED <<buffer, records>>
     ELSE NewSegment /\ writer' = "open"
  /\ UNCHANGED starts

\* close(): every segment, one after the other.
Close ==
  /\ writer = "open" /\ writer' = "close"
  /\ UNCHANGED <<starts, files, segment, buffer, records, renamed>>

CloseOne(s) ==
  /\ writer = "close" /\ segment[s] # None
  /\ Finalize(s)
  /\ renamed' = [stream |-> s, date |-> None]
  /\ UNCHANGED <<starts, segment, records>>

\* A close() that is content with the first segment.
OneClosed == \E s \in Streams : segment[s] = None

AllClosed == segment = NoSegments

CloseEnds ==
  /\ writer = "close" /\ AllClosed /\ writer' = "stopped"
  /\ UNCHANGED <<starts, files, segment, buffer, records, renamed>>

StoreNext ==
  \/ StoreCrash \/ Start \/ RecoveryEnds \/ Rename \/ Close \/ CloseEnds
  \/ \E i \in Partials : Truncate(i) \/ Recovered(i)
  \/ \E s \in Streams : Flush(s) \/ CloseOne(s)
  \/ \E s \in Streams, date \in Dates : Write(s, date) \/ WriteFirst(s, date) \/ Rotate(s, date)

StoreSpec == StoreInit /\ [][StoreNext]_storeVars

-----------------------------------------------------------------------------
\* Every variable keeps to its values, and only an open segment has a buffer.
StoreTypeOK ==
  /\ writer \in {"down", "recover", "open", "rename", "close", "stopped"}
  /\ files \in Seq([stream : Streams, date : Dates, lines : Seq(1..MaxRecords),
                    torn : BOOLEAN, state : {"partial", "final"}])
  /\ \A s \in Streams : segment[s] = None => buffer[s] = <<>>
  /\ \A s \in Streams : segment[s] # None =>
       segment[s] \in DOMAIN files /\ files[segment[s]].stream = s
  /\ writer \in {"down", "recover", "stopped"} => segment = NoSegments
  /\ starts \in 0..MaxStarts /\ records \in Seq(Dates)
  /\ renamed # None <=> writer = "rename"

\* A file that readers look at (*.jsonl) never ends in a part of a record,
\* whatever the process was doing when it was killed.
FinalIsComplete == \A i \in DOMAIN files : files[i].state = "final" => ~files[i].torn

\* Archive, audit and canonical dataset go by the date of the directory: a file
\* holds records of its own date only, in whatever order the dates arrive.
PartitionHolds ==
  \A i \in DOMAIN files : \A k \in DOMAIN files[i].lines :
    records[files[i].lines[k]] = files[i].date

\* A file that readers look at never changes, nor does a restart replace it.
FinalIsImmutable ==
  [][\A i \in DOMAIN files : files[i].state = "final" =>
       i \in DOMAIN files' /\ files'[i] = files[i]]_storeVars

\* The files of a stream, read one after the other, are a log that never loses
\* what was in it, whatever is rotated, killed and recovered.
OnDisk(s) == FlattenSeq([i \in DOMAIN files |->
  IF files[i].stream = s THEN files[i].lines ELSE <<>>])

Log == INSTANCE RecordLog WITH Records <- 1..MaxRecords,
  log <- [s \in Streams |-> OnDisk(s)], tail <- buffer

LogSpec == Log!Spec
=============================================================================
