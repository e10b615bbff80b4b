----------------------------- MODULE RecordLog -----------------------------
(* What the raw data directory promises of each stream (a kind and a symbol): a
   log that only grows, of records in the order they were written.  The tail
   that is not yet in it may be lost, and nothing else. *)
EXTENDS Integers, Sequences

CONSTANTS Streams, Records  \* a set of numbers

VARIABLES log, tail  \* the records on disk and those in memory

Init == log = [s \in Streams |-> <<>>] /\ tail = log

Numbers(seq) == {seq[i] : i \in DOMAIN seq}

\* A record is newer than every other of its stream.
Add(s) ==
  /\ \E r \in Records : /\ \A n \in Numbers(log[s]) \cup Numbers(tail[s]) : n < r
                        /\ tail' = [tail EXCEPT ![s] = Append(@, r)]
  /\ UNCHANGED log

Persist(s) ==
  \E k \in 0..Len(tail[s]) :
    /\ log' = [log EXCEPT ![s] = @ \o SubSeq(tail[s], 1, k)]
    /\ tail' = [tail EXCEPT ![s] = SubSeq(@, k + 1, Len(@))]

Lose == tail' = [s \in Streams |-> <<>>] /\ UNCHANGED log

Next == Lose \/ \E s \in Streams : Add(s) \/ Persist(s)

Spec == Init /\ [][Next]_<<log, tail>>
=============================================================================
