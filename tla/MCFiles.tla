------------------------------ MODULE MCFiles ------------------------------
(* What the program writes to disk on small instances: the shadow journal, the
   segmented store and the archive with its retention.  The three share nothing,
   so a behaviour runs one of them, chosen at the start, and leaves the others as
   they begin. *)
EXTENDS ShadowJournal, SegmentStore, Archive, TLC

CONSTANTS
  p1, p2,     \* processes and streams
  v1, v2,     \* bundles, dates and outputs
  f1, f2, g1  \* two raw files of the first day, one of the next

VARIABLE system  \* which system runs

filesVars == <<system, journalVars, storeVars, vars>>

MCDayOf == f1 :> 0 @@ f2 :> 0 @@ g1 :> 1

Interchangeable == Permutations({p1, p2}) \cup Permutations({v1, v2}) \cup Permutations({f1, f2})

FilesInit ==
  /\ system \in {"journal", "store", "archive"}
  /\ JournalInit /\ StoreInit /\ Init

JournalStep == system = "journal" /\ JournalNext /\ UNCHANGED <<system, storeVars, vars>>

StoreStep == system = "store" /\ StoreNext /\ UNCHANGED <<system, journalVars, vars>>

\* The bound on the starts is reached, and the last process has ended.
StoreEnds ==
  /\ system = "store" /\ starts = MaxStarts /\ writer \in {"down", "stopped"}
  /\ UNCHANGED filesVars

ArchiveStep == system = "archive" /\ Next /\ UNCHANGED <<system, journalVars, storeVars>>

FilesNext == JournalStep \/ StoreStep \/ StoreEnds \/ ArchiveStep

FilesSpec == FilesInit /\ [][FilesNext]_filesVars
=============================================================================
