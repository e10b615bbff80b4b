-------------------------- MODULE MCShadowJournal --------------------------
(* ShadowJournal with two processes, two bundles and three days. *)
EXTENDS ShadowJournal, TLC

Interchangeable == Permutations(Writers) \cup Permutations(Bundles)
=============================================================================
