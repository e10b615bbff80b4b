----------------------------- MODULE MCArchive -----------------------------
(* Two files of the first day, one of the next; two commands at a time. *)
EXTENDS Archive, TLC

CONSTANTS f1, f2, g1

MCDayOf == f1 :> 0 @@ f2 :> 0 @@ g1 :> 1

Interchangeable == Permutations(Procs) \cup Permutations(Outputs) \cup Permutations({f1, f2})
=============================================================================
