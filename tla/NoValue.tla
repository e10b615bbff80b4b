------------------------------ MODULE NoValue ------------------------------
(* The value of what is absent, shared by the modules of the data pipeline. *)
CONSTANT None
=============================================================================
