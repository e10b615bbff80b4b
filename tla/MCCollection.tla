---------------------------- MODULE MCCollection ----------------------------
(* Collection as it is; the configurations give its constants their values. *)
EXTENDS Collection
=============================================================================
