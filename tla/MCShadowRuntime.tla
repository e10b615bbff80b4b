-------------------------- MODULE MCShadowRuntime --------------------------
(* ShadowRuntime on small constants. *)
EXTENDS ShadowRuntime

\* A loss and a gain of one unit; an order that does not fill returns nothing.
MCReturns == {-1, 1}
=============================================================================
