----------------------------- MODULE ShadowSlot -----------------------------
(* What Shadow Mode promises of its one simulated position (SHADOW_MODE.md):
   one global slot, taken by one decision at a time, each decision at most once
   and in the order of time, freed with a return or with none.  ShadowRuntime
   implements it with the events of its journal. *)
EXTENDS Integers

CONSTANTS None, Returns

VARIABLES
  slot,   \* the decision that holds the slot, or None
  used,   \* the decisions that have held it
  total   \* the sum of the returns realised

Init == slot = None /\ used = {} /\ total = 0

Take ==
  /\ slot = None
  /\ slot' \in Nat /\ \A id \in used : id < slot'
  /\ used' = used \cup {slot'}
  /\ UNCHANGED total

Free ==
  /\ slot # None /\ slot' = None
  /\ \E r \in Returns \cup {0} : total' = total + r
  /\ UNCHANGED used

Next == Take \/ Free

Spec == Init /\ [][Next]_<<slot, used, total>>
=============================================================================
