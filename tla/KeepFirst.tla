------------------------------ MODULE KeepFirst ------------------------------
(***************************************************************************)
(* What the parsers of consumers, filters and bindings promise of the      *)
(* entries they are given one after the other: of those with the same id   *)
(* the first is kept.                                                      *)
(***************************************************************************)
CONSTANTS
  Instances,   \* the entries there are
  NoInstance   \* no entry is being added

VARIABLES
  kept,        \* the entries kept
  offered      \* the entry being added, or NoInstance

Known(c) == \E k \in kept : k.InstanceID = c.InstanceID

Init == kept = {} /\ offered = NoInstance

Offer == offered = NoInstance /\ offered' \in Instances /\ UNCHANGED kept

Settle ==
  /\ offered # NoInstance
  /\ kept' = IF Known(offered) THEN kept ELSE kept \union {offered}
  /\ offered' = NoInstance

Next == Offer \/ Settle
Spec == Init /\ [][Next]_<<kept, offered>>
=============================================================================
