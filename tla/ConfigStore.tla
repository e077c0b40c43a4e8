---------------------------- MODULE ConfigStore ----------------------------
(***************************************************************************)
(* What the user expects of the configuration: a store that each command   *)
(* changes in one step, and only if the result is valid.  ConfigFile does  *)
(* this while commands run one after the other.                            *)
(***************************************************************************)
EXTENDS Config

VARIABLE stored

Init == stored = DEFAULT_CONFIG

Change(op) ==
  /\ Accepts(op, stored)
  /\ validateConfig(Apply(op, stored))
  /\ stored' = Apply(op, stored)

Next == \E op \in Operation : Change(op)

Spec == Init /\ [][Next]_stored
=============================================================================
