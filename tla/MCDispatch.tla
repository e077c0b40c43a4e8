----------------------------- MODULE MCDispatch -----------------------------
(* Instances of Dispatch for TLC. *)
EXTENDS Dispatch

CONSTANTS n1, n2

MCTargets == <<n1, n2>>
=============================================================================
