---------------------------- MODULE MCNodeHealth ----------------------------
(* Instances of NodeHealth, and with it of NodeConnection, for TLC. *)
EXTENDS NodeHealth
=============================================================================
