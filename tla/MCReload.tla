------------------------------ MODULE MCReload ------------------------------
(* Instances of Reload for TLC. *)
EXTENDS Reload, TLC

CONSTANTS a, b, c

MCOperation ==
  [kind : {"add", "remove"}, node : Node] \union [kind : {"enable", "disable"}, node : {b}]

HandlerSymmetry == Permutations(Handler)
=============================================================================
