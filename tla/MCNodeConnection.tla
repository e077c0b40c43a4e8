-------------------------- MODULE MCNodeConnection --------------------------
(* Instances of NodeConnection for TLC. *)
EXTENDS NodeConnection, TLC

SocketSymmetry == Permutations(Socket)
=============================================================================
