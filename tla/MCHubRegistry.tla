--------------------------- MODULE MCHubRegistry ---------------------------
(* Instances of HubRegistry with its calls for TLC, and the topologies of  *)
(* a few nodes.                                                            *)
EXTENDS HubCalls, HubTopology

(* All sets of at most as many pairs as there are names, for all nodes and *)
(* for all but one; lists of one or two pairs that are repeated.           *)
Topologies ==
  LET some == CHOOSE id \in Id : TRUE
  IN  {c \in [type : {"tree"}, nodes : {Id, Id \ {some}}, root : {some},
              children : SUBSET (Id \X Id), twice : {{}}] :
         Cardinality(c.children) <= Cardinality(Id)}
      \union {[type |-> "tree", nodes |-> Id, root |-> some, children |-> {x, y}, twice |-> {x}] :
                x, y \in Id \X Id}
      \union [type : {"flat"}, nodes : SUBSET Id, root : {NoId}, children : {{}}, twice : {{}}]

TopologiesAgree == \A c \in Topologies : AcceptsForests(c) /\ QueriesAgree(c)

(* The topology of a hub that runs is one it should accept, and all its    *)
(* queries agree with the relation it is built from, over all of these     *)
(* configurations.                                                         *)
TopologyExact == running => TopologiesAgree
=============================================================================
