---------------------------- MODULE MCConfigFile ----------------------------
(* Instances of ConfigFile for TLC, and the properties that compare the    *)
(* functions of Topology with their references on the configurations that  *)
(* commands make.                                                          *)
EXTENDS ConfigFile, Topology

CONSTANTS n1, n2, n3

NodeOp(kind, n)    == [kind |-> kind, node |-> n]
RelateOp(n, ns, m) == [kind |-> "relate",
                       relation |-> [parent |-> n, children |-> ns, mode |-> m]]
RuleTo == [target |-> None, targets |-> {n2}]

(* Operations on three nodes: enough for a chain, a diamond and a cycle.   *)
MCOperation ==
  {NodeOp("add", n) : n \in {n1, n2, n3}} \union
  {NodeOp("remove", n2), NodeOp("unrelate", n1),
   RelateOp(n1, {n2}, "all"), RelateOp(n1, {n2, n3}, "delegate"), RelateOp(n2, {n3}, "control"),
   RelateOp(n3, {n1}, "all"),
   [kind |-> "default", targets |-> {n2}, fallback |-> n2],
   [kind |-> "rule", rule |-> RuleTo], [kind |-> "unrule", rule |-> RuleTo]}

CommandSymmetry == Permutations(Command)

(* The depth-first search finds a cycle exactly where there is one, in     *)
(* every configuration a command wants to save and in every order in which *)
(* the file may list its relations.                                        *)
CycleCheckExact ==
  \A p \in Command :
    \A relations \in SetToSeqs(command[p].new.relations) :
      HasCircularDependency(relations) <=> ~ Acyclic(command[p].new.relations)

(* In every configuration that was saved, a permission to control or to    *)
(* delegate is one that the relations grant, in every order of the         *)
(* relations; and where nodes have one parent at most, what the relations  *)
(* grant is permitted.                                                     *)
PermissionsGranted ==
  file.state = "ok" =>
    LET granted == file.config.relations IN
    \A relations \in SetToSeqs(granted), s, t \in Node, action \in Action \ {"message"} :
      LET allowed == CheckPermission(relations, file.config.nodes, s, t, action) IN
      /\ allowed => Granted(granted, s, t, action)
      /\ Forest(granted) /\ Granted(granted, s, t, action) => allowed
=============================================================================
