------------------------------- MODULE Config -------------------------------
(***************************************************************************)
(* The configuration, its validation and the changes commands make to it.  *)
(* Of the configuration it keeps what refers to nodes; validation of       *)
(* names, ports, URLs and strategies looks at one value and is left out.   *)
(***************************************************************************)
EXTENDS FiniteSets

CONSTANTS
  Node,       \* node ids
  Mode,       \* relation modes
  None,       \* an absent node
  Operation   \* the changes that commands make

ASSUME ConfigAssumption == None \notin Node /\ IsFiniteSet(Node)

(* At most one relation per parent, as "topology set" writes them.         *)
NodeRelation == [parent : Node, children : SUBSET Node, mode : Mode]
RoutingRule     == [target : Node \union {None}, targets : SUBSET Node]

ClawverseConfig ==
  {c \in [nodes : SUBSET Node, disabled : SUBSET Node, relations : SUBSET NodeRelation,
          targets : SUBSET Node, fallback : Node \union {None}, rules : SUBSET RoutingRule] :
     /\ c.disabled \subseteq c.nodes
     /\ \A r, s \in c.relations : r.parent = s.parent => r = s}

(* The configuration when there is no file.                                *)
DEFAULT_CONFIG ==
  [nodes |-> {}, disabled |-> {}, relations |-> {}, targets |-> {},
   fallback |-> None, rules |-> {}]

Enabled(c) == c.nodes \ c.disabled

(* Operators whose comment begins with "Mutant" are faults that the checks  *)
(* of the properties are tried on; no specification uses them.             *)

-----------------------------------------------------------------------------
(* Validation.                                                             *)

(* No set of nodes in which each has a child in the set: the reference for *)
(* hasCircularDependency, which module Topology compares it with.          *)
Acyclic(relations) ==
  ~ \E S \in SUBSET Node :
      /\ S # {}
      /\ \A n \in S : \E r \in relations : r.parent = n /\ r.children \intersect S # {}

ValidRelation(r, ids) ==
  /\ r.parent \in ids
  /\ r.children # {}
  /\ r.children \subseteq ids \ {r.parent}

ValidRule(rule, ids) ==
  /\ rule.target # None \/ rule.targets # {}
  /\ rule.target \in ids \union {None}
  /\ rule.targets \subseteq ids

ValidRouting(c) ==
  /\ c.targets \subseteq c.nodes
  /\ c.fallback \in c.nodes \union {None}
  /\ \A rule \in c.rules : ValidRule(rule, c.nodes)

validateConfig(c) ==
  /\ \A r \in c.relations : ValidRelation(r, c.nodes)
  /\ Acyclic(c.relations)
  /\ ValidRouting(c)

-----------------------------------------------------------------------------
(* The changes.  Accepts is what a command checks on the configuration it  *)
(* has loaded, Apply the configuration it then wants to save.              *)

AddNode(c, n) ==
  [nodes |-> c.nodes \union {n}, disabled |-> c.disabled, relations |-> c.relations,
   targets |-> c.targets, fallback |-> c.fallback, rules |-> c.rules]

(* removeNode also takes the node out of relations and routing, and drops  *)
(* those that are left without children or targets.                        *)
RelationsWithout(relations, n) ==
  {r \in {[parent |-> s.parent, children |-> s.children \ {n}, mode |-> s.mode] : s \in relations} :
     r.parent # n /\ r.children # {}}

RulesWithout(rules, n) ==
  {r \in {[target |-> IF s.target = n THEN None ELSE s.target,
           targets |-> s.targets \ {n}] : s \in rules} :
     r.target # None \/ r.targets # {}}

(* Mutant of RemoveNode: the fallback is forgotten. *)
RemoveNodeKeepFallback(c, n) ==
  [nodes |-> c.nodes \ {n}, disabled |-> c.disabled \ {n},
   relations |-> RelationsWithout(c.relations, n), targets |-> c.targets \ {n},
   fallback |-> c.fallback, rules |-> RulesWithout(c.rules, n)]

RemoveNode(c, n) ==
  [nodes |-> c.nodes \ {n}, disabled |-> c.disabled \ {n},
   relations |-> RelationsWithout(c.relations, n), targets |-> c.targets \ {n},
   fallback |-> IF c.fallback = n THEN None ELSE c.fallback, rules |-> RulesWithout(c.rules, n)]

SetDisabled(c, disabled) ==
  [nodes |-> c.nodes, disabled |-> disabled, relations |-> c.relations,
   targets |-> c.targets, fallback |-> c.fallback, rules |-> c.rules]

SetRelations(c, relations) ==
  [nodes |-> c.nodes, disabled |-> c.disabled, relations |-> relations,
   targets |-> c.targets, fallback |-> c.fallback, rules |-> c.rules]

SetRouting(c, targets, fallback, rules) ==
  [nodes |-> c.nodes, disabled |-> c.disabled, relations |-> c.relations,
   targets |-> targets, fallback |-> fallback, rules |-> rules]

NodeOperation    == [kind : {"add", "remove", "enable", "disable", "unrelate"}, node : Node]
RelateOperation  == [kind : {"relate"}, relation : NodeRelation]
DefaultOperation == [kind : {"default"}, targets : SUBSET Node, fallback : Node \union {None}]
RuleOperation    == [kind : {"rule", "unrule"}, rule : RoutingRule]

ASSUME OperationAssumption ==
  Operation \subseteq NodeOperation \union RelateOperation \union DefaultOperation
                        \union RuleOperation

Accepts(op, c) ==
  CASE op.kind = "add"      -> op.node \notin c.nodes
    [] op.kind = "unrelate" -> \E r \in c.relations : r.parent = op.node
    [] op.kind = "relate"   -> op.relation.parent \in c.nodes
                                 /\ op.relation.children \subseteq c.nodes
    [] op.kind = "default"  -> op.targets \subseteq c.nodes
                                 /\ op.fallback \in c.nodes \union {None}
    [] op.kind = "rule"     -> TRUE
    [] op.kind = "unrule"   -> op.rule \in c.rules
    [] OTHER                -> op.node \in c.nodes

Unrelated(c, parent) == {r \in c.relations : r.parent # parent}

Apply(op, c) ==
  CASE op.kind = "add"      -> AddNode(c, op.node)
    [] op.kind = "remove"   -> RemoveNode(c, op.node)
    [] op.kind = "enable"   -> SetDisabled(c, c.disabled \ {op.node})
    [] op.kind = "disable"  -> SetDisabled(c, c.disabled \union {op.node})
    [] op.kind = "unrelate" -> SetRelations(c, Unrelated(c, op.node))
    [] op.kind = "relate"   ->
         SetRelations(c, Unrelated(c, op.relation.parent) \union {op.relation})
    [] op.kind = "default"  -> SetRouting(c, op.targets, op.fallback, c.rules)
    [] op.kind = "rule"     -> SetRouting(c, c.targets, c.fallback, c.rules \union {op.rule})
    [] op.kind = "unrule"   -> SetRouting(c, c.targets, c.fallback, c.rules \ {op.rule})
=============================================================================
