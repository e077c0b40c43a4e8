---------------------------- MODULE HubTopology ----------------------------
(***************************************************************************)
(* The TopologyManager of the hub: the tree it builds from a configuration *)
(* and the queries on it.  It has no state beyond what the constructor     *)
(* builds.  The order of children only sets the order of an answer: sets   *)
(* stand for the lists, with what a list repeats.                          *)
(***************************************************************************)
EXTENDS Naturals, FiniteSets, SequencesExt

CONSTANTS Id, NoId

ASSUME TopologyAssumption == IsFiniteSet(Id) /\ Id # {} /\ NoId \notin Id

(* The nodes and the topology of a configuration: children is the set of   *)
(* pairs of a parent and a child in its list, twice are those of them that *)
(* the list repeats.  It may name nodes that do not exist.                 *)
TopologyConfig ==
  {c \in [type : {"flat", "tree"}, nodes : SUBSET Id, root : Id \union {NoId},
          children : SUBSET (Id \X Id), twice : SUBSET (Id \X Id)] :
     c.twice \subseteq c.children}

ChildrenOf(c, id) == {k \in Id : <<id, k>> \in c.children}

ParentOf(c, id) ==
  IF \E p \in Id : <<p, id>> \in c.children
  THEN CHOOSE p \in Id : <<p, id>> \in c.children ELSE NoId

(* calculateDepth follows the parents until there is none.  In a circle    *)
(* there always is one: the depth of a node that leads into a circle is    *)
(* the number of all names here, and an overflow of the stack in the code. *)
calculateDepth(c) ==
  LET depth[n \in 0..Cardinality(Id)] ==
        [id \in Id |-> IF n = 0 \/ ParentOf(c, id) = NoId THEN 0
                      ELSE depth[n - 1][ParentOf(c, id)] + 1]
  IN  depth[Cardinality(Id)]

(* Mutant of Accepts: several parents are not noticed. *)
AcceptsAnyParents(c) ==
  c.type = "tree" =>
    /\ \A id \in c.nodes : calculateDepth(c)[id] < Cardinality(Id)
    /\ c.root \in c.nodes

(* buildTopology and validateTree throw no error.  A child that is listed  *)
(* again has a parent already, be it the same one.  The search for cycles  *)
(* of validateTree finds none that calculateDepth has not met before it.   *)
Accepts(c) ==
  c.type = "tree" =>
    /\ c.twice = {}
    /\ \A p, q, id \in Id : <<p, id>> \in c.children /\ <<q, id>> \in c.children => p = q
    /\ \A id \in c.nodes : calculateDepth(c)[id] < Cardinality(Id)
    /\ c.root \in c.nodes

(* buildTopology: the map from the nodes of the configuration to theirs.   *)
buildTopology(c) ==
  [id \in c.nodes |->
     IF c.type = "flat"
     THEN [parent |-> NoId, children |-> {}, depth |-> 0, isRoot |-> TRUE, isLeaf |-> TRUE]
     ELSE [parent   |-> ParentOf(c, id),
           children |-> ChildrenOf(c, id),
           depth    |-> calculateDepth(c)[id],
           isRoot   |-> id = c.root,
           isLeaf   |-> ChildrenOf(c, id) = {}]]

-----------------------------------------------------------------------------
(* The queries, on the map m.                                              *)
getParent(m, id) == IF id \in DOMAIN m THEN m[id].parent ELSE NoId

getChildren(m, id) == IF id \in DOMAIN m THEN m[id].children ELSE {}

(* The chain of parents, as far as they are nodes themselves.              *)
getAncestors(m, id) ==
  LET above[n \in 0..Cardinality(Id)] ==
        [k \in Id |-> IF n = 0 \/ getParent(m, k) = NoId THEN <<>>
                     ELSE <<getParent(m, k)>> \o above[n - 1][getParent(m, k)]]
  IN  above[Cardinality(Id)][id]

(* What the queue of getDescendants has held when it is empty.             *)
getDescendants(m, id) ==
  LET held[n \in 0..Cardinality(Id)] ==
        IF n = 0 THEN getChildren(m, id)
        ELSE held[n - 1] \union UNION {getChildren(m, k) : k \in held[n - 1]}
  IN  held[Cardinality(Id)]

isAncestor(m, a, b) == a \in ToSet(getAncestors(m, b))

isDescendant(m, a, b) == a \in getDescendants(m, b)

(* A node that the map lacks, and one without a parent, have none but in a *)
(* flat topology.                                                          *)
getSiblings(c, m, id) ==
  IF c.type = "flat" /\ id \in DOMAIN m
  THEN DOMAIN m \ {id}
  ELSE getChildren(m, getParent(m, id)) \ {id}

getLeafNodes(m) == {id \in DOMAIN m : m[id].isLeaf}

getNodesAtDepth(m, d) == {id \in DOMAIN m : m[id].depth = d}

(* The first in the chain of b that is a or above a.                       *)
findCommonAncestor(c, m, a, b) ==
  LET chain     == <<b>> \o getAncestors(m, b)
      shared(k) == k = a \/ isAncestor(m, k, a)
  IN  IF c.type = "flat" \/ SelectInSeq(chain, shared) = 0 THEN NoId
      ELSE chain[SelectInSeq(chain, shared)]

-----------------------------------------------------------------------------
(* The reference: the transitive closure of the pairs.                     *)
Above(c) ==
  LET closure[n \in 0..Cardinality(Id)] ==
        IF n = 0 THEN c.children
        ELSE closure[n - 1] \union
             {r \in Id \X Id : \E q \in Id : /\ <<r[1], q>> \in closure[n - 1]
                                           /\ <<q, r[2]>> \in c.children}
  IN  closure[Cardinality(Id)]

(* The hub accepts a tree exactly if its root exists, no name is listed    *)
(* twice as a child, under one parent or two, and no node is below a       *)
(* circle, though the check that is meant for circles comes too late.      *)
AcceptsForests(c) ==
  Accepts(c) <=>
    \/ c.type = "flat"
    \/ /\ c.root \in c.nodes
       /\ \A id \in Id : Cardinality({p \in Id : <<p, id>> \in c.children}) <= 1
       /\ c.twice = {}
       /\ ~ \E id \in c.nodes, p \in Id :
              <<p, p>> \in Above(c) /\ (p = id \/ <<p, id>> \in Above(c))

(* On what it accepts, when the tree names existing nodes only, the queries *)
(* that walk up, those that walk down and the stored depths tell of the    *)
(* same tree, and the common ancestor is the lowest there is.              *)
QueriesAgree(c) ==
  LET m == buildTopology(c)
      AtOrAbove(a, b) == a = b \/ <<a, b>> \in Above(c)
  IN  Accepts(c) /\ c.type = "tree" /\ c.children \subseteq c.nodes \X c.nodes =>
        /\ \A id \in c.nodes : m[id].depth = Cardinality({a \in Id : <<a, id>> \in Above(c)})
        /\ \A id \in getLeafNodes(m) : getDescendants(m, id) = {}
        /\ \A a, b \in c.nodes :
             /\ isAncestor(m, a, b) <=> <<a, b>> \in Above(c)
             /\ isDescendant(m, b, a) <=> <<a, b>> \in Above(c)
             /\ a \in getSiblings(c, m, b) <=> b \in getSiblings(c, m, a)
             /\ a \in getSiblings(c, m, b) =>
                  \E d \in 1..Cardinality(Id) : {a, b} \subseteq getNodesAtDepth(m, d)
             /\ LET k == findCommonAncestor(c, m, a, b)
                    common == {x \in c.nodes : AtOrAbove(x, a) /\ AtOrAbove(x, b)}
                IN  IF common = {} THEN k = NoId
                    ELSE k \in common /\ \A x \in common : AtOrAbove(x, k)
=============================================================================
