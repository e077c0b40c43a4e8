------------------------------ MODULE Topology ------------------------------
(***************************************************************************)
(* TopologyManager, and the cycle check of the configuration, as functions *)
(* of the relations.  Relations come in the order of the file, which       *)
(* decides what getParent finds for a node with several parents.           *)
(***************************************************************************)
EXTENDS Config, Naturals, SequencesExt

ASSUME ModeAssumption == None \notin Mode

Action == {"control", "delegate", "message"}

GetParent(relations, n) ==
  LET i == SelectInSeq(relations, LAMBDA r : n \in r.children)
  IN  IF i = 0 THEN None ELSE relations[i].parent

GetChildren(relations, n) ==
  LET i == SelectInSeq(relations, LAMBDA r : r.parent = n)
  IN  IF i = 0 THEN {} ELSE relations[i].children

(* Both follow the relations until there is none.  No path is longer than  *)
(* there are nodes, where there is no circle.                              *)
GetDescendants(relations, n) ==
  LET below[length \in 0..Cardinality(Node)] ==
        [k \in Node |->
           IF length = 0 THEN {}
           ELSE LET children == GetChildren(relations, k)
                IN  children \union UNION {below[length - 1][child] : child \in children}]
  IN  below[Cardinality(Node)][n]

GetAncestors(relations, n) ==
  LET above[length \in 0..Cardinality(Node)] ==
        [k \in Node |->
           LET parent == GetParent(relations, k)
           IN  IF length = 0 \/ parent = None THEN {}
               ELSE {parent} \union above[length - 1][parent]]
  IN  above[Cardinality(Node)][n]

(* None where the source answers null.                                     *)
GetRelationMode(relations, parent, child) ==
  LET i == SelectInSeq(relations, LAMBDA r : r.parent = parent /\ child \in r.children)
  IN  IF i = 0 THEN None ELSE relations[i].mode

Covers(mode, action) == mode \in {"all", action}

(* The children of a relation share its mode, so that any of those on a    *)
(* path will do.                                                           *)
FindDirectChildInPath(relations, ancestor, descendant) ==
  CHOOSE child \in GetChildren(relations, ancestor) \union {None} :
    IF \E c \in GetChildren(relations, ancestor) :
         descendant \in {c} \union GetDescendants(relations, c)
    THEN child # None /\ descendant \in {child} \union GetDescendants(relations, child)
    ELSE child = None

(* Mutant of CheckPermission: the mode of the last relation on the path. *)
CheckLastRelation(relations, ids, source, target, action) ==
  LET mode == GetRelationMode(relations, source, target)
      last == GetRelationMode(relations, GetParent(relations, target), target)
  IN  CASE source = target -> TRUE
        [] source # target /\ mode # None -> Covers(mode, action)
        [] source # target /\ mode = None ->
             \/ source \in GetAncestors(relations, target) /\ Covers(last, action)
             \/ {source, target} \subseteq ids /\ action = "message"

CheckPermission(relations, ids, source, target, action) ==
  LET mode  == GetRelationMode(relations, source, target)
      child == FindDirectChildInPath(relations, source, target)
  IN  CASE source = target -> TRUE
        [] source # target /\ mode # None -> Covers(mode, action)
        [] source # target /\ mode = None ->
             \/ /\ source \in GetAncestors(relations, target)
                /\ child # None
                /\ Covers(GetRelationMode(relations, source, child), action)
             \/ {source, target} \subseteq ids /\ action = "message"

(* The graph of hasCircularDependency: the children in all relations of n. *)
Graph(relations, n) ==
  UNION {r.children : r \in {s \in Range(relations) : s.parent = n}}

(* Mutant of VisitChildren: a node that was visited before counts as one on *)
(* the path.                                                               *)
VisitAnyVisited(children, at, dfs) ==
  LET found[i \in 0..Len(children)] ==
        IF i = 0 THEN [visited |-> at.visited \union {at.node}, cycle |-> FALSE]
        ELSE LET last == found[i - 1] IN
             IF last.cycle THEN last
             ELSE IF children[i] \notin last.visited
             THEN dfs[[node |-> children[i], visited |-> last.visited,
                       stack |-> at.stack \union {at.node}]]
             ELSE [last EXCEPT !.cycle = TRUE]
  IN  found[Len(children)]

(* The loop of dfs over the children of a node, given what dfs itself finds *)
(* at each: what has been visited then, and whether a cycle was met.       *)
VisitChildren(children, at, dfs) ==
  LET found[i \in 0..Len(children)] ==
        IF i = 0 THEN [visited |-> at.visited \union {at.node}, cycle |-> FALSE]
        ELSE LET last == found[i - 1] IN
             IF last.cycle THEN last
             ELSE IF children[i] \notin last.visited
             THEN dfs[[node |-> children[i], visited |-> last.visited,
                       stack |-> at.stack \union {at.node}]]
             ELSE [last EXCEPT !.cycle = children[i] \in at.stack \union {at.node}]
  IN  found[Len(children)]

(* A call of dfs: the node, what was visited and which nodes are on the    *)
(* path to it.  It calls itself with one node more on the path each time.  *)
DfsCall == [node : Node, visited : SUBSET Node, stack : SUBSET Node]

Dfs(relations) ==
  LET dfs[calls \in 0..Cardinality(Node)] ==
        [at \in DfsCall |->
           IF calls = 0 THEN [visited |-> at.visited, cycle |-> FALSE]
           ELSE VisitChildren(SetToSeq(Graph(relations, at.node)), at, dfs[calls - 1])]
  IN  dfs[Cardinality(Node)]

HasCircularDependency(relations) ==
  LET found[i \in 0..Len(relations)] ==
        IF i = 0 THEN [visited |-> {}, cycle |-> FALSE]
        ELSE LET last == found[i - 1] IN
             IF last.cycle \/ relations[i].parent \in last.visited THEN last
             ELSE Dfs(relations)[[node |-> relations[i].parent, visited |-> last.visited,
                                  stack |-> {}]]
  IN  found[Len(relations)].cycle

-----------------------------------------------------------------------------
(* The references these functions are compared with.                       *)

(* The nodes below m are the least set that has its children and theirs.   *)
Below(relations, m) ==
  LET Children(k) == UNION {r.children : r \in {s \in relations : s.parent = k}}
  IN  {n \in Node : \A S \in SUBSET Node :
                      Children(m) \subseteq S /\ (\A k \in S : Children(k) \subseteq S) => n \in S}

(* A node acts on itself, and on those it reaches through a relation of    *)
(* its own that covers the action.                                         *)
Granted(relations, source, target, action) ==
  \/ source = target
  \/ \E r \in relations :
       /\ r.parent = source
       /\ Covers(r.mode, action)
       /\ target \in Below(relations, source)

Forest(relations) ==
  \A r, s \in relations : r.children \intersect s.children # {} => r = s
=============================================================================
