---------------------------- MODULE ImportGraph ----------------------------
(***************************************************************************)
(* The order in which the nodes of a canvas are computed: import edges,    *)
(* topological_sort, ancestors_sorted and descendants_sorted               *)
(* (src/src/types.rs).                                                     *)
(*                                                                         *)
(* The graph does not change while it is sorted.  Where the code goes      *)
(* through a hash map the order is any.                                    *)
(***************************************************************************)
EXTENDS Naturals, Sequences, FiniteSets, SequencesExt

CONSTANTS
  Places,      \* node numbers
  Labels,      \* import labels
  Labellings,  \* how the nodes may be labelled
  MaxImports,  \* bound: imports of a node
  Goals        \* the nodes that ancestors or descendants are looked for

ASSUME ImportGraphAssumption ==
  /\ Places \subseteq Nat
  /\ IsFiniteSet(Places)
  /\ Labellings \subseteq [Places -> Labels]
  /\ MaxImports \in Nat
  /\ Goals \subseteq Places

VARIABLES
  label,      \* label of each node
  imports,    \* labels that each node imports, in order
  found,      \* the node that find_node_by_import_label gives for a label, or 0
  inDegree, ready, order,   \* of topological_sort
  goal, needed, stack       \* of ancestors_sorted or descendants_sorted

graphVars == <<label, imports, found, inDegree, ready, order, goal, needed, stack>>

\* Import edges from s to t; a node that imports a label twice has two.
EdgeCount(s, t) == Cardinality({k \in DOMAIN imports[t] : found[imports[t][k]] = s})
Edge(s, t) == EdgeCount(s, t) > 0

\* Mutant: imports that no node answers count as edges.
AllImports(t) == DOMAIN imports[t]
\* The edges that come into a node.
Incoming(t) == {k \in DOMAIN imports[t] : found[imports[t][k]] # 0}

DegreeOf(t) == Cardinality(Incoming(t))

\* Several nodes may have one label: the first that the map gives is found.
GraphInit ==
  /\ label \in Labellings
  /\ imports \in [Places -> UNION {[1 .. n -> Labels] : n \in 0 .. MaxImports}]
  /\ found \in [Labels -> Places \cup {0}]
  /\ \A l \in Labels : IF \E p \in Places : label[p] = l
                       THEN found[l] # 0 /\ label[found[l]] = l
                       ELSE found[l] = 0
  /\ inDegree = [p \in Places |-> DegreeOf(p)]
  /\ ready = SetToSortSeq({p \in Places : inDegree[p] = 0}, LAMBDA p, q : p < q)
  /\ order = << >>
  /\ goal \in Goals \X {"up", "down"}
  /\ needed = {}
  /\ stack = <<goal[1]>>

\* topological_sort takes the last node of the queue; those that lose their last
\* edge are pushed in the order of the adjacency list.
TakeReady ==
  /\ ready # << >>
  /\ LET p == Last(ready)
         degree == [q \in Places |-> inDegree[q] - EdgeCount(p, q)]
         freed == {q \in Places : EdgeCount(p, q) > 0 /\ degree[q] = 0}
     IN
     /\ order' = Append(order, p)
     /\ inDegree' = degree
     /\ \E pushed \in SetToSeqs(freed) : ready' = Front(ready) \o pushed
  /\ UNCHANGED <<label, imports, found, goal, needed, stack>>

Sorted == ready = << >>

\* Ok(order), or Err(cycle_nodes).
Cyclic == Len(order) < Cardinality(Places)

\* The nodes pushed by the walk from p.  The walk down marks what it pushes, the
\* walk up what it takes.
Above(p) == {q \in Places : Edge(q, p)}
Below(p) == {q \in Places : Edge(p, q)} \ needed

Walk ==
  /\ stack # << >>
  /\ LET p == Last(stack)
         next == IF goal[2] = "down" THEN Below(p) ELSE IF p \in needed THEN {} ELSE Above(p)
     IN
     /\ needed' = IF goal[2] = "down" THEN needed \cup next ELSE needed \cup {p}
     /\ \E pushed \in SetToSeqs(next) : stack' = Front(stack) \o pushed
  /\ UNCHANGED <<label, imports, found, inDegree, ready, order, goal>>

\* The walk is over; the source itself is not a descendant.
Needed == IF goal[2] = "down" THEN needed \ {goal[1]} ELSE needed

\* What is computed: sorted if the whole graph is free of cycles, else in any order.
Walked == stack = << >> /\ Sorted
Plans == IF Cyclic THEN SetToSeqs(Needed)
         ELSE {SelectSeq(order, LAMBDA p : p \in Needed)}

\* First the walk, then the sort.
GraphNext == Walk \/ (stack = << >> /\ TakeReady)

GraphSpec == GraphInit /\ [][GraphNext]_graphVars

-----------------------------------------------------------------------------
(***************************************************************************)
(* Properties                                                              *)
(***************************************************************************)

\* Type invariant; the degrees count the edges that are still to come.
GraphTypeOK ==
  /\ \A p \in Places : inDegree[p] =
       Cardinality({k \in Incoming(p) : found[imports[p][k]] \notin {order[i] : i \in DOMAIN order}})
  /\ {ready[i] : i \in DOMAIN ready} \cap {order[i] : i \in DOMAIN order} = {}
  /\ needed \subseteq Places
  /\ \A i \in DOMAIN stack : stack[i] \in Places

\* Reaches(s, t): by one import or more, over any of the nodes.
Reaches(s, t) ==
  \E n \in 1 .. Cardinality(Places) :
    \E path \in [0 .. n -> Places] :
      /\ path[0] = s /\ path[n] = t
      /\ \A i \in 1 .. n : Edge(path[i - 1], path[i])

\* The sort gives every node that no cycle leads to, each once and behind all its
\* imports; the others, those behind a cycle as well as those on it, are what it
\* reports as cycle (types.rs: "cycle_nodes").
SortGivesImportsFirst ==
  /\ \A i, j \in DOMAIN order :
       /\ i # j => order[i] # order[j]
       /\ Edge(order[i], order[j]) => i < j
  /\ Walked =>
       \A p \in Places :
         p \in {order[i] : i \in DOMAIN order} <=>
           ~\E c \in Places : Reaches(c, c) /\ (c = p \/ Reaches(c, p))

\* A plan holds exactly the nodes the goal needs, or those that need it, each once;
\* in a canvas without import cycles all imports of a node that are in the plan come
\* before it ("Find all ancestor nodes (transitive upstream) of the given node").
PlanIsComplete ==
  Walked =>
    \A plan \in Plans :
      /\ IsInjective(plan)
      /\ {plan[i] : i \in DOMAIN plan} =
           IF goal[2] = "up" THEN {p \in Places : p = goal[1] \/ Reaches(p, goal[1])}
                             ELSE {p \in Places : p # goal[1] /\ Reaches(goal[1], p)}
      /\ ~Cyclic => \A i, j \in DOMAIN plan : Edge(plan[i], plan[j]) => i < j

\* Orders of computation are complete, and imports come first.
OrdersAreRight == GraphTypeOK /\ SortGivesImportsFirst /\ PlanIsComplete
=============================================================================
