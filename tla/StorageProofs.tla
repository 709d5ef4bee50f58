-------------------------- MODULE StorageProofs ---------------------------
(***************************************************************************)
(* Proofs about Canvases, for every set of names, any number of nodes and  *)
(* every use, and about Store, for any number of threads, keys, nodes,     *)
(* writes, saves, imports and crashes.                                     *)
(***************************************************************************)
EXTENDS Canvases, Store, FiniteSetTheorems, SequenceTheorems, WellFoundedInduction, TLAPS

-----------------------------------------------------------------------------
(***************************************************************************)
(* Largest numbers                                                         *)
(***************************************************************************)

\* A set of numbers that is not empty has a smallest member.
LEMMA MinExists ==
  ASSUME NEW S \in SUBSET Nat, S # {}
  PROVE  \E n \in S : \A k \in S : n <= k
<1>1. IsWellFoundedOn(OpToRel(<, Nat), Nat)
  BY NatLessThanWellFounded
<1>2. PICK n \in S : \A k \in S : ~ (<<k, n>> \in OpToRel(<, Nat))
  BY <1>1, WFMin
<1>3. ASSUME NEW k \in S PROVE n <= k
  <2>1. ~ (k < n)
    BY <1>2 DEF OpToRel
  <2>2. QED
    BY <2>1
<1>4. QED
  BY <1>3

\* A set of numbers below a bound has a largest member, which MaxOf returns.
LEMMA MaxOfBounded ==
  ASSUME NEW S \in SUBSET Nat, NEW B \in Nat, \A n \in S : n <= B
  PROVE  /\ MaxOf(S) \in Nat
         /\ MaxOf(S) <= B
         /\ \A k \in S : k <= MaxOf(S)
<1>1. CASE S = {}
  BY <1>1 DEF MaxOf
<1>2. CASE S # {}
  <2>. DEFINE T == {B - n : n \in S}
  <2>1. T \in SUBSET Nat /\ T # {}
    <3>1. \A n \in S : B - n \in Nat
      OBVIOUS
    <3>2. QED
      BY <1>2, <3>1
  <2>2. PICK t \in T : \A k \in T : t <= k
    BY <2>1, MinExists
  <2>3. PICK n \in S : t = B - n
    OBVIOUS
  <2>4. ASSUME NEW k \in S PROVE k <= n
    <3>1. B - k \in T
      OBVIOUS
    <3>2. B - n <= B - k
      BY <2>2, <2>3, <3>1
    <3>3. QED
      BY <3>2
  <2>5. MaxOf(S) \in S /\ \A k \in S : k <= MaxOf(S)
    <3>1. \E x \in S : \A k \in S : k <= x
      BY <2>4
    <3>2. QED
      BY <1>2, <3>1 DEF MaxOf
  <2>6. QED
    BY <2>5
<1>3. QED
  BY <1>1, <1>2

-----------------------------------------------------------------------------
(***************************************************************************)
(* Graphs                                                                  *)
(***************************************************************************)

Numbers == Nat \ {0}

\* Graphs whose nodes have numbers, and those whose next number is free.
Graph == [nodes : UNION {[S -> Node] : S \in SUBSET Numbers}, next : Numbers]
FreshGraph == {g \in Graph : Fresh(g)}

\* A graph is made of its nodes and its next number.
LEMMA GraphFields ==
  ASSUME NEW g \in Graph
  PROVE  /\ g = [nodes |-> g.nodes, next |-> g.next]
         /\ Ids(g) \in SUBSET Numbers
         /\ g.nodes \in [Ids(g) -> Node]
         /\ g.next \in Numbers
         /\ GraphOK(g)
<1>1. g = [nodes |-> g.nodes, next |-> g.next] /\ g.next \in Numbers
  BY DEF Graph
<1>2. PICK S \in SUBSET Numbers : g.nodes \in [S -> Node]
  BY DEF Graph
<1>3. Ids(g) = S
  BY <1>2 DEF Ids
<1>4. QED
  BY <1>1, <1>2, <1>3 DEF GraphOK, Numbers

LEMMA GraphMade ==
  ASSUME NEW S \in SUBSET Numbers, NEW f \in [S -> Node], NEW n \in Numbers
  PROVE  /\ [nodes |-> f, next |-> n] \in Graph
         /\ Ids([nodes |-> f, next |-> n]) = S
<1>1. f \in UNION {[T -> Node] : T \in SUBSET Numbers}
  OBVIOUS
<1>2. QED
  BY <1>1 DEF Graph, Ids

\* A new node takes a number no node of the graph has, and moves next on.
LEMMA WithIsFresh ==
  ASSUME NEW g \in FreshGraph, NEW node \in Node
  PROVE  /\ With(g, node) \in FreshGraph
         /\ With(g, node).next = g.next + 1
         /\ g.next \notin Ids(g)
         /\ Ids(With(g, node)) = Ids(g) \cup {g.next}
         /\ With(g, node).nodes[g.next] = node
         /\ \A id \in Ids(g) : With(g, node).nodes[id] = g.nodes[id]
<1>1. /\ g \in Graph /\ Ids(g) \in SUBSET Numbers /\ g.next \in Numbers
      /\ g.nodes \in [Ids(g) -> Node] /\ \A id \in Ids(g) : id < g.next
  BY GraphFields DEF FreshGraph, Fresh
<1>. DEFINE f == [id \in Ids(g) \cup {g.next} |-> IF id = g.next THEN node ELSE g.nodes[id]]
<1>2. f \in [Ids(g) \cup {g.next} -> Node] /\ Ids(g) \cup {g.next} \in SUBSET Numbers
  BY <1>1
<1>3. g.next + 1 \in Numbers
  BY <1>1 DEF Numbers
<1>4. With(g, node) = [nodes |-> f, next |-> g.next + 1]
  BY DEF With, NextId
<1>5. g.next \notin Ids(g)
  BY <1>1 DEF Numbers
<1>. HIDE DEF f
<1>6. With(g, node) \in Graph /\ Ids(With(g, node)) = Ids(g) \cup {g.next}
  BY <1>2, <1>3, <1>4, GraphMade
<1>7. With(g, node).next = g.next + 1 /\ With(g, node).nodes = f
  BY <1>4
<1>8. Fresh(With(g, node))
  BY <1>1, <1>6, <1>7 DEF Fresh, Numbers
<1>. USE DEF f
<1>9. f[g.next] = node /\ \A id \in Ids(g) : f[id] = g.nodes[id]
  BY <1>5
<1>10. QED
  BY <1>5, <1>6, <1>7, <1>8, <1>9 DEF FreshGraph

\* Taking nodes out leaves the others and the next number.
LEMMA WithoutIsFresh ==
  ASSUME NEW g \in FreshGraph, NEW ids
  PROVE  /\ Without(g, ids) \in FreshGraph
         /\ Without(g, ids).next = g.next
         /\ Ids(Without(g, ids)) = Ids(g) \ ids
         /\ \A id \in Ids(g) \ ids : Without(g, ids).nodes[id] = g.nodes[id]
<1>1. /\ g \in Graph /\ Ids(g) \in SUBSET Numbers /\ g.next \in Numbers
      /\ g = [nodes |-> g.nodes, next |-> g.next]
      /\ g.nodes \in [Ids(g) -> Node] /\ \A id \in Ids(g) : id < g.next
  BY GraphFields DEF FreshGraph, Fresh
<1>. DEFINE f == [id \in Ids(g) \ ids |-> g.nodes[id]]
<1>2. f \in [Ids(g) \ ids -> Node] /\ Ids(g) \ ids \in SUBSET Numbers
  BY <1>1
<1>3. Without(g, ids) = [nodes |-> f, next |-> g.next]
  BY <1>1 DEF Without, Restrict
<1>. HIDE DEF f
<1>4. Without(g, ids) \in Graph /\ Ids(Without(g, ids)) = Ids(g) \ ids
  BY <1>1, <1>2, <1>3, GraphMade
<1>5. Without(g, ids).next = g.next /\ Without(g, ids).nodes = f
  BY <1>3
<1>6. Fresh(Without(g, ids))
  BY <1>1, <1>4, <1>5 DEF Fresh
<1>. USE DEF f
<1>7. QED
  BY <1>4, <1>5, <1>6 DEF FreshGraph

\* What is saved of a graph: its nodes that are not phantoms, showing nothing.
LEMMA SavedIsFresh ==
  ASSUME NEW g \in FreshGraph
  PROVE  /\ Saved(g) \in FreshGraph
         /\ Saved(g).next = g.next
         /\ Ids(Saved(g)) = Ids(g) \ Phantoms(g)
         /\ \A id \in Ids(Saved(g)) :
              Saved(g).nodes[id] = [g.nodes[id] EXCEPT !.shows = None]
<1>. DEFINE k == Without(g, Phantoms(g))
<1>1. /\ k \in FreshGraph /\ k.next = g.next /\ Ids(k) = Ids(g) \ Phantoms(g)
      /\ \A id \in Ids(k) : k.nodes[id] = g.nodes[id]
  BY WithoutIsFresh
<1>. DEFINE f == [id \in Ids(k) |-> [k.nodes[id] EXCEPT !.shows = None]]
<1>2. Saved(g) = [k EXCEPT !.nodes = f]
  BY DEF Saved
<1>. HIDE DEF k
<1>3. /\ k \in Graph /\ Ids(k) \in SUBSET Numbers /\ k.next \in Numbers
      /\ k = [nodes |-> k.nodes, next |-> k.next]
      /\ k.nodes \in [Ids(k) -> Node] /\ \A id \in Ids(k) : id < k.next
  BY <1>1, GraphFields DEF FreshGraph, Fresh
<1>4. f \in [Ids(k) -> Node]
  BY <1>3 DEF Node
<1>5. \A id \in Ids(k) : f[id] = [g.nodes[id] EXCEPT !.shows = None]
  BY <1>1
<1>. HIDE DEF f
<1>6. Saved(g) = [nodes |-> f, next |-> k.next]
  BY <1>2, <1>3
<1>7. Saved(g) \in Graph /\ Ids(Saved(g)) = Ids(k)
  BY <1>3, <1>4, <1>6, GraphMade
<1>8. Saved(g).next = k.next /\ Saved(g).nodes = f
  BY <1>6
<1>9. QED
  BY <1>1, <1>3, <1>5, <1>7, <1>8 DEF FreshGraph, Fresh

\* A state of the history has its nodes, none of them phantom any more.
LEMMA UnpackedIsFresh ==
  ASSUME NEW g \in FreshGraph
  PROVE  Unpacked(g) \in FreshGraph /\ Unpacked(g).next = g.next
<1>. DEFINE f == [id \in Ids(g) |-> [g.nodes[id] EXCEPT !.phantom = FALSE]]
<1>1. /\ g \in Graph /\ Ids(g) \in SUBSET Numbers /\ g.next \in Numbers
      /\ g = [nodes |-> g.nodes, next |-> g.next]
      /\ g.nodes \in [Ids(g) -> Node] /\ \A id \in Ids(g) : id < g.next
  BY GraphFields DEF FreshGraph, Fresh
<1>2. f \in [Ids(g) -> Node]
  BY <1>1 DEF Node
<1>3. Unpacked(g) = [g EXCEPT !.nodes = f]
  BY DEF Unpacked
<1>. HIDE DEF f
<1>4. Unpacked(g) = [nodes |-> f, next |-> g.next]
  BY <1>1, <1>3
<1>5. Unpacked(g) \in Graph /\ Ids(Unpacked(g)) = Ids(g) /\ Unpacked(g).next = g.next
  BY <1>1, <1>2, <1>4, GraphMade
<1>6. QED
  BY <1>1, <1>5 DEF FreshGraph, Fresh

\* Graphs without nodes, and the graph of an imported file.
LEMMA SmallGraphs ==
  ASSUME NEW n \in Numbers, NEW node \in Node
  PROVE  /\ NewGraph(n) \in FreshGraph /\ Ids(NewGraph(n)) = {} /\ NewGraph(n).next = n
         /\ [nodes |-> [k \in {n} |-> node], next |-> n + 1] \in FreshGraph
<1>1. NoNodes \in [{} -> Node] /\ {} \in SUBSET Numbers
  BY DEF NoNodes
<1>2. NewGraph(n) \in Graph /\ Ids(NewGraph(n)) = {} /\ NewGraph(n).next = n
  BY <1>1, GraphMade DEF NewGraph
<1>3. [k \in {n} |-> node] \in [{n} -> Node] /\ {n} \in SUBSET Numbers /\ n + 1 \in Numbers
  BY DEF Numbers
<1>. DEFINE g == [nodes |-> [k \in {n} |-> node], next |-> n + 1]
<1>4. g \in Graph /\ Ids(g) = {n}
  BY <1>3, GraphMade
<1>5. g.next = n + 1 /\ n < n + 1
  BY DEF Numbers
<1>. HIDE DEF g
<1>6. QED
  BY <1>2, <1>4, <1>5 DEF FreshGraph, Fresh, g

-----------------------------------------------------------------------------
(***************************************************************************)
(* Canvases                                                                *)
(***************************************************************************)

\* Finitely many graphs by name, all fresh, whose next numbers have a bound.
Sound(gs) ==
  /\ DOMAIN gs \in SUBSET Names /\ IsFiniteSet(DOMAIN gs)
  /\ gs \in [DOMAIN gs -> FreshGraph]
  /\ \E B \in Nat : \A c \in DOMAIN gs : gs[c].next <= B

\* Putting a graph under a name, new or in use.
LEMMA PutIsSound ==
  ASSUME NEW gs, Sound(gs), NEW c \in Names, NEW g \in FreshGraph,
         NEW to, to = [d \in DOMAIN gs \cup {c} |-> IF d = c THEN g ELSE gs[d]]
  PROVE  Sound(to)
<1>1. IsFiniteSet(DOMAIN gs \cup {c})
  BY FS_AddElement DEF Sound
<1>2. PICK B \in Nat : \A d \in DOMAIN gs : gs[d].next <= B
  BY DEF Sound
<1>3. g.next \in Nat /\ \A d \in DOMAIN gs : gs[d].next \in Nat
  BY GraphFields DEF Sound, FreshGraph, Numbers
<1>4. \A d \in DOMAIN to : to[d].next <= B + g.next
  BY <1>2, <1>3
<1>5. B + g.next \in Nat
  BY <1>2, <1>3
<1>6. DOMAIN to = DOMAIN gs \cup {c} /\ to \in [DOMAIN to -> FreshGraph]
  BY DEF Sound
<1>7. QED
  BY <1>1, <1>4, <1>5, <1>6 DEF Sound

LEMMA ReplaceIsSound ==
  ASSUME NEW gs, Sound(gs), NEW c \in DOMAIN gs, NEW g \in FreshGraph
  PROVE  Sound([gs EXCEPT ![c] = g])
<1>1. /\ gs = [d \in DOMAIN gs |-> gs[d]] /\ c \in Names /\ DOMAIN gs \cup {c} = DOMAIN gs
  BY DEF Sound
<1>2. [gs EXCEPT ![c] = g] = [d \in DOMAIN gs \cup {c} |-> IF d = c THEN g ELSE gs[d]]
  BY <1>1
<1>3. QED
  BY <1>1, <1>2, PutIsSound

LEMMA RestrictIsSound ==
  ASSUME NEW gs, Sound(gs), NEW S \in SUBSET DOMAIN gs
  PROVE  Sound(Restrict(gs, S))
<1>1. IsFiniteSet(S)
  BY FS_Subset DEF Sound
<1>2. QED
  BY <1>1 DEF Sound, Restrict

\* What save_graph writes.
LEMMA DbWithAllIsSound ==
  ASSUME Sound(db), Sound(graphs)
  PROVE  Sound(DbWithAll)
<1>1. IsFiniteSet(DOMAIN db \cup DOMAIN graphs)
  BY FS_Union DEF Sound
<1>2. PICK B \in Nat : \A d \in DOMAIN db : db[d].next <= B
  BY DEF Sound
<1>3. PICK C \in Nat : \A d \in DOMAIN graphs : graphs[d].next <= C
  BY DEF Sound
<1>4. \A d \in DOMAIN graphs : /\ Saved(graphs[d]) \in FreshGraph
                               /\ Saved(graphs[d]).next = graphs[d].next
                               /\ graphs[d].next \in Nat
  BY SavedIsFresh, GraphFields DEF Sound, FreshGraph, Numbers
<1>5. \A d \in DOMAIN db : db[d].next \in Nat /\ db[d] \in FreshGraph
  BY GraphFields DEF Sound, FreshGraph, Numbers
<1>6. /\ DOMAIN DbWithAll = DOMAIN db \cup DOMAIN graphs
      /\ \A c \in DOMAIN DbWithAll :
           DbWithAll[c] = IF c \in DOMAIN graphs THEN Saved(graphs[c]) ELSE db[c]
      /\ DbWithAll = [c \in DOMAIN DbWithAll |-> DbWithAll[c]]
  BY DEF DbWithAll
<1>7. \A c \in DOMAIN DbWithAll : DbWithAll[c] \in FreshGraph /\ DbWithAll[c].next <= B + C
  BY <1>2, <1>3, <1>4, <1>5, <1>6
<1>8. DbWithAll \in [DOMAIN DbWithAll -> FreshGraph]
  BY <1>6, <1>7
<1>9. B + C \in Nat
  BY <1>2, <1>3
<1>10. QED
  BY <1>1, <1>6, <1>7, <1>8, <1>9 DEF Sound

\* The largest number on any canvas.
LEMMA TopIsAbove ==
  ASSUME NEW gs, Sound(gs)
  PROVE  /\ MaxOf(IdsOf(gs)) \in Nat
         /\ \A c \in DOMAIN gs : \A id \in Ids(gs[c]) : id \in Numbers /\ id <= MaxOf(IdsOf(gs))
<1>1. PICK B \in Nat : \A d \in DOMAIN gs : gs[d].next <= B
  BY DEF Sound
<1>2. ASSUME NEW c \in DOMAIN gs, NEW id \in Ids(gs[c])
      PROVE  id \in Numbers /\ id <= B
  <2>1. gs[c] \in Graph /\ Fresh(gs[c])
    BY DEF Sound, FreshGraph
  <2>2. id \in Nat \ {0} /\ id < gs[c].next /\ gs[c].next \in Nat
    BY <2>1, GraphFields DEF Fresh, Numbers
  <2>3. QED
    BY <1>1, <2>2 DEF Numbers
<1>3. \A id \in IdsOf(gs) : id \in Nat /\ id <= B
  BY <1>2 DEF IdsOf, Numbers
<1>4. IdsOf(gs) \in SUBSET Nat
  BY <1>3
<1>5. /\ MaxOf(IdsOf(gs)) \in Nat
      /\ \A id \in IdsOf(gs) : id <= MaxOf(IdsOf(gs))
  BY <1>1, <1>3, <1>4, MaxOfBounded
<1>6. QED
  BY <1>2, <1>5 DEF IdsOf

-----------------------------------------------------------------------------
(***************************************************************************)
(* The start from the database                                             *)
(***************************************************************************)

\* The parts of Remapped: the numbers that earlier canvases took, the rank of a
\* clash, the number a node gets, and the numbers of a canvas.
TakenBefore(gs, o, i) == UNION {{j} \X Clashes(gs, o, j) : j \in 1 .. i - 1}
UpTo(gs, o, i, id) == {k \in Clashes(gs, o, i) : k <= id}
NewNumber(gs, o, i, id) ==
  IF id \in Clashes(gs, o, i)
  THEN Top(gs, o[i]) + Cardinality(TakenBefore(gs, o, i))
       + Cardinality(UpTo(gs, o, i, id))
  ELSE id
NewNumbers(gs, o, i) == {NewNumber(gs, o, i, id) : id \in Ids(gs[o[i]])}
OldNumber(gs, o, i, id) == CHOOSE old \in Ids(gs[o[i]]) : NewNumber(gs, o, i, old) = id
PlaceIn(o, c) == CHOOSE i \in DOMAIN o : o[i] = c

LEMMA RemappedParts ==
  ASSUME NEW gs, NEW o
  PROVE  /\ DOMAIN Remapped(gs, o) = DOMAIN gs
         /\ Remapped(gs, o) = [c \in DOMAIN gs |-> Remapped(gs, o)[c]]
         /\ \A c \in DOMAIN gs :
              Remapped(gs, o)[c] =
                [nodes |-> [id \in NewNumbers(gs, o, PlaceIn(o, c)) |->
                              gs[o[PlaceIn(o, c)]].nodes[OldNumber(gs, o, PlaceIn(o, c), id)]],
                 next |-> MaxOf(NewNumbers(gs, o, PlaceIn(o, c))) + 1]
BY DEF Remapped, TakenBefore, UpTo, NewNumber, NewNumbers, OldNumber, PlaceIn

\* An order of the canvases has each of them, at one place.
LEMMA OrderHasAll ==
  ASSUME NEW S, IsFiniteSet(S), NEW o \in Orders(S)
  PROVE  /\ Cardinality(S) \in Nat
         /\ DOMAIN o = 1 .. Cardinality(S)
         /\ \A i \in DOMAIN o : o[i] \in S
         /\ \A c \in S : PlaceIn(o, c) \in DOMAIN o /\ o[PlaceIn(o, c)] = c
         /\ \A i, j \in DOMAIN o : o[i] = o[j] => i = j
         /\ S # {} => 1 \in DOMAIN o
<1>1. Cardinality(S) \in Nat
  BY FS_CardinalityType
<1>2. /\ o \in [1 .. Cardinality(S) -> S]
      /\ \A i, j \in 1 .. Cardinality(S) : o[i] = o[j] => i = j
  BY DEF Orders
<1>3. Cardinality(1 .. Cardinality(S)) = Cardinality(S)
  BY <1>1, FS_Interval
<1>4. o \in Injection(1 .. Cardinality(S), S)
  BY <1>2 DEF Injection, IsInjective
<1>5. o \in Surjection(1 .. Cardinality(S), S)
  BY <1>3, <1>4, FS_Injection
<1>6. \A c \in S : \E i \in DOMAIN o : o[i] = c
  BY <1>2, <1>5 DEF Surjection
<1>7. S # {} => Cardinality(S) # 0
  BY FS_EmptySet
<1>8. QED
  BY <1>1, <1>2, <1>6, <1>7 DEF PlaceIn

\* The clashes of a canvas are numbers of the canvases; what earlier canvases
\* took, and the rank of a clash, can be counted.
LEMMA ClashesCount ==
  ASSUME NEW gs, Sound(gs), NEW o \in Orders(DOMAIN gs)
  PROVE  \E B \in Nat : \A i \in DOMAIN o :
           /\ IsFiniteSet(Clashes(gs, o, i))
           /\ IsFiniteSet(TakenBefore(gs, o, i))
           /\ Cardinality(TakenBefore(gs, o, i)) \in Nat
           /\ Cardinality(TakenBefore(gs, o, i)) <= B
           /\ Cardinality(Clashes(gs, o, i)) \in Nat
           /\ \A id \in Clashes(gs, o, i) :
                /\ IsFiniteSet(UpTo(gs, o, i, id))
                /\ Cardinality(UpTo(gs, o, i, id)) \in 1 .. Cardinality(Clashes(gs, o, i))
                /\ Cardinality(UpTo(gs, o, i, id)) <= B
<1>. DEFINE T == MaxOf(IdsOf(gs))
            N == Cardinality(DOMAIN gs)
<1>1. /\ IsFiniteSet(DOMAIN gs) /\ N \in Nat /\ DOMAIN o = 1 .. N
      /\ \A i \in DOMAIN o : o[i] \in DOMAIN gs
  BY OrderHasAll DEF Sound
<1>2. T \in Nat /\ \A c \in DOMAIN gs : \A id \in Ids(gs[c]) : id \in Numbers /\ id <= T
  BY TopIsAbove
<1>. HIDE DEF T, N
<1>3. IsFiniteSet(1 .. T) /\ Cardinality(1 .. T) = T
  BY <1>2, FS_Interval, 1 \in Int
<1>4. IsFiniteSet(1 .. N)
  BY <1>1, FS_Interval, 1 \in Int
<1>5. IsFiniteSet((1 .. N) \X (1 .. T)) /\ Cardinality((1 .. N) \X (1 .. T)) \in Nat
  BY <1>3, <1>4, FS_Product, FS_CardinalityType
<1>. DEFINE B == Cardinality((1 .. N) \X (1 .. T)) + T
<1>6. B \in Nat /\ Cardinality((1 .. N) \X (1 .. T)) <= B /\ T <= B
  BY <1>2, <1>5
<1>. HIDE DEF B
<1>7. ASSUME NEW i \in DOMAIN o
      PROVE  Clashes(gs, o, i) \in SUBSET (1 .. T)
  BY <1>1, <1>2 DEF Clashes, Numbers
<1>8. ASSUME NEW i \in DOMAIN o
      PROVE  TakenBefore(gs, o, i) \in SUBSET ((1 .. N) \X (1 .. T))
  <2>1. ASSUME NEW p \in TakenBefore(gs, o, i) PROVE p \in (1 .. N) \X (1 .. T)
    <3>1. PICK j \in 1 .. i - 1 : p \in {j} \X Clashes(gs, o, j)
      BY DEF TakenBefore
    <3>2. j \in DOMAIN o /\ j \in 1 .. N
      BY <1>1
    <3>3. Clashes(gs, o, j) \in SUBSET (1 .. T)
      BY <1>7, <3>2
    <3>4. QED
      BY <3>1, <3>2, <3>3
  <2>2. QED
    BY <2>1
<1>9. ASSUME NEW i \in DOMAIN o
      PROVE  /\ IsFiniteSet(Clashes(gs, o, i))
             /\ Cardinality(Clashes(gs, o, i)) \in Nat
             /\ Cardinality(Clashes(gs, o, i)) <= T
  BY <1>3, <1>7, FS_Subset, FS_CardinalityType
<1>10. ASSUME NEW i \in DOMAIN o
       PROVE  /\ IsFiniteSet(TakenBefore(gs, o, i))
              /\ Cardinality(TakenBefore(gs, o, i)) \in Nat
              /\ Cardinality(TakenBefore(gs, o, i)) <= B
  <2>1. /\ IsFiniteSet(TakenBefore(gs, o, i))
        /\ Cardinality(TakenBefore(gs, o, i)) <= Cardinality((1 .. N) \X (1 .. T))
    BY <1>5, <1>8, FS_Subset
  <2>2. Cardinality(TakenBefore(gs, o, i)) \in Nat
    BY <2>1, FS_CardinalityType
  <2>3. QED
    BY <1>5, <1>6, <2>1, <2>2
<1>11. ASSUME NEW i \in DOMAIN o, NEW id \in Clashes(gs, o, i)
       PROVE  /\ IsFiniteSet(UpTo(gs, o, i, id))
              /\ Cardinality(UpTo(gs, o, i, id)) \in 1 .. Cardinality(Clashes(gs, o, i))
              /\ Cardinality(UpTo(gs, o, i, id)) <= B
  <2>1. UpTo(gs, o, i, id) \in SUBSET Clashes(gs, o, i)
    BY DEF UpTo
  <2>2. /\ IsFiniteSet(UpTo(gs, o, i, id))
        /\ Cardinality(UpTo(gs, o, i, id)) <= Cardinality(Clashes(gs, o, i))
    BY <1>9, <2>1, FS_Subset
  <2>3. Cardinality(UpTo(gs, o, i, id)) \in Nat
    BY <2>2, FS_CardinalityType
  <2>4. id \in UpTo(gs, o, i, id)
    BY <1>7 DEF UpTo
  <2>5. Cardinality(UpTo(gs, o, i, id)) # 0
    BY <2>2, <2>4, FS_EmptySet
  <2>6. QED
    BY <1>2, <1>6, <1>9, <2>2, <2>3, <2>5
<1>12. QED
  BY <1>6, <1>9, <1>10, <1>11

\* What an earlier canvas took is counted before a later one, its own clashes
\* too.
LEMMA TakenGrows ==
  ASSUME NEW gs, Sound(gs), NEW o \in Orders(DOMAIN gs),
         NEW i \in DOMAIN o, NEW j \in DOMAIN o, i < j
  PROVE  Cardinality(TakenBefore(gs, o, i)) + Cardinality(Clashes(gs, o, i))
           <= Cardinality(TakenBefore(gs, o, j))
<1>. DEFINE own == {i} \X Clashes(gs, o, i)
<1>1. /\ IsFiniteSet(Clashes(gs, o, i)) /\ Cardinality(Clashes(gs, o, i)) \in Nat
      /\ IsFiniteSet(TakenBefore(gs, o, i)) /\ Cardinality(TakenBefore(gs, o, i)) \in Nat
      /\ IsFiniteSet(TakenBefore(gs, o, j)) /\ Cardinality(TakenBefore(gs, o, j)) \in Nat
  BY ClashesCount
<1>2. i \in Nat /\ j \in Nat /\ i >= 1
  BY OrderHasAll DEF Sound
<1>3. IsFiniteSet(own) /\ Cardinality(own) = Cardinality(Clashes(gs, o, i))
  <2>1. IsFiniteSet({i}) /\ Cardinality({i}) = 1
    BY FS_Singleton
  <2>2. IsFiniteSet(own) /\ Cardinality(own) = Cardinality({i}) * Cardinality(Clashes(gs, o, i))
    BY <1>1, <2>1, FS_Product
  <2>3. QED
    BY <1>1, <2>1, <2>2
<1>4. own \cap TakenBefore(gs, o, i) = {}
  BY <1>2 DEF TakenBefore
<1>5. own \cup TakenBefore(gs, o, i) \in SUBSET TakenBefore(gs, o, j)
  <2>1. 1 .. i - 1 \subseteq 1 .. j - 1 /\ i \in 1 .. j - 1
    BY <1>2
  <2>2. own \subseteq TakenBefore(gs, o, j)
    BY <2>1 DEF TakenBefore
  <2>3. TakenBefore(gs, o, i) \subseteq TakenBefore(gs, o, j)
    BY <2>1 DEF TakenBefore
  <2>4. QED
    BY <2>2, <2>3
<1>6. Cardinality(own \cup TakenBefore(gs, o, i))
        = Cardinality(own) + Cardinality(TakenBefore(gs, o, i))
        - Cardinality(own \cap TakenBefore(gs, o, i))
  BY <1>1, <1>3, FS_Union
<1>7. Cardinality({}) = 0
  BY FS_EmptySet
<1>8. Cardinality(own \cup TakenBefore(gs, o, i)) <= Cardinality(TakenBefore(gs, o, j))
  BY <1>1, <1>5, FS_Subset
<1>9. QED
  <2>. DEFINE x == Cardinality(own)
              y == Cardinality(TakenBefore(gs, o, i))
              z == Cardinality(own \cup TakenBefore(gs, o, i))
              w == Cardinality(TakenBefore(gs, o, j))
              v == Cardinality(own \cap TakenBefore(gs, o, i))
  <2>1. v = 0
    BY <1>4, <1>7
  <2>2. x \in Nat /\ y \in Nat /\ w \in Nat /\ z = x + y - v /\ z <= w
    BY <1>1, <1>3, <1>6, <1>8
  <2>3. x = Cardinality(Clashes(gs, o, i))
    BY <1>3
  <2>. HIDE DEF x, y, z, w, v
  <2>4. y + x <= w
    BY <2>1, <2>2
  <2>5. QED
    BY <2>3, <2>4 DEF y, w

\* The number of a node after the start: its own if no earlier canvas has it,
\* otherwise one above every number there was.
LEMMA NewNumberIs ==
  ASSUME NEW gs, Sound(gs), NEW o \in Orders(DOMAIN gs),
         NEW i \in DOMAIN o, NEW id \in Ids(gs[o[i]])
  PROVE  /\ id \in Numbers /\ id <= MaxOf(IdsOf(gs))
         /\ NewNumber(gs, o, i, id) \in Numbers
         /\ id \in Clashes(gs, o, i) => NewNumber(gs, o, i, id) > MaxOf(IdsOf(gs))
         /\ id \notin Clashes(gs, o, i) => NewNumber(gs, o, i, id) = id
<1>1. o[i] \in DOMAIN gs
  BY OrderHasAll DEF Sound
<1>2. MaxOf(IdsOf(gs)) \in Nat /\ id \in Numbers /\ id <= MaxOf(IdsOf(gs))
  BY <1>1, TopIsAbove
<1>3. /\ Cardinality(TakenBefore(gs, o, i)) \in Nat
      /\ id \in Clashes(gs, o, i) =>
           /\ Cardinality(UpTo(gs, o, i, id)) \in Nat
           /\ Cardinality(UpTo(gs, o, i, id)) >= 1
  BY ClashesCount
<1>4. CASE id \in Clashes(gs, o, i)
  <2>1. NewNumber(gs, o, i, id) = MaxOf(IdsOf(gs)) + Cardinality(TakenBefore(gs, o, i))
                                  + Cardinality(UpTo(gs, o, i, id))
    BY <1>4 DEF NewNumber, Top
  <2>2. QED
    BY <1>2, <1>3, <1>4, <2>1 DEF Numbers
<1>5. CASE id \notin Clashes(gs, o, i)
  BY <1>2, <1>5 DEF NewNumber
<1>6. QED
  BY <1>4, <1>5

\* Two nodes of one canvas keep different numbers.
LEMMA NewNumbersOnCanvas ==
  ASSUME NEW gs, Sound(gs), NEW o \in Orders(DOMAIN gs), NEW i \in DOMAIN o,
         NEW a \in Ids(gs[o[i]]), NEW b \in Ids(gs[o[i]]),
         NewNumber(gs, o, i, a) = NewNumber(gs, o, i, b)
  PROVE  a = b
<1>1. a \in Clashes(gs, o, i) <=> b \in Clashes(gs, o, i)
  <2>1. MaxOf(IdsOf(gs)) \in Nat
    BY TopIsAbove
  <2>2. QED
    BY <2>1, NewNumberIs DEF Numbers
<1>2. CASE a \notin Clashes(gs, o, i)
  BY <1>1, <1>2, NewNumberIs
<1>3. CASE a \in Clashes(gs, o, i)
  <2>1. a \in Nat /\ b \in Nat /\ b \in Clashes(gs, o, i)
    BY <1>1, <1>3, NewNumberIs DEF Numbers
  <2>2. Cardinality(UpTo(gs, o, i, a)) = Cardinality(UpTo(gs, o, i, b))
    <3>1. MaxOf(IdsOf(gs)) \in Nat
      BY TopIsAbove
    <3>2. /\ Cardinality(TakenBefore(gs, o, i)) \in Nat
          /\ Cardinality(UpTo(gs, o, i, a)) \in Nat
          /\ Cardinality(UpTo(gs, o, i, b)) \in Nat
      BY <1>3, <2>1, ClashesCount
    <3>3. /\ NewNumber(gs, o, i, a) = MaxOf(IdsOf(gs)) + Cardinality(TakenBefore(gs, o, i))
                                      + Cardinality(UpTo(gs, o, i, a))
          /\ NewNumber(gs, o, i, b) = MaxOf(IdsOf(gs)) + Cardinality(TakenBefore(gs, o, i))
                                      + Cardinality(UpTo(gs, o, i, b))
      BY <1>3, <2>1 DEF NewNumber, Top
    <3>. DEFINE t == MaxOf(IdsOf(gs))
                k == Cardinality(TakenBefore(gs, o, i))
                x == Cardinality(UpTo(gs, o, i, a))
                y == Cardinality(UpTo(gs, o, i, b))
    <3>4. t + k + x = t + k + y /\ t \in Nat /\ k \in Nat /\ x \in Nat /\ y \in Nat
      BY <3>1, <3>2, <3>3
    <3>. HIDE DEF t, k, x, y
    <3>5. x = y
      BY <3>4
    <3>6. QED
      BY <3>5 DEF x, y
  <2>3. IsFiniteSet(UpTo(gs, o, i, a)) /\ IsFiniteSet(UpTo(gs, o, i, b))
    BY <1>3, <2>1, ClashesCount
  <2>4. a \in UpTo(gs, o, i, a) /\ b \in UpTo(gs, o, i, b)
    BY <1>3, <2>1 DEF UpTo
  <2>5. \A k \in Clashes(gs, o, i) : k \in Nat
    BY NewNumberIs DEF Clashes, Numbers
  <2>6. CASE a <= b
    <3>0. ASSUME NEW k \in Clashes(gs, o, i), k <= a PROVE k <= b
      <4>1. k \in Nat /\ a \in Nat /\ b \in Nat
        BY <2>1, <2>5
      <4>2. k <= a /\ a <= b
        BY <2>6, <3>0
      <4>3. QED
        BY <4>1, <4>2
    <3>1. UpTo(gs, o, i, a) \in SUBSET UpTo(gs, o, i, b)
      BY <3>0 DEF UpTo
    <3>2. UpTo(gs, o, i, a) = UpTo(gs, o, i, b)
      BY <2>2, <2>3, <3>1, FS_Subset
    <3>3. b <= a
      BY <2>4, <3>2 DEF UpTo
    <3>4. QED
      BY <2>1, <2>6, <3>3
  <2>7. CASE b <= a
    <3>0. ASSUME NEW k \in Clashes(gs, o, i), k <= b PROVE k <= a
      <4>1. k \in Nat /\ a \in Nat /\ b \in Nat
        BY <2>1, <2>5
      <4>2. k <= b /\ b <= a
        BY <2>7, <3>0
      <4>3. QED
        BY <4>1, <4>2
    <3>1. UpTo(gs, o, i, b) \in SUBSET UpTo(gs, o, i, a)
      BY <3>0 DEF UpTo
    <3>2. UpTo(gs, o, i, a) = UpTo(gs, o, i, b)
      BY <2>2, <2>3, <3>1, FS_Subset
    <3>3. a <= b
      BY <2>4, <3>2 DEF UpTo
    <3>4. QED
      BY <2>1, <2>7, <3>3
  <2>8. QED
    BY <2>1, <2>6, <2>7
<1>4. QED
  BY <1>2, <1>3

\* Nodes of two canvases get different numbers.
LEMMA NewNumbersApart ==
  ASSUME NEW gs, Sound(gs), NEW o \in Orders(DOMAIN gs),
         NEW i \in DOMAIN o, NEW j \in DOMAIN o, i < j,
         NEW a \in Ids(gs[o[i]]), NEW b \in Ids(gs[o[j]])
  PROVE  NewNumber(gs, o, i, a) # NewNumber(gs, o, j, b)
<1>1. MaxOf(IdsOf(gs)) \in Nat
  BY TopIsAbove
<1>2. i \in Nat /\ j \in Nat /\ i >= 1
  BY OrderHasAll DEF Sound
<1>3. /\ a \in Nat /\ b \in Nat /\ a <= MaxOf(IdsOf(gs)) /\ b <= MaxOf(IdsOf(gs))
      /\ NewNumber(gs, o, i, a) \in Nat /\ NewNumber(gs, o, j, b) \in Nat
      /\ a \in Clashes(gs, o, i) => NewNumber(gs, o, i, a) > MaxOf(IdsOf(gs))
      /\ b \in Clashes(gs, o, j) => NewNumber(gs, o, j, b) > MaxOf(IdsOf(gs))
      /\ a \notin Clashes(gs, o, i) => NewNumber(gs, o, i, a) = a
      /\ b \notin Clashes(gs, o, j) => NewNumber(gs, o, j, b) = b
  BY NewNumberIs DEF Numbers
<1>4. CASE a \notin Clashes(gs, o, i) /\ b \notin Clashes(gs, o, j)
  <2>1. i \in 1 .. j - 1
    BY <1>2
  <2>2. a # b
    BY <1>4, <2>1 DEF Clashes
  <2>3. QED
    BY <1>3, <1>4, <2>2
<1>5. CASE a \in Clashes(gs, o, i) /\ b \in Clashes(gs, o, j)
  <2>1. /\ Cardinality(TakenBefore(gs, o, i)) \in Nat
        /\ Cardinality(TakenBefore(gs, o, j)) \in Nat
        /\ Cardinality(Clashes(gs, o, i)) \in Nat
        /\ Cardinality(UpTo(gs, o, i, a)) \in Nat
        /\ Cardinality(UpTo(gs, o, i, a)) <= Cardinality(Clashes(gs, o, i))
        /\ Cardinality(UpTo(gs, o, j, b)) \in Nat
        /\ Cardinality(UpTo(gs, o, j, b)) >= 1
    BY <1>5, ClashesCount
  <2>2. Cardinality(TakenBefore(gs, o, i)) + Cardinality(Clashes(gs, o, i))
          <= Cardinality(TakenBefore(gs, o, j))
    BY TakenGrows
  <2>3. /\ NewNumber(gs, o, i, a) = MaxOf(IdsOf(gs)) + Cardinality(TakenBefore(gs, o, i))
                                    + Cardinality(UpTo(gs, o, i, a))
        /\ NewNumber(gs, o, j, b) = MaxOf(IdsOf(gs)) + Cardinality(TakenBefore(gs, o, j))
                                    + Cardinality(UpTo(gs, o, j, b))
    BY <1>5 DEF NewNumber, Top
  <2>4. QED
    BY <1>1, <2>1, <2>2, <2>3
<1>6. CASE a \in Clashes(gs, o, i) /\ b \notin Clashes(gs, o, j)
  BY <1>1, <1>3, <1>6
<1>7. CASE a \notin Clashes(gs, o, i) /\ b \in Clashes(gs, o, j)
  BY <1>1, <1>3, <1>7
<1>8. QED
  BY <1>4, <1>5, <1>6, <1>7

\* What the start makes of the canvases: the same nodes under numbers that are
\* unique across canvases, and next numbers above them.
LEMMA RemappedIsSound ==
  ASSUME NEW gs, Sound(gs), NEW o \in Orders(DOMAIN gs)
  PROVE  /\ Sound(Remapped(gs, o))
         /\ DOMAIN Remapped(gs, o) = DOMAIN gs
         /\ \A c, d \in DOMAIN gs :
              c # d => Ids(Remapped(gs, o)[c]) \cap Ids(Remapped(gs, o)[d]) = {}
         /\ \A c \in DOMAIN gs : \A id \in Ids(Remapped(gs, o)[c]) : \E old \in Ids(gs[c]) :
              Remapped(gs, o)[c].nodes[id] = gs[c].nodes[old]
         /\ \A c \in DOMAIN gs : \A old \in Ids(gs[c]) : \E id \in Ids(Remapped(gs, o)[c]) :
              Remapped(gs, o)[c].nodes[id] = gs[c].nodes[old]
<1>. DEFINE to == Remapped(gs, o)
            N(i) == NewNumbers(gs, o, i)
            nodes(i) == [id \in N(i) |-> gs[o[i]].nodes[OldNumber(gs, o, i, id)]]
<1>1. /\ DOMAIN to = DOMAIN gs /\ to = [c \in DOMAIN gs |-> to[c]]
      /\ \A c \in DOMAIN gs :
           to[c] = [nodes |-> nodes(PlaceIn(o, c)), next |-> MaxOf(N(PlaceIn(o, c))) + 1]
  BY RemappedParts
<1>2. /\ \A i \in DOMAIN o : o[i] \in DOMAIN gs
      /\ \A c \in DOMAIN gs : PlaceIn(o, c) \in DOMAIN o /\ o[PlaceIn(o, c)] = c
      /\ DOMAIN o \subseteq Nat
  BY OrderHasAll DEF Sound
<1>3. MaxOf(IdsOf(gs)) \in Nat
  BY TopIsAbove
<1>4. PICK B \in Nat : \A i \in DOMAIN o : \A id \in Ids(gs[o[i]]) :
                          NewNumber(gs, o, i, id) <= B
  <2>1. PICK C \in Nat : \A i \in DOMAIN o :
           /\ Cardinality(TakenBefore(gs, o, i)) \in Nat
           /\ Cardinality(TakenBefore(gs, o, i)) <= C
           /\ \A id \in Clashes(gs, o, i) :
                /\ Cardinality(UpTo(gs, o, i, id)) \in Nat
                /\ Cardinality(UpTo(gs, o, i, id)) <= C
    BY ClashesCount
  <2>2. ASSUME NEW i \in DOMAIN o, NEW id \in Ids(gs[o[i]])
        PROVE  NewNumber(gs, o, i, id) <= MaxOf(IdsOf(gs)) + C + C
    <3>1. CASE id \in Clashes(gs, o, i)
      <4>1. NewNumber(gs, o, i, id) = MaxOf(IdsOf(gs)) + Cardinality(TakenBefore(gs, o, i))
                                      + Cardinality(UpTo(gs, o, i, id))
        BY <3>1 DEF NewNumber, Top
      <4>2. QED
        BY <1>3, <2>1, <3>1, <4>1
    <3>2. CASE id \notin Clashes(gs, o, i)
      <4>1. NewNumber(gs, o, i, id) = id /\ id \in Nat /\ id <= MaxOf(IdsOf(gs))
        BY <3>2, NewNumberIs DEF Numbers
      <4>2. QED
        BY <1>3, <4>1
    <3>3. QED
      BY <3>1, <3>2
  <2>3. MaxOf(IdsOf(gs)) + C + C \in Nat
    BY <1>3
  <2>4. QED
    BY <2>2, <2>3
<1>5. ASSUME NEW i \in DOMAIN o
      PROVE  /\ N(i) \in SUBSET Numbers
             /\ MaxOf(N(i)) \in Nat /\ MaxOf(N(i)) <= B
             /\ \A id \in N(i) : id <= MaxOf(N(i))
  <2>1. \A id \in N(i) : id \in Numbers /\ id <= B
    BY <1>4, NewNumberIs DEF NewNumbers
  <2>2. N(i) \in SUBSET Nat
    BY <2>1 DEF Numbers
  <2>. HIDE DEF N
  <2>3. QED
    BY <2>1, <2>2, MaxOfBounded
<1>6. ASSUME NEW i \in DOMAIN o, NEW id \in N(i)
      PROVE  /\ OldNumber(gs, o, i, id) \in Ids(gs[o[i]])
             /\ NewNumber(gs, o, i, OldNumber(gs, o, i, id)) = id
  BY DEF OldNumber, NewNumbers
<1>7. ASSUME NEW i \in DOMAIN o, NEW old \in Ids(gs[o[i]])
      PROVE  /\ NewNumber(gs, o, i, old) \in N(i)
             /\ OldNumber(gs, o, i, NewNumber(gs, o, i, old)) = old
  <2>1. NewNumber(gs, o, i, old) \in N(i)
    BY DEF NewNumbers
  <2>2. QED
    BY <1>6, <2>1, NewNumbersOnCanvas
<1>. HIDE DEF N
<1>8. ASSUME NEW c \in DOMAIN gs
      PROVE  /\ to[c] \in FreshGraph /\ to[c].next <= B + 1
             /\ Ids(to[c]) = N(PlaceIn(o, c))
             /\ \A id \in Ids(to[c]) :
                  to[c].nodes[id] = gs[c].nodes[OldNumber(gs, o, PlaceIn(o, c), id)]
  <2>. DEFINE i == PlaceIn(o, c)
  <2>1. i \in DOMAIN o /\ o[i] = c
    BY <1>2
  <2>2. gs[c].nodes \in [Ids(gs[c]) -> Node]
    BY GraphFields DEF Sound, FreshGraph
  <2>. HIDE DEF i
  <2>3. nodes(i) \in [N(i) -> Node]
    <3>1. \A id \in N(i) : gs[o[i]].nodes[OldNumber(gs, o, i, id)] \in Node
      BY <1>6, <2>1, <2>2
    <3>2. QED
      BY <3>1
  <2>4. N(i) \in SUBSET Numbers /\ MaxOf(N(i)) + 1 \in Numbers
    BY <1>5, <2>1 DEF Numbers
  <2>5. to[c] = [nodes |-> nodes(i), next |-> MaxOf(N(i)) + 1]
    BY <1>1 DEF i
  <2>. DEFINE f == nodes(i)
              n == MaxOf(N(i)) + 1
  <2>6. \A id \in N(i) : f[id] = gs[c].nodes[OldNumber(gs, o, i, id)]
    BY <2>1
  <2>7. n \in Numbers /\ n <= B + 1 /\ \A id \in N(i) : id < n
    BY <1>5, <2>1, <2>4 DEF Numbers
  <2>. HIDE DEF f, n, nodes
  <2>8. to[c] \in Graph /\ Ids(to[c]) = N(i)
    BY <2>3, <2>4, <2>5, <2>7, GraphMade DEF f, n
  <2>9. to[c].nodes = f /\ to[c].next = n
    BY <2>5 DEF f, n
  <2>. HIDE DEF to
  <2>10. to[c] \in FreshGraph
    BY <2>7, <2>8, <2>9 DEF FreshGraph, Fresh
  <2>11. QED
    BY <2>6, <2>7, <2>8, <2>9, <2>10 DEF i
<1>9. Sound(to)
  <2>. HIDE DEF to, nodes
  <2>1. to \in [DOMAIN to -> FreshGraph] /\ DOMAIN to = DOMAIN gs
    BY <1>1, <1>8
  <2>2. \A c \in DOMAIN to : to[c].next <= B + 1
    BY <1>8, <2>1
  <2>3. B + 1 \in Nat
    OBVIOUS
  <2>4. \E C \in Nat : \A c \in DOMAIN to : to[c].next <= C
    BY <2>2, <2>3
  <2>5. DOMAIN to \in SUBSET Names /\ IsFiniteSet(DOMAIN to)
    BY <2>1 DEF Sound
  <2>6. QED
    BY <2>1, <2>4, <2>5 DEF Sound
<1>10. ASSUME NEW c \in DOMAIN gs, NEW d \in DOMAIN gs, c # d
       PROVE  Ids(to[c]) \cap Ids(to[d]) = {}
  <2>. DEFINE i == PlaceIn(o, c)
              j == PlaceIn(o, d)
  <2>1. i \in DOMAIN o /\ j \in DOMAIN o /\ o[i] = c /\ o[j] = d /\ i # j
    BY <1>2, <1>10
  <2>2. Ids(to[c]) = N(i) /\ Ids(to[d]) = N(j)
    BY <1>8
  <2>. HIDE DEF i, j, to
  <2>3. ASSUME NEW x \in N(i), NEW y \in N(j) PROVE x # y
    <3>1. PICK a \in Ids(gs[o[i]]) : x = NewNumber(gs, o, i, a)
      BY DEF N, NewNumbers
    <3>2. PICK b \in Ids(gs[o[j]]) : y = NewNumber(gs, o, j, b)
      BY DEF N, NewNumbers
    <3>3. CASE i < j
      BY <2>1, <3>1, <3>2, <3>3, NewNumbersApart
    <3>4. CASE j < i
      BY <2>1, <3>1, <3>2, <3>4, NewNumbersApart
    <3>5. QED
      BY <1>2, <2>1, <3>3, <3>4
  <2>4. QED
    BY <2>2, <2>3
<1>11. ASSUME NEW c \in DOMAIN gs, NEW id \in Ids(to[c])
       PROVE  \E old \in Ids(gs[c]) : to[c].nodes[id] = gs[c].nodes[old]
  <2>. HIDE DEF to, nodes
  <2>1. QED
    BY <1>2, <1>6, <1>8
<1>12. ASSUME NEW c \in DOMAIN gs, NEW old \in Ids(gs[c])
       PROVE  \E id \in Ids(to[c]) : to[c].nodes[id] = gs[c].nodes[old]
  <2>. HIDE DEF to, nodes
  <2>1. QED
    BY <1>2, <1>7, <1>8
<1>13. QED
  BY <1>1, <1>9, <1>10, <1>11, <1>12

-----------------------------------------------------------------------------
(***************************************************************************)
(* The invariant                                                           *)
(***************************************************************************)

\* A history of fresh graphs, not longer than MaxUndo, of which at are in use.
SoundHistory(h) ==
  /\ h = [states |-> h.states, at |-> h.at]
  /\ h.states \in Seq(FreshGraph) /\ Len(h.states) <= MaxUndo
  /\ h.at \in 0 .. Len(h.states)

\* No imported file has a database beside it.
NoneBeside == "import" \notin use.ops \/ "importdb" \notin use.ops

\* What every step keeps: the types, fresh graphs everywhere, and for the GUI, where no
\* imported file has a database beside it, that the listed, the open and the saved
\* canvases are the same ones.
Kept ==
  /\ use \in Uses
  /\ app \in use.apps \cup {"none"}
  /\ Sound(graphs) /\ Sound(db) /\ Sound(disk)
  /\ current \in Names
  /\ list \subseteq Names
  /\ SoundHistory(undo)
  /\ evals \subseteq [id : Numbers, birth : 1 .. use.births]
  /\ births \in 0 .. use.births
  /\ app = "gui" /\ NoneBeside => /\ current \in DOMAIN graphs
                                  /\ list = DOMAIN graphs /\ DOMAIN db = DOMAIN graphs

LEMMA UsesHaveBirths ==
  ASSUME use \in Uses PROVE use.births \in Nat
BY ConstantsAssumption

\* The use stays, so what is sound for this state's nodes is for the next one's.
LEMMA SoundNext ==
  ASSUME use' = use
  PROVE  /\ FreshGraph' = FreshGraph /\ Node' = Node
         /\ Sound(graphs)' <=> Sound(graphs')
         /\ Sound(db)' <=> Sound(db')
         /\ Sound(disk)' <=> Sound(disk')
         /\ SoundHistory(undo)' <=> SoundHistory(undo')
<1>1. Node' = Node
  BY DEF Node
<1>2. Graph' = Graph
  BY <1>1 DEF Graph
<1>3. FreshGraph' = FreshGraph
  BY <1>2 DEF FreshGraph, Fresh, Ids
<1>4. QED
  BY <1>1, <1>3 DEF Sound, SoundHistory

LEMMA NoGraphsIsSound == Sound(NoGraphs) /\ DOMAIN NoGraphs = {}
<1>1. DOMAIN NoGraphs = {} /\ NoGraphs \in [{} -> FreshGraph]
  BY DEF NoGraphs
<1>2. IsFiniteSet({})
  BY FS_EmptySet
<1>3. \E B \in Nat : \A c \in {} : NoGraphs[c].next <= B
  BY 0 \in Nat
<1>4. QED
  BY <1>1, <1>2, <1>3 DEF Sound

LEMMA OneCanvasIsSound ==
  /\ Sound([c \in {Default} |-> NewGraph(1)])
  /\ \A c \in {Default} : Ids([d \in {Default} |-> NewGraph(1)][c]) = {}
<1>. DEFINE to == [c \in {Default} |-> NewGraph(1)]
<1>1. DOMAIN to = {Default} /\ to \in [{Default} -> {NewGraph(1)}]
  OBVIOUS
<1>2. Default \in Names
  BY ConstantsAssumption
<1>3. NoNodes \in [{} -> Node] /\ {} \in SUBSET Numbers /\ 1 \in Numbers
  BY DEF NoNodes, Numbers
<1>4. NewGraph(1) \in Graph /\ Ids(NewGraph(1)) = {} /\ NewGraph(1).next = 1
  BY <1>3, GraphMade DEF NewGraph
<1>5. NewGraph(1) \in FreshGraph
  BY <1>4 DEF FreshGraph, Fresh
<1>6. IsFiniteSet({Default})
  BY FS_Singleton
<1>7. \E B \in Nat : \A c \in DOMAIN to : to[c].next <= B
  BY <1>4, 1 \in Nat
<1>8. to \in [{Default} -> FreshGraph]
  BY <1>5
<1>. HIDE DEF to
<1>9. Sound(to)
  BY <1>1, <1>2, <1>6, <1>7, <1>8 DEF Sound
<1>10. QED
  BY <1>4, <1>9 DEF to

\* A pushed state goes behind those in use.
LEMMA PushedIsSound ==
  ASSUME SoundHistory(undo), NEW g \in FreshGraph
  PROVE  SoundHistory(Pushed(g))
<1>1. MaxUndo \in Nat /\ MaxUndo >= 1
  BY ConstantsAssumption
<1>. DEFINE s == SubSeq(undo.states, 1, undo.at)
            t == Append(s, g)
            k == IF Len(t) > MaxUndo THEN Tail(t) ELSE t
<1>2. /\ undo.states \in Seq(FreshGraph) /\ Len(undo.states) <= MaxUndo
      /\ undo.at \in 0 .. Len(undo.states) /\ Len(undo.states) \in Nat
  BY DEF SoundHistory
<1>3. s \in Seq(FreshGraph) /\ Len(s) = undo.at
  <2>1. \A n \in 1 .. undo.at : undo.states[n] \in FreshGraph
    BY <1>2
  <2>2. QED
    BY <1>2, <2>1
<1>4. t \in Seq(FreshGraph) /\ Len(t) = undo.at + 1
  BY <1>3
<1>. HIDE DEF s, t
<1>5. k \in Seq(FreshGraph) /\ Len(k) <= MaxUndo /\ Len(k) \in Nat
  <2>1. CASE Len(t) > MaxUndo
    <3>1. t # << >>
      BY <1>3, AppendProperties DEF t
    <3>2. Tail(t) \in Seq(FreshGraph) /\ Len(Tail(t)) = Len(t) - 1
      BY <1>4, <3>1, HeadTailProperties
    <3>3. QED
      BY <1>1, <1>2, <1>4, <2>1, <3>2
  <2>2. CASE ~ (Len(t) > MaxUndo)
    BY <1>1, <1>2, <1>4, <2>2
  <2>3. QED
    BY <2>1, <2>2
<1>6. Pushed(g) = [states |-> k, at |-> Len(k)]
  BY DEF Pushed, s, t
<1>. HIDE DEF k
<1>7. QED
  BY <1>5, <1>6 DEF SoundHistory

\* A history of one state.
LEMMA FirstIsSound ==
  ASSUME NEW g \in FreshGraph
  PROVE  SoundHistory([states |-> <<g>>, at |-> 1])
<1>1. MaxUndo \in Nat /\ MaxUndo >= 1
  BY ConstantsAssumption
<1>2. <<g>> \in Seq(FreshGraph) /\ Len(<<g>>) = 1
  OBVIOUS
<1>3. QED
  BY <1>1, <1>2 DEF SoundHistory

LEMMA NoUndoIsSound == SoundHistory(NoUndo)
<1>1. MaxUndo \in Nat /\ MaxUndo >= 1
  BY ConstantsAssumption
<1>2. << >> \in Seq(FreshGraph) /\ Len(<< >>) = 0
  OBVIOUS
<1>3. QED
  BY <1>1, <1>2 DEF SoundHistory, NoUndo

\* A result changes what one node shows.
LEMMA ShowsIsFresh ==
  ASSUME NEW g \in FreshGraph, NEW id \in Ids(g), NEW b \in 1 .. use.births
  PROVE  /\ [g EXCEPT !.nodes[id].shows = b] \in FreshGraph
         /\ [g EXCEPT !.nodes[id].shows = b].next = g.next
         /\ Ids([g EXCEPT !.nodes[id].shows = b]) = Ids(g)
         /\ \A k \in Ids(g) : [g EXCEPT !.nodes[id].shows = b].nodes[k] =
              IF k = id THEN [g.nodes[k] EXCEPT !.shows = b] ELSE g.nodes[k]
<1>1. /\ g \in Graph /\ Ids(g) \in SUBSET Numbers /\ g.next \in Numbers
      /\ g = [nodes |-> g.nodes, next |-> g.next]
      /\ g.nodes \in [Ids(g) -> Node] /\ \A k \in Ids(g) : k < g.next
  BY GraphFields DEF FreshGraph, Fresh
<1>. DEFINE f == [k \in Ids(g) |-> IF k = id THEN [g.nodes[k] EXCEPT !.shows = b] ELSE g.nodes[k]]
            h == [g EXCEPT !.nodes[id].shows = b]
<1>2. f \in [Ids(g) -> Node]
  <2>1. \A k \in Ids(g) : [g.nodes[k] EXCEPT !.shows = b] \in Node
    BY <1>1 DEF Node
  <2>2. QED
    BY <1>1, <2>1
<1>3. h = [nodes |-> f, next |-> g.next]
  <2>1. [g.nodes EXCEPT ![id].shows = b] = f
    BY <1>1
  <2>2. h = [g EXCEPT !.nodes = f]
    BY <1>1, <2>1
  <2>. HIDE DEF f, h
  <2>3. QED
    BY <1>1, <2>2
<1>4. \A k \in Ids(g) : f[k] = IF k = id THEN [g.nodes[k] EXCEPT !.shows = b] ELSE g.nodes[k]
  OBVIOUS
<1>. HIDE DEF f
<1>5. [nodes |-> f, next |-> g.next] \in Graph /\ Ids([nodes |-> f, next |-> g.next]) = Ids(g)
  BY <1>1, <1>2, GraphMade
<1>6. h.nodes = f /\ h.next = g.next /\ h \in Graph /\ Ids(h) = Ids(g)
  BY <1>3, <1>5
<1>. HIDE DEF h
<1>7. h \in FreshGraph
  BY <1>1, <1>6 DEF FreshGraph, Fresh
<1>8. QED
  BY <1>4, <1>6, <1>7 DEF h

\* The next state keeps the invariant if each of its parts does.
LEMMA KeptAgain ==
  ASSUME Kept, use' = use, app' \in use.apps \cup {"none"},
         Sound(graphs'), Sound(db'), Sound(disk'),
         current' \in Names, list' \subseteq Names, SoundHistory(undo'),
         evals' \subseteq [id : Numbers, birth : 1 .. use.births],
         births' \in 0 .. use.births,
         app' = "gui" /\ NoneBeside =>
           /\ current' \in DOMAIN graphs'
           /\ list' = DOMAIN graphs' /\ DOMAIN db' = DOMAIN graphs'
  PROVE  Kept'
BY SoundNext DEF Kept, NoneBeside

\* A step that only changes one graph, and what the history, the evaluations and
\* the births are.
LEMMA OneGraphChanges ==
  ASSUME Kept, NEW c \in DOMAIN graphs, NEW g \in FreshGraph,
         graphs' = [graphs EXCEPT ![c] = g],
         UNCHANGED <<use, app, current, list, db, disk>>,
         SoundHistory(undo'),
         evals' \subseteq [id : Numbers, birth : 1 .. use.births],
         births' \in 0 .. use.births
  PROVE  Kept'
<1>1. Sound(graphs') /\ DOMAIN graphs' = DOMAIN graphs
  BY ReplaceIsSound DEF Kept
<1>2. Sound(db') /\ Sound(disk')
  BY DEF Kept
<1>3. QED
  BY <1>1, <1>2, KeptAgain DEF Kept

\* What is known of the canvas c of a state.
LEMMA CanvasIsFresh ==
  ASSUME Kept, NEW c \in DOMAIN graphs
  PROVE  graphs[c] \in FreshGraph /\ c \in Names
BY DEF Kept, Sound

LEMMA NewbornIsNode ==
  ASSUME Kept, births < use.births, NEW remote \in BOOLEAN
  PROVE  Newborn(remote) \in Node /\ births + 1 \in 0 .. use.births
<1>1. births + 1 \in 1 .. use.births
  BY UsesHaveBirths DEF Kept
<1>2. QED
  BY <1>1 DEF Newborn, Node

LEMMA InitKept == Init => Kept
<1>1. SUFFICES ASSUME Init PROVE Kept
  OBVIOUS
<1>2. use.births \in Nat
  BY <1>1, UsesHaveBirths DEF Init
<1>3. QED
  BY <1>1, <1>2, NoGraphsIsSound, NoUndoIsSound, ConstantsAssumption DEF Init, Kept

LEMMA StartGuiKept == Kept /\ StartGui => Kept'
<1>1. SUFFICES ASSUME Kept, StartGui PROVE Kept'
  OBVIOUS
<1>2. PICK o \in Orders(list') : /\ current' = o[1]
                                 /\ graphs' = Remapped(db', o)
                                 /\ undo' = [states |-> <<graphs'[o[1]]>>, at |-> 1]
  BY <1>1 DEF StartGui
<1>3. Sound(db') /\ DOMAIN db' # {} /\ list' = DOMAIN db'
  <2>1. CASE DOMAIN disk = {}
    BY <1>1, <2>1, OneCanvasIsSound DEF StartGui
  <2>2. CASE DOMAIN disk # {}
    BY <1>1, <2>2 DEF StartGui, Kept
  <2>3. QED
    BY <2>1, <2>2
<1>4. o[1] \in DOMAIN db'
  BY <1>3, OrderHasAll DEF Sound
<1>5. Sound(graphs') /\ DOMAIN graphs' = DOMAIN db'
  BY <1>2, <1>3, RemappedIsSound
<1>6. graphs'[o[1]] \in FreshGraph
  BY <1>4, <1>5 DEF Sound
<1>7. SoundHistory(undo')
  BY <1>2, <1>6, FirstIsSound
<1>8. /\ use' = use /\ app' \in use.apps /\ disk' = disk /\ births' = births /\ evals' = {}
  BY <1>1 DEF StartGui
<1>9. list' \subseteq Names /\ current' \in Names
  BY <1>2, <1>3, <1>4 DEF Sound
<1>10. /\ Sound(disk') /\ births' \in 0 .. use.births
       /\ evals' \subseteq [id : Numbers, birth : 1 .. use.births]
  BY <1>1, <1>8 DEF Kept
<1>11. current' \in DOMAIN graphs' /\ list' = DOMAIN graphs' /\ DOMAIN db' = DOMAIN graphs'
  BY <1>2, <1>3, <1>4, <1>5
<1>12. QED
  BY <1>1, <1>3, <1>5, <1>7, <1>8, <1>9, <1>10, <1>11, KeptAgain

LEMMA StartPeerKept == Kept /\ StartPeer => Kept'
<1>1. SUFFICES ASSUME Kept, StartPeer PROVE Kept'
  OBVIOUS
<1>2. Sound(graphs')
  <2>1. CASE DOMAIN disk = {}
    BY <1>1, <2>1, OneCanvasIsSound DEF StartPeer
  <2>2. CASE DOMAIN disk # {}
    BY <1>1, <2>2 DEF StartPeer, Kept
  <2>3. QED
    BY <2>1, <2>2
<1>3. Sound(db') /\ Sound(disk') /\ list' \subseteq Names /\ current' \in Names
  BY <1>1 DEF StartPeer, Kept, Sound
<1>4. /\ use' = use /\ app' \in use.apps /\ app' = "peer"
      /\ undo' = undo /\ births' = births /\ evals' = {}
  BY <1>1 DEF StartPeer
<1>5. /\ SoundHistory(undo') /\ births' \in 0 .. use.births
      /\ evals' \subseteq [id : Numbers, birth : 1 .. use.births]
  BY <1>1, <1>4 DEF Kept
<1>6. QED
  BY <1>1, <1>2, <1>3, <1>4, <1>5, KeptAgain

LEMMA SaveGraphKept == Kept /\ SaveGraph => Kept'
<1>1. SUFFICES ASSUME Kept, SaveGraph PROVE Kept'
  OBVIOUS
<1>2. /\ db' = DbWithAll /\ disk' = DbWithAll
      /\ UNCHANGED <<use, app, graphs, current, list, undo, evals, births>>
  BY <1>1 DEF SaveGraph
<1>3. Sound(db') /\ Sound(disk')
  BY <1>1, <1>2, DbWithAllIsSound DEF Kept
<1>4. app = "gui" /\ NoneBeside => DOMAIN db' = DOMAIN graphs'
  BY <1>1, <1>2 DEF Kept, DbWithAll
<1>5. QED
  BY <1>1, <1>2, <1>3, <1>4, KeptAgain DEF Kept

LEMMA StopKept == Kept /\ Stop => Kept'
<1>1. SUFFICES ASSUME Kept, Stop PROVE Kept'
  OBVIOUS
<1>2. /\ app' = "none" /\ graphs' = NoGraphs /\ current' = Default /\ list' = {}
      /\ undo' = NoUndo /\ evals' = {} /\ db' = NoGraphs /\ use' = use /\ births' = births
      /\ disk' \in {disk, DbWithAll}
  BY <1>1 DEF Stop
<1>3. Sound(disk')
  BY <1>1, <1>2, DbWithAllIsSound DEF Kept
<1>4. QED
  BY <1>1, <1>2, <1>3, NoGraphsIsSound, NoUndoIsSound, ConstantsAssumption, KeptAgain DEF Kept

LEMMA AddNodeKept == Kept /\ app = "gui" /\ AddNode => Kept'
<1>1. SUFFICES ASSUME Kept, app = "gui", AddNode PROVE Kept'
  OBVIOUS
<1>. DEFINE g == With(graphs[current], Newborn(FALSE))
<1>2. current \in DOMAIN graphs
  BY <1>1 DEF AddNode, Open
<1>3. /\ births < use.births /\ births' = births + 1
      /\ graphs' = [graphs EXCEPT ![current] = g] /\ undo' = Pushed(g)
      /\ UNCHANGED <<use, app, current, list, evals, db, disk>>
  BY <1>1 DEF AddNode, ShowAndPush, Show
<1>4. g \in FreshGraph
  BY <1>1, <1>2, <1>3, CanvasIsFresh, NewbornIsNode, WithIsFresh
<1>. HIDE DEF g
<1>5. SoundHistory(undo') /\ births' \in 0 .. use.births
  BY <1>1, <1>3, <1>4, PushedIsSound, NewbornIsNode DEF Kept
<1>6. evals' \subseteq [id : Numbers, birth : 1 .. use.births]
  BY <1>1, <1>3 DEF Kept
<1>7. QED
  BY <1>1, <1>2, <1>3, <1>4, <1>5, <1>6, OneGraphChanges

LEMMA DeleteNodeKept ==
  ASSUME Kept, app = "gui", current \in DOMAIN graphs, NEW ids,
         \/ ShowAndPush(Without(graphs[current], ids))
         \/ Show(Without(graphs[current], ids)) /\ undo' = undo,
         UNCHANGED <<use, app, current, list, evals, db, disk, births>>
  PROVE  Kept'
<1>. DEFINE g == Without(graphs[current], ids)
<1>1. current \in DOMAIN graphs
  OBVIOUS
<1>2. g \in FreshGraph
  BY <1>1, CanvasIsFresh, WithoutIsFresh
<1>3. graphs' = [graphs EXCEPT ![current] = g] /\ (undo' = Pushed(g) \/ undo' = undo)
  BY DEF ShowAndPush, Show
<1>. HIDE DEF g
<1>4. SoundHistory(undo')
  BY <1>2, <1>3, PushedIsSound DEF Kept
<1>5. /\ evals' \subseteq [id : Numbers, birth : 1 .. use.births]
      /\ births' \in 0 .. use.births
  BY DEF Kept
<1>6. QED
  BY <1>1, <1>2, <1>3, <1>4, <1>5, OneGraphChanges

LEMMA NewCanvasKept ==
  ASSUME NEW c \in Names PROVE Kept /\ NewCanvas(c) => Kept'
<1>1. SUFFICES ASSUME Kept, NewCanvas(c) PROVE Kept'
  OBVIOUS
<1>. DEFINE g == NewGraph(MaxOf(IdsOf(graphs)) + 1)
<1>2. /\ app = "gui"
      /\ graphs' = [d \in DOMAIN graphs \cup {c} |-> IF d = c THEN g ELSE graphs[d]]
      /\ db' = [d \in DOMAIN db \cup {c} |-> IF d = c THEN g ELSE db[d]]
      /\ current' = c /\ list' = DOMAIN db'
      /\ UNCHANGED <<use, app, undo, evals, disk, births>>
  BY <1>1 DEF NewCanvas, MayAct, GuiOps, PeerOps, BothOps
<1>3. g \in FreshGraph
  <2>1. MaxOf(IdsOf(graphs)) + 1 \in Numbers
    BY <1>1, TopIsAbove DEF Kept, Numbers
  <2>2. NoNodes \in [{} -> Node] /\ {} \in SUBSET Numbers
    BY DEF NoNodes
  <2>3. g \in Graph /\ Ids(g) = {}
    BY <2>1, <2>2, GraphMade DEF NewGraph
  <2>4. QED
    BY <2>3 DEF FreshGraph, Fresh
<1>. HIDE DEF g
<1>4. Sound(graphs') /\ DOMAIN graphs' = DOMAIN graphs \cup {c}
  <2>1. Sound(graphs)
    BY <1>1 DEF Kept
  <2>2. Sound(graphs')
    BY <1>2, <1>3, <2>1, PutIsSound
  <2>3. QED
    BY <1>2, <2>2
<1>5. Sound(db') /\ DOMAIN db' = DOMAIN db \cup {c}
  <2>1. Sound(db)
    BY <1>1 DEF Kept
  <2>2. Sound(db')
    BY <1>2, <1>3, <2>1, PutIsSound
  <2>3. QED
    BY <1>2, <2>2
<1>6. list' \subseteq Names
  BY <1>2, <1>5 DEF Sound
<1>7. Sound(disk')
  BY <1>1, <1>2 DEF Kept
<1>8. /\ current' \in DOMAIN graphs'
      /\ NoneBeside => list' = DOMAIN graphs' /\ DOMAIN db' = DOMAIN graphs'
  BY <1>1, <1>2, <1>4, <1>5 DEF Kept
<1>9. /\ app' \in use.apps \cup {"none"} /\ SoundHistory(undo')
      /\ evals' \subseteq [id : Numbers, birth : 1 .. use.births]
      /\ births' \in 0 .. use.births
  BY <1>1, <1>2 DEF Kept
<1>10. QED
  BY <1>1, <1>2, <1>4, <1>5, <1>6, <1>7, <1>8, <1>9, KeptAgain

LEMMA SwitchCanvasKept ==
  ASSUME NEW c \in Names PROVE Kept /\ SwitchCanvas(c) => Kept'
<1>1. SUFFICES ASSUME Kept, SwitchCanvas(c) PROVE Kept'
  OBVIOUS
<1>2. /\ c \in list /\ current' = c /\ app = "gui"
      /\ UNCHANGED <<use, app, graphs, list, undo, evals, db, disk, births>>
  BY <1>1 DEF SwitchCanvas, MayAct, GuiOps, PeerOps, BothOps
<1>3. Sound(graphs') /\ Sound(db') /\ Sound(disk')
  BY <1>1, <1>2 DEF Kept
<1>4. QED
  BY <1>1, <1>2, <1>3, KeptAgain DEF Kept

LEMMA DeleteCanvasKept ==
  ASSUME NEW c \in Names PROVE Kept /\ DeleteCanvas(c) => Kept'
<1>1. SUFFICES ASSUME Kept, DeleteCanvas(c) PROVE Kept'
  OBVIOUS
<1>2. /\ app = "gui" /\ c \in list
      /\ db' = Restrict(db, DOMAIN db \ {c}) /\ disk' = db'
      /\ graphs' = Restrict(graphs, DOMAIN graphs \ {c})
      /\ list' = DOMAIN db'
      /\ c = current => current' \in IF list' = {} THEN {Default} ELSE list'
      /\ c # current => current' = current
      /\ UNCHANGED <<use, app, undo, evals, births>>
  BY <1>1 DEF DeleteCanvas, ListAfter, MayAct, GuiOps, PeerOps, BothOps
<1>3. Sound(db') /\ DOMAIN db' = DOMAIN db \ {c}
  BY <1>1, <1>2, RestrictIsSound DEF Kept, Restrict
<1>4. Sound(graphs') /\ DOMAIN graphs' = DOMAIN graphs \ {c}
  BY <1>1, <1>2, RestrictIsSound DEF Kept, Restrict
<1>5. list' \subseteq Names /\ Sound(disk')
  BY <1>2, <1>3 DEF Sound
<1>6. NoneBeside => /\ current' \in DOMAIN graphs'
                    /\ list' = DOMAIN graphs' /\ DOMAIN db' = DOMAIN graphs'
  <2>1. SUFFICES ASSUME NoneBeside
                 PROVE  /\ current' \in DOMAIN graphs'
                        /\ list' = DOMAIN graphs' /\ DOMAIN db' = DOMAIN graphs'
    OBVIOUS
  <2>2. list = DOMAIN graphs /\ DOMAIN db = DOMAIN graphs /\ current \in DOMAIN graphs
    BY <1>1, <1>2, <2>1 DEF Kept
  <2>3. list' = DOMAIN graphs' /\ DOMAIN db' = DOMAIN graphs'
    BY <1>2, <1>3, <1>4, <2>2
  <2>4. list' = list \ {c} /\ list' # {}
    <3>1. list' = list \ {c}
      BY <1>2, <1>3, <2>2
    <3>2. list # {c}
      <4>1. Cardinality(list) > 1
        BY <1>1 DEF DeleteCanvas
      <4>2. Cardinality({c}) = 1
        BY FS_Singleton
      <4>3. QED
        BY <4>1, <4>2
    <3>3. QED
      BY <1>2, <3>1, <3>2
  <2>5. QED
    BY <1>2, <1>4, <2>2, <2>3, <2>4
<1>9. current' \in Names
  BY <1>1, <1>2, <1>5, ConstantsAssumption DEF Kept
<1>7. /\ app' \in use.apps \cup {"none"} /\ SoundHistory(undo')
      /\ evals' \subseteq [id : Numbers, birth : 1 .. use.births]
      /\ births' \in 0 .. use.births
  BY <1>1, <1>2 DEF Kept
<1>8. QED
  BY <1>1, <1>2, <1>3, <1>4, <1>5, <1>6, <1>7, <1>9, KeptAgain

\* The database beside an imported file is as sound as the file.
LEMMA BesideIsSound ==
  ASSUME NEW g \in FreshGraph, NEW rows \in Beside(g)
  PROVE  Sound(rows)
<1>1. PICK S \in SUBSET Names : IsFiniteSet(S) /\ rows \in [S -> {NewGraph(1), Saved(g)}]
  BY DEF Beside
<1>2. NewGraph(1) \in FreshGraph /\ Saved(g) \in FreshGraph
  BY OneCanvasIsSound, SavedIsFresh DEF Sound
<1>3. DOMAIN rows = S /\ rows \in [S -> FreshGraph]
  BY <1>1, <1>2
<1>4. NewGraph(1).next = 1 /\ Saved(g).next \in Nat
  BY <1>2, GraphFields DEF NewGraph, FreshGraph, Numbers
<1>5. \A c \in S : rows[c].next <= Saved(g).next + 1
  BY <1>1, <1>4
<1>6. Saved(g).next + 1 \in Nat
  BY <1>4
<1>7. QED
  BY <1>1, <1>3, <1>5, <1>6 DEF Sound

LEMMA ImportScmKept ==
  ASSUME NEW id \in 1 .. 2 PROVE Kept /\ app = "gui" /\ ImportScm(id) => Kept'
<1>1. SUFFICES ASSUME Kept, app = "gui", ImportScm(id) PROVE Kept'
  OBVIOUS
<1>. DEFINE g == [nodes |-> [k \in {id} |-> Newborn(FALSE)], next |-> id + 1]
<1>2. /\ births < use.births /\ births' = births + 1
      /\ graphs' = [graphs EXCEPT ![current] = g]
      /\ \E rows \in {db} \cup Beside(g) : db' = WithRows(rows, current, g)
      /\ undo' = [states |-> <<g>>, at |-> 1]
      /\ UNCHANGED <<use, app, current, list, evals, disk>>
  BY <1>1 DEF ImportScm, Show
<1>3. /\ current \in DOMAIN graphs /\ current \in Names
      /\ NoneBeside => current \in DOMAIN db
  BY <1>1 DEF Kept, ImportScm, Open
<1>4. Newborn(FALSE) \in Node /\ births + 1 \in 0 .. use.births /\ id \in Numbers
  <2>1. Newborn(FALSE) \in Node /\ births + 1 \in 0 .. use.births
    BY <1>1, <1>2, NewbornIsNode
  <2>2. id \in Numbers
    BY DEF Numbers
  <2>3. QED
    BY <2>1, <2>2
<1>5. g \in FreshGraph
  BY <1>4, SmallGraphs
<1>. HIDE DEF g
<1>6. Sound(graphs') /\ DOMAIN graphs' = DOMAIN graphs
  BY <1>1, <1>2, <1>3, <1>5, ReplaceIsSound DEF Kept
<1>7. Sound(db') /\ (NoneBeside => DOMAIN db' = DOMAIN db)
  <2>1. Saved(g) \in FreshGraph
    BY <1>5, SavedIsFresh
  <2>2. PICK rows \in {db} \cup Beside(g) : db' = WithRows(rows, current, g)
    BY <1>2
  <2>3. Sound(rows)
    BY <1>1, <1>5, <2>2, BesideIsSound DEF Kept
  <2>4. db' = [d \in DOMAIN rows \cup {current} |->
                 IF d = current THEN Saved(g) ELSE rows[d]]
    BY <2>2 DEF WithRows
  <2>5. Sound(db')
    BY <1>3, <2>1, <2>3, <2>4, PutIsSound
  <2>6. NoneBeside => rows = db
    BY <1>1, <2>2 DEF NoneBeside, Beside, ImportScm, MayAct
  <2>7. QED
    BY <1>3, <2>4, <2>5, <2>6
<1>8. SoundHistory(undo')
  BY <1>2, <1>5, FirstIsSound
<1>9. Sound(disk')
  BY <1>1, <1>2 DEF Kept
<1>10. /\ app' \in use.apps \cup {"none"} /\ current' \in Names /\ list' \subseteq Names
       /\ evals' \subseteq [id : Numbers, birth : 1 .. use.births]
       /\ births' \in 0 .. use.births
       /\ NoneBeside => /\ current' \in DOMAIN graphs'
                         /\ list' = DOMAIN graphs' /\ DOMAIN db' = DOMAIN graphs'
  BY <1>1, <1>2, <1>3, <1>4, <1>6, <1>7 DEF Kept
<1>11. QED
  BY <1>1, <1>2, <1>6, <1>7, <1>8, <1>9, <1>10, KeptAgain

LEMMA UndoKept == Kept /\ (Undo \/ Redo) => Kept'
<1>1. SUFFICES ASSUME Kept, Undo \/ Redo PROVE Kept'
  OBVIOUS
<1>2. /\ undo = [states |-> undo.states, at |-> undo.at]
      /\ undo.states \in Seq(FreshGraph) /\ Len(undo.states) <= MaxUndo
      /\ undo.at \in 0 .. Len(undo.states) /\ Len(undo.states) \in Nat
  BY <1>1 DEF Kept, SoundHistory
<1>3. PICK n \in 1 .. Len(undo.states) :
        /\ Insert(Unpacked(undo.states[n]))
        /\ undo' = [undo EXCEPT !.at = n]
        /\ UNCHANGED <<use, app, current, list, evals, db, disk, births>>
  <2>1. CASE Undo
    <3>1. /\ undo.at > 1
          /\ Insert(Unpacked(undo.states[undo.at - 1]))
          /\ undo' = [undo EXCEPT !.at = undo.at - 1]
          /\ UNCHANGED <<use, app, current, list, evals, db, disk, births>>
      BY <1>2, <2>1 DEF Undo
    <3>2. undo.at - 1 \in 1 .. Len(undo.states)
      BY <1>2, <3>1
    <3>3. QED
      BY <3>1, <3>2
  <2>2. CASE Redo
    <3>1. /\ undo.at < Len(undo.states)
          /\ Insert(Unpacked(undo.states[undo.at + 1]))
          /\ undo' = [undo EXCEPT !.at = undo.at + 1]
          /\ UNCHANGED <<use, app, current, list, evals, db, disk, births>>
      BY <1>2, <2>2 DEF Redo
    <3>2. undo.at + 1 \in 1 .. Len(undo.states)
      BY <1>2, <3>1
    <3>3. QED
      BY <3>1, <3>2
  <2>3. QED
    BY <1>1, <2>1, <2>2
<1>. DEFINE g == Unpacked(undo.states[n])
<1>4. g \in FreshGraph
  BY <1>2, UnpackedIsFresh
<1>5. SoundHistory(undo')
  <2>1. undo' = [states |-> undo.states, at |-> n]
    BY <1>2, <1>3
  <2>2. QED
    BY <1>2, <2>1 DEF SoundHistory
<1>6. Sound(graphs) /\ current \in Names
  BY <1>1 DEF Kept
<1>7. graphs' = [d \in DOMAIN graphs \cup {current} |-> IF d = current THEN g ELSE graphs[d]]
  BY <1>3 DEF Insert
<1>. HIDE DEF g
<1>8. Sound(graphs')
  BY <1>4, <1>6, <1>7, PutIsSound
<1>9. app = "gui" /\ NoneBeside => DOMAIN graphs' = DOMAIN graphs
  BY <1>1, <1>7 DEF Kept
<1>10. Sound(db') /\ Sound(disk')
  BY <1>1, <1>3 DEF Kept
<1>11. QED
  BY <1>1, <1>3, <1>5, <1>8, <1>9, <1>10, KeptAgain DEF Kept

LEMMA CreateCanvasKept ==
  ASSUME NEW c \in Names PROVE Kept /\ CreateCanvas(c) => Kept'
<1>1. SUFFICES ASSUME Kept, CreateCanvas(c) PROVE Kept'
  OBVIOUS
<1>2. /\ app = "peer"
      /\ graphs' = [d \in DOMAIN graphs \cup {c} |->
                      IF d = c THEN NewGraph(1) ELSE graphs[d]]
      /\ UNCHANGED <<use, app, current, list, undo, evals, db, disk, births>>
  BY <1>1 DEF CreateCanvas, MayAct, GuiOps, PeerOps, BothOps
<1>3. NewGraph(1) \in FreshGraph
  BY OneCanvasIsSound DEF Sound
<1>4. Sound(graphs')
  BY <1>1, <1>2, <1>3, PutIsSound DEF Kept
<1>5. Sound(db') /\ Sound(disk')
  BY <1>1, <1>2 DEF Kept
<1>6. QED
  BY <1>1, <1>2, <1>4, <1>5, KeptAgain DEF Kept

LEMMA MakeNodeKept ==
  ASSUME NEW c \in DOMAIN graphs, NEW op \in {"create", "deliver"}
  PROVE  Kept /\ MakeNode(c, op) => Kept'
<1>1. SUFFICES ASSUME Kept, MakeNode(c, op) PROVE Kept'
  OBVIOUS
<1>2. /\ births < use.births /\ births' = births + 1
      /\ graphs' = [graphs EXCEPT ![c] = With(graphs[c], Newborn(op = "deliver"))]
      /\ UNCHANGED <<use, app, current, list, undo, evals, db, disk>>
  BY <1>1 DEF MakeNode
<1>3. (op = "deliver") \in BOOLEAN
  OBVIOUS
<1>4. Newborn(op = "deliver") \in Node /\ births' \in 0 .. use.births
  BY <1>1, <1>2, <1>3, NewbornIsNode
<1>5. With(graphs[c], Newborn(op = "deliver")) \in FreshGraph
  BY <1>1, <1>4, CanvasIsFresh, WithIsFresh
<1>6. /\ SoundHistory(undo')
      /\ evals' \subseteq [id : Numbers, birth : 1 .. use.births]
  BY <1>1, <1>2 DEF Kept
<1>7. QED
  BY <1>1, <1>2, <1>4, <1>5, <1>6, OneGraphChanges

LEMMA DropNodeKept ==
  ASSUME NEW c \in DOMAIN graphs, NEW id \in Ids(graphs[c])
  PROVE  Kept /\ DropNode(c, id) => Kept'
<1>1. SUFFICES ASSUME Kept, DropNode(c, id) PROVE Kept'
  OBVIOUS
<1>2. /\ graphs' = [graphs EXCEPT ![c] = Without(graphs[c], {id})]
      /\ UNCHANGED <<use, app, current, list, undo, evals, db, disk, births>>
  BY <1>1 DEF DropNode
<1>3. Without(graphs[c], {id}) \in FreshGraph
  BY <1>1, CanvasIsFresh, WithoutIsFresh
<1>4. /\ SoundHistory(undo') /\ births' \in 0 .. use.births
      /\ evals' \subseteq [id : Numbers, birth : 1 .. use.births]
  BY <1>1, <1>2 DEF Kept
<1>5. QED
  BY <1>1, <1>2, <1>3, <1>4, OneGraphChanges

LEMMA ComputeNodeKept ==
  ASSUME NEW c \in DOMAIN graphs, NEW id \in Ids(graphs[c])
  PROVE  Kept /\ ComputeNode(c, id) => Kept'
<1>1. SUFFICES ASSUME Kept, ComputeNode(c, id) PROVE Kept'
  OBVIOUS
<1>2. /\ evals' = evals \cup {[id |-> id, birth |-> graphs[c].nodes[id].birth]}
      /\ UNCHANGED <<use, app, graphs, current, list, undo, db, disk, births>>
  BY <1>1 DEF ComputeNode
<1>3. id \in Numbers /\ graphs[c].nodes[id] \in Node
  BY <1>1, CanvasIsFresh, GraphFields DEF FreshGraph
<1>4. evals' \subseteq [id : Numbers, birth : 1 .. use.births]
  BY <1>1, <1>2, <1>3 DEF Kept, Node
<1>5. Sound(graphs') /\ Sound(db') /\ Sound(disk')
  BY <1>1, <1>2 DEF Kept
<1>6. QED
  BY <1>1, <1>2, <1>4, <1>5, KeptAgain DEF Kept

LEMMA ApplyResultKept ==
  ASSUME NEW e \in evals PROVE Kept /\ ApplyResult(e) => Kept'
<1>1. SUFFICES ASSUME Kept, ApplyResult(e) PROVE Kept'
  OBVIOUS
<1>2. /\ evals' = evals \ {e} /\ UNCHANGED <<use, app, current, list, undo, db, disk, births>>
      /\ \/ graphs' = graphs
         \/ \E c \in Holders(e.id) : graphs' = [graphs EXCEPT ![c].nodes[e.id].shows = e.birth]
  BY <1>1 DEF ApplyResult
<1>3. /\ e.birth \in 1 .. use.births /\ SoundHistory(undo') /\ births' \in 0 .. use.births
      /\ evals' \subseteq [id : Numbers, birth : 1 .. use.births]
  BY <1>1, <1>2 DEF Kept
<1>4. CASE graphs' = graphs
  <2>1. Sound(graphs') /\ Sound(db') /\ Sound(disk')
    BY <1>1, <1>2, <1>4 DEF Kept
  <2>2. QED
    BY <1>1, <1>2, <1>3, <1>4, <2>1, KeptAgain DEF Kept
<1>5. ASSUME NEW c \in Holders(e.id),
             graphs' = [graphs EXCEPT ![c].nodes[e.id].shows = e.birth]
      PROVE  Kept'
  <2>1. c \in DOMAIN graphs /\ e.id \in Ids(graphs[c])
    BY DEF Holders
  <2>. DEFINE g == [graphs[c] EXCEPT !.nodes[e.id].shows = e.birth]
  <2>2. graphs' = [graphs EXCEPT ![c] = g]
    BY <1>5
  <2>3. g \in FreshGraph
    BY <1>1, <1>3, <2>1, CanvasIsFresh, ShowsIsFresh
  <2>. HIDE DEF g
  <2>4. QED
    BY <1>1, <1>2, <1>3, <2>1, <2>2, <2>3, OneGraphChanges
<1>6. QED
  BY <1>2, <1>4, <1>5

\* Every step keeps the invariant.
LEMMA NextKept == Kept /\ [Next]_vars => Kept'
<1>1. SUFFICES ASSUME Kept, [Next]_vars PROVE Kept'
  OBVIOUS
<1>2. CASE UNCHANGED vars
  <2>1. UNCHANGED <<use, app, graphs, current, list, undo, evals, db, disk, births>>
    BY <1>2 DEF vars
  <2>2. Sound(graphs') /\ Sound(db') /\ Sound(disk')
    BY <1>1, <2>1 DEF Kept
  <2>3. QED
    BY <1>1, <2>1, <2>2, KeptAgain DEF Kept
<1>3. CASE StartGui \/ StartPeer \/ SaveGraph \/ Stop
  BY <1>1, <1>3, StartGuiKept, StartPeerKept, SaveGraphKept, StopKept
<1>4. CASE app = "gui" /\ Open /\ Shown
  <2>. current \in DOMAIN graphs
    BY <1>4 DEF Open
  <2>1. CASE AddNode
    BY <1>1, <1>4, <2>1, AddNodeKept
  <2>2. ASSUME NEW id, DeleteNode(id) \/ DeleteByKey(id) PROVE Kept'
    <3>1. /\ \/ ShowAndPush(Without(graphs[current], {id}))
             \/ Show(Without(graphs[current], {id})) /\ undo' = undo
          /\ UNCHANGED <<use, app, current, list, evals, db, disk, births>>
      BY <2>2 DEF DeleteNode, DeleteByKey
    <3>2. QED
      BY <1>1, <1>4, <3>1, DeleteNodeKept
  <2>3. ASSUME NEW id \in 1 .. 2, ImportScm(id) PROVE Kept'
    BY <1>1, <1>4, <2>3, ImportScmKept
  <2>4. ASSUME NEW ids, PeerLost(ids) PROVE Kept'
    <3>1. /\ Show(Without(graphs[current], ids)) /\ undo' = undo
          /\ UNCHANGED <<use, app, current, list, evals, db, disk, births>>
      BY <2>4 DEF PeerLost
    <3>2. QED
      BY <1>1, <1>4, <3>1, DeleteNodeKept
  <2>5. QED
    BY <1>4, <2>1, <2>2, <2>3, <2>4 DEF Shown
<1>5. CASE \E c \in Names : NewCanvas(c) \/ SwitchCanvas(c) \/ DeleteCanvas(c) \/ CreateCanvas(c)
  BY <1>1, <1>5, NewCanvasKept, SwitchCanvasKept, DeleteCanvasKept, CreateCanvasKept
<1>6. CASE \E c \in DOMAIN graphs : OnCanvas(c)
  BY <1>1, <1>6, MakeNodeKept, DropNodeKept, ComputeNodeKept DEF OnCanvas
<1>7. CASE \E e \in evals : ApplyResult(e)
  BY <1>1, <1>7, ApplyResultKept
<1>8. CASE Undo \/ Redo
  BY <1>1, <1>8, UndoKept
<1>9. QED
  BY <1>1, <1>2, <1>3, <1>4, <1>5, <1>6, <1>7, <1>8 DEF Next

-----------------------------------------------------------------------------
(***************************************************************************)
(* One canvas, without undo and import                                     *)
(***************************************************************************)

\* A graph in memory: what a delivery made is marked, and a node shows nothing or
\* its own result.
OwnGraph(g) ==
  \A id \in Ids(g) : /\ g.nodes[id].remote => g.nodes[id].phantom
                     /\ g.nodes[id].shows \in {None, g.nodes[id].birth}

\* A graph in the database: no node of a delivery, no results.
SavedGraph(g) == \A id \in Ids(g) : ~ g.nodes[id].remote /\ g.nodes[id].shows = None

\* The number of an evaluation is not given again; a node that has it is the one
\* that was evaluated.
EvalFits(e, g) ==
  /\ e.id < g.next
  /\ e.id \in Ids(g) => g.nodes[e.id].birth = e.birth

SteadyKept ==
  Steady =>
    /\ DOMAIN graphs \subseteq {Default}
    /\ DOMAIN db \subseteq {Default}
    /\ DOMAIN disk \subseteq {Default}
    /\ \A c \in DOMAIN graphs : OwnGraph(graphs[c])
    /\ \A e \in evals : \A c \in DOMAIN graphs : EvalFits(e, graphs[c])
    /\ \A c \in DOMAIN db : SavedGraph(db[c])
    /\ \A c \in DOMAIN disk : SavedGraph(disk[c])

LEMMA SavedIsOwn ==
  ASSUME NEW g, SavedGraph(g) PROVE OwnGraph(g)
BY DEF SavedGraph, OwnGraph

LEMMA OwnIsSaved ==
  ASSUME NEW g \in FreshGraph, OwnGraph(g) PROVE SavedGraph(Saved(g))
<1>1. /\ Ids(Saved(g)) = Ids(g) \ Phantoms(g)
      /\ \A id \in Ids(Saved(g)) : Saved(g).nodes[id] = [g.nodes[id] EXCEPT !.shows = None]
  BY SavedIsFresh
<1>2. g.nodes \in [Ids(g) -> Node]
  BY GraphFields DEF FreshGraph
<1>3. ASSUME NEW id \in Ids(Saved(g))
      PROVE  ~ Saved(g).nodes[id].remote /\ Saved(g).nodes[id].shows = None
  <2>1. id \in Ids(g) /\ ~ g.nodes[id].phantom
    BY <1>1 DEF Phantoms
  <2>2. ~ g.nodes[id].remote
    BY <2>1 DEF OwnGraph
  <2>3. g.nodes[id] \in Node
    BY <1>2, <2>1
  <2>4. QED
    BY <1>1, <2>2, <2>3 DEF Node
<1>4. QED
  BY <1>3 DEF SavedGraph

LEMMA WithoutIsOwn ==
  ASSUME NEW g \in FreshGraph, OwnGraph(g), NEW ids
  PROVE  /\ OwnGraph(Without(g, ids))
         /\ \A e : EvalFits(e, g) => EvalFits(e, Without(g, ids))
BY WithoutIsFresh DEF OwnGraph, EvalFits

LEMMA WithIsOwn ==
  ASSUME Kept, births < use.births, NEW g \in FreshGraph, OwnGraph(g), NEW remote \in BOOLEAN
  PROVE  /\ OwnGraph(With(g, Newborn(remote)))
         /\ \A e \in evals : EvalFits(e, g) => EvalFits(e, With(g, Newborn(remote)))
<1>1. Newborn(remote) \in Node
  BY NewbornIsNode
<1>. DEFINE to == With(g, Newborn(remote))
<1>2. /\ to.next = g.next + 1 /\ g.next \notin Ids(g) /\ Ids(to) = Ids(g) \cup {g.next}
      /\ to.nodes[g.next] = Newborn(remote)
      /\ \A id \in Ids(g) : to.nodes[id] = g.nodes[id]
  BY <1>1, WithIsFresh
<1>3. /\ Newborn(remote).remote = remote /\ Newborn(remote).phantom = remote
      /\ Newborn(remote).shows = None
  BY DEF Newborn
<1>4. g.next \in Nat
  BY GraphFields DEF FreshGraph, Numbers
<1>. HIDE DEF to
<1>5. OwnGraph(to)
  BY <1>2, <1>3 DEF OwnGraph
<1>6. ASSUME NEW e \in evals, EvalFits(e, g) PROVE EvalFits(e, to)
  <2>1. e.id \in Nat
    BY DEF Kept, Numbers
  <2>2. e.id < g.next /\ e.id # g.next /\ e.id < to.next
    BY <1>2, <1>4, <1>6, <2>1 DEF EvalFits
  <2>3. QED
    BY <1>2, <1>6, <2>2 DEF EvalFits
<1>7. QED
  BY <1>5, <1>6 DEF to

\* A step that changes one graph and the evaluations.
LEMMA OneGraphSteady ==
  ASSUME SteadyKept, Steady, use' = use, NEW c \in DOMAIN graphs, NEW g,
         graphs' = [graphs EXCEPT ![c] = g], db' = db, disk' = disk,
         OwnGraph(g), \A e \in evals' : EvalFits(e, g)
  PROVE  SteadyKept'
<1>1. DOMAIN graphs' = DOMAIN graphs /\ DOMAIN graphs \subseteq {c}
  BY DEF SteadyKept
<1>2. \A d \in DOMAIN graphs' : graphs'[d] = g
  BY <1>1
<1>3. \A d \in DOMAIN graphs' : OwnGraph(graphs'[d]) /\ \A e \in evals' : EvalFits(e, graphs'[d])
  BY <1>2
<1>4. /\ \A d \in DOMAIN graphs' : OwnGraph(graphs[d])'
      /\ \A e \in evals' : \A d \in DOMAIN graphs' : EvalFits(e, graphs'[d])
  BY <1>3 DEF OwnGraph, Ids
<1>5. /\ \A d \in DOMAIN db' : SavedGraph(db[d])'
      /\ \A d \in DOMAIN disk' : SavedGraph(disk[d])'
  BY DEF SteadyKept, SavedGraph, Ids
<1>6. QED
  BY <1>1, <1>4, <1>5 DEF SteadyKept, Steady

\* A step that leaves the graphs and adds no evaluation but fitting ones.
LEMMA NoGraphChanges ==
  ASSUME SteadyKept, Steady, use' = use, graphs' = graphs,
         DOMAIN db' \subseteq {Default}, DOMAIN disk' \subseteq {Default},
         \A c \in DOMAIN db' : SavedGraph(db'[c]),
         \A c \in DOMAIN disk' : SavedGraph(disk'[c]),
         \A e \in evals' : \A c \in DOMAIN graphs : EvalFits(e, graphs[c])
  PROVE  SteadyKept'
BY DEF SteadyKept, Steady

LEMMA SteadyDb ==
  ASSUME Kept, SteadyKept, Steady
  PROVE  /\ DOMAIN DbWithAll \subseteq {Default}
         /\ \A c \in DOMAIN DbWithAll : SavedGraph(DbWithAll[c])
<1>1. /\ DOMAIN DbWithAll = DOMAIN db \cup DOMAIN graphs
      /\ \A c \in DOMAIN DbWithAll :
           DbWithAll[c] = IF c \in DOMAIN graphs THEN Saved(graphs[c]) ELSE db[c]
  BY DEF DbWithAll
<1>2. \A c \in DOMAIN graphs : SavedGraph(Saved(graphs[c]))
  BY CanvasIsFresh, OwnIsSaved DEF SteadyKept
<1>3. QED
  BY <1>1, <1>2 DEF SteadyKept

\* The GUI starts on what was saved.
LEMMA StartGuiSteady ==
  ASSUME Kept, SteadyKept, Steady, StartGui PROVE SteadyKept'
<1>1. PICK o \in Orders(list') : graphs' = Remapped(db', o)
  BY DEF StartGui
<1>2. /\ Sound(db') /\ list' = DOMAIN db' /\ DOMAIN db' \subseteq {Default}
      /\ \A c \in DOMAIN db' : SavedGraph(db'[c])
  <2>1. CASE DOMAIN disk = {}
    <3>1. db' = [c \in {Default} |-> NewGraph(1)] /\ list' = DOMAIN db'
      BY <2>1 DEF StartGui
    <3>2. \A c \in {Default} : Ids(db'[c]) = {}
      BY <3>1, OneCanvasIsSound
    <3>3. DOMAIN db' = {Default} /\ Sound(db')
      BY <3>1, OneCanvasIsSound
    <3>4. QED
      BY <3>1, <3>2, <3>3 DEF SavedGraph
  <2>2. CASE DOMAIN disk # {}
    BY <2>2 DEF StartGui, Kept, SteadyKept
  <2>3. QED
    BY <2>1, <2>2
<1>3. /\ DOMAIN graphs' = DOMAIN db'
      /\ \A c \in DOMAIN db' : \A id \in Ids(graphs'[c]) : \E old \in Ids(db'[c]) :
           graphs'[c].nodes[id] = db'[c].nodes[old]
  BY <1>1, <1>2, RemappedIsSound
<1>4. ASSUME NEW c \in DOMAIN graphs' PROVE OwnGraph(graphs'[c])
  <2>1. \A old \in Ids(db'[c]) : ~ db'[c].nodes[old].remote /\ db'[c].nodes[old].shows = None
    BY <1>2, <1>3 DEF SavedGraph
  <2>2. QED
    BY <1>3, <2>1 DEF OwnGraph
<1>5. disk' = disk /\ evals' = {} /\ use' = use
  BY DEF StartGui
<1>6. DOMAIN disk' \subseteq {Default} /\ \A c \in DOMAIN disk' : SavedGraph(disk'[c])
  BY <1>5 DEF SteadyKept
<1>7. QED
  BY <1>2, <1>3, <1>4, <1>5, <1>6 DEF SteadyKept, Steady

LEMMA StartPeerSteady ==
  ASSUME Kept, SteadyKept, Steady, StartPeer PROVE SteadyKept'
<1>1. /\ db' = disk /\ disk' = disk /\ evals' = {} /\ use' = use
      /\ graphs' = IF DOMAIN disk = {} THEN [c \in {Default} |-> NewGraph(1)] ELSE disk
  BY DEF StartPeer
<1>2. DOMAIN graphs' \subseteq {Default} /\ \A c \in DOMAIN graphs' : SavedGraph(graphs'[c])
  <2>1. CASE DOMAIN disk = {}
    <3>1. \A c \in {Default} : Ids(graphs'[c]) = {}
      BY <1>1, <2>1, OneCanvasIsSound
    <3>2. DOMAIN graphs' = {Default}
      BY <1>1, <2>1
    <3>3. QED
      BY <3>1, <3>2 DEF SavedGraph
  <2>2. CASE DOMAIN disk # {}
    BY <1>1, <2>2 DEF SteadyKept
  <2>3. QED
    BY <2>1, <2>2
<1>3. \A c \in DOMAIN graphs' : OwnGraph(graphs'[c])
  BY <1>2, SavedIsOwn
<1>4. /\ DOMAIN disk \subseteq {Default} /\ \A c \in DOMAIN disk : SavedGraph(disk[c])
  BY DEF SteadyKept
<1>5. QED
  BY <1>1, <1>2, <1>3, <1>4 DEF SteadyKept, Steady

LEMMA StopSteady ==
  ASSUME Kept, SteadyKept, Steady, Stop PROVE SteadyKept'
<1>1. /\ graphs' = NoGraphs /\ db' = NoGraphs /\ evals' = {} /\ use' = use
      /\ disk' \in {disk, DbWithAll}
  BY DEF Stop
<1>2. DOMAIN disk' \subseteq {Default} /\ \A c \in DOMAIN disk' : SavedGraph(disk'[c])
  BY <1>1, SteadyDb DEF SteadyKept
<1>3. DOMAIN graphs' = {} /\ DOMAIN db' = {}
  BY <1>1, NoGraphsIsSound
<1>4. QED
  BY <1>1, <1>2, <1>3 DEF SteadyKept, Steady

\* Nodes leave a graph.
LEMMA WithoutSteady ==
  ASSUME Kept, SteadyKept, Steady, NEW c \in DOMAIN graphs, NEW ids,
         graphs' = [graphs EXCEPT ![c] = Without(graphs[c], ids)],
         UNCHANGED <<use, evals, db, disk>>
  PROVE  SteadyKept'
<1>1. graphs[c] \in FreshGraph /\ OwnGraph(graphs[c]) /\ \A e \in evals : EvalFits(e, graphs[c])
  BY CanvasIsFresh DEF SteadyKept
<1>2. /\ OwnGraph(Without(graphs[c], ids))
      /\ \A e \in evals' : EvalFits(e, Without(graphs[c], ids))
  BY <1>1, WithoutIsOwn
<1>3. QED
  BY <1>2, OneGraphSteady

\* A node is made.
LEMMA WithSteady ==
  ASSUME Kept, SteadyKept, Steady, NEW c \in DOMAIN graphs, NEW remote \in BOOLEAN,
         births < use.births,
         graphs' = [graphs EXCEPT ![c] = With(graphs[c], Newborn(remote))],
         UNCHANGED <<use, evals, db, disk>>
  PROVE  SteadyKept'
<1>1. graphs[c] \in FreshGraph /\ OwnGraph(graphs[c]) /\ \A e \in evals : EvalFits(e, graphs[c])
  BY CanvasIsFresh DEF SteadyKept
<1>2. /\ OwnGraph(With(graphs[c], Newborn(remote)))
      /\ \A e \in evals' : EvalFits(e, With(graphs[c], Newborn(remote)))
  BY <1>1, WithIsOwn
<1>3. QED
  BY <1>2, OneGraphSteady

LEMMA ComputeNodeSteady ==
  ASSUME Kept, SteadyKept, Steady, NEW c \in DOMAIN graphs, NEW id \in Ids(graphs[c]),
         ComputeNode(c, id)
  PROVE  SteadyKept'
<1>. DEFINE new == [id |-> id, birth |-> graphs[c].nodes[id].birth]
<1>1. evals' = evals \cup {new} /\ UNCHANGED <<use, graphs, db, disk>>
  BY DEF ComputeNode
<1>2. \A d \in DOMAIN graphs : d = c
  BY DEF SteadyKept
<1>3. EvalFits(new, graphs[c])
  <2>1. id < graphs[c].next
    BY CanvasIsFresh DEF FreshGraph, Fresh
  <2>2. QED
    BY <2>1 DEF EvalFits
<1>. HIDE DEF new
<1>4. \A e \in evals' : \A d \in DOMAIN graphs : EvalFits(e, graphs[d])
  BY <1>1, <1>2, <1>3 DEF SteadyKept
<1>5. /\ DOMAIN db' \subseteq {Default} /\ DOMAIN disk' \subseteq {Default}
      /\ \A d \in DOMAIN db' : SavedGraph(db'[d])
      /\ \A d \in DOMAIN disk' : SavedGraph(disk'[d])
  BY <1>1 DEF SteadyKept
<1>6. QED
  BY <1>1, <1>4, <1>5, NoGraphChanges

LEMMA ApplyResultSteady ==
  ASSUME Kept, SteadyKept, Steady, NEW e \in evals, ApplyResult(e)
  PROVE  SteadyKept'
<1>1. /\ evals' = evals \ {e} /\ UNCHANGED <<use, db, disk>>
      /\ \/ graphs' = graphs
         \/ \E c \in Holders(e.id) : graphs' = [graphs EXCEPT ![c].nodes[e.id].shows = e.birth]
  BY DEF ApplyResult
<1>2. /\ DOMAIN db' \subseteq {Default} /\ DOMAIN disk' \subseteq {Default}
      /\ \A d \in DOMAIN db' : SavedGraph(db'[d])
      /\ \A d \in DOMAIN disk' : SavedGraph(disk'[d])
  BY <1>1 DEF SteadyKept
<1>3. CASE graphs' = graphs
  <2>1. \A x \in evals' : \A d \in DOMAIN graphs : EvalFits(x, graphs[d])
    BY <1>1 DEF SteadyKept
  <2>2. QED
    BY <1>1, <1>2, <1>3, <2>1, NoGraphChanges
<1>4. ASSUME NEW c \in Holders(e.id),
             graphs' = [graphs EXCEPT ![c].nodes[e.id].shows = e.birth]
      PROVE  SteadyKept'
  <2>. DEFINE h == graphs[c]
              g == [h EXCEPT !.nodes[e.id].shows = e.birth]
  <2>1. c \in DOMAIN graphs /\ e.id \in Ids(h)
    BY DEF Holders
  <2>2. h \in FreshGraph /\ OwnGraph(h) /\ \A x \in evals : EvalFits(x, h)
    BY <2>1, CanvasIsFresh DEF SteadyKept
  <2>3. h.nodes \in [Ids(h) -> Node] /\ h.nodes[e.id].birth = e.birth
    <3>1. h.nodes \in [Ids(h) -> Node]
      BY <2>2, GraphFields DEF FreshGraph
    <3>2. EvalFits(e, h)
      BY <2>2
    <3>3. QED
      BY <2>1, <3>1, <3>2 DEF EvalFits
  <2>4. graphs' = [graphs EXCEPT ![c] = g]
    BY <1>4
  <2>5. e.birth \in 1 .. use.births
    BY DEF Kept
  <2>. HIDE DEF h
  <2>6. /\ g.next = h.next /\ Ids(g) = Ids(h)
        /\ \A k \in Ids(h) : g.nodes[k] =
             IF k = e.id THEN [h.nodes[k] EXCEPT !.shows = e.birth] ELSE h.nodes[k]
    BY <2>1, <2>2, <2>5, ShowsIsFresh
  <2>. HIDE DEF g
  <2>7. ASSUME NEW k \in Ids(g)
        PROVE  /\ g.nodes[k].birth = h.nodes[k].birth
               /\ g.nodes[k].remote => g.nodes[k].phantom
               /\ g.nodes[k].shows \in {None, g.nodes[k].birth}
    <3>1. h.nodes[k] \in Node
      BY <2>3, <2>6
    <3>2. CASE k = e.id
      <4>1. g.nodes[k] = [h.nodes[k] EXCEPT !.shows = e.birth]
        BY <2>6, <3>2
      <4>2. /\ g.nodes[k].birth = h.nodes[k].birth /\ g.nodes[k].remote = h.nodes[k].remote
            /\ g.nodes[k].phantom = h.nodes[k].phantom /\ g.nodes[k].shows = e.birth
        BY <3>1, <4>1 DEF Node
      <4>3. h.nodes[k].remote => h.nodes[k].phantom
        BY <2>2, <2>6 DEF OwnGraph
      <4>4. QED
        BY <2>3, <3>2, <4>2, <4>3
    <3>3. CASE k # e.id
      <4>1. g.nodes[k] = h.nodes[k]
        BY <2>6, <3>3
      <4>2. QED
        BY <2>2, <2>6, <4>1 DEF OwnGraph
    <3>4. QED
      BY <3>2, <3>3
  <2>8. OwnGraph(g)
    BY <2>7 DEF OwnGraph
  <2>9. \A x \in evals' : EvalFits(x, g)
    BY <1>1, <2>2, <2>6, <2>7 DEF EvalFits
  <2>10. QED
    BY <1>1, <2>1, <2>4, <2>8, <2>9, OneGraphSteady
<1>5. QED
  BY <1>1, <1>3, <1>4

LEMMA SteadyNext == Kept /\ SteadyKept /\ [Next]_vars => SteadyKept'
<1>1. SUFFICES ASSUME Kept, SteadyKept, [Next]_vars PROVE SteadyKept'
  OBVIOUS
<1>2. use' = use
  BY <1>1 DEF Next, vars, StartGui, StartPeer, SaveGraph, Stop, Shown, AddNode, Undo, Redo,
     DeleteNode, DeleteByKey, ImportScm, PeerLost, NewCanvas, SwitchCanvas, DeleteCanvas,
     CreateCanvas, OnCanvas, MakeNode, DropNode, ComputeNode, ApplyResult
<1>3. CASE ~ Steady
  BY <1>2, <1>3 DEF SteadyKept, Steady
<1>4. CASE Steady
  <2>1. CASE UNCHANGED vars
    BY <1>1, <2>1 DEF vars, SteadyKept, Steady
  <2>2. CASE StartGui \/ StartPeer \/ Stop
    BY <1>1, <1>4, <2>2, StartGuiSteady, StartPeerSteady, StopSteady
  <2>3. CASE SaveGraph
    <3>1. /\ db' = DbWithAll /\ disk' = DbWithAll /\ evals' = evals /\ graphs' = graphs
      BY <2>3 DEF SaveGraph
    <3>2. \A e \in evals' : \A c \in DOMAIN graphs : EvalFits(e, graphs[c])
      BY <1>1, <1>4, <3>1 DEF SteadyKept
    <3>3. QED
      BY <1>1, <1>2, <1>4, <3>1, <3>2, SteadyDb, NoGraphChanges
  <2>4. CASE app = "gui" /\ Open /\ Shown
    <3>1. current \in DOMAIN graphs
      BY <2>4 DEF Open
    <3>2. CASE AddNode
      <4>1. /\ births < use.births
            /\ graphs' = [graphs EXCEPT ![current] = With(graphs[current], Newborn(FALSE))]
            /\ UNCHANGED <<use, evals, db, disk>>
        BY <3>2 DEF AddNode, ShowAndPush, Show
      <4>2. FALSE \in BOOLEAN
        OBVIOUS
      <4>3. QED
        BY <1>1, <1>4, <3>1, <4>1, <4>2, WithSteady
    <3>3. ASSUME NEW ids,
                 graphs' = [graphs EXCEPT ![current] = Without(graphs[current], ids)],
                 UNCHANGED <<use, evals, db, disk>>
          PROVE  SteadyKept'
      BY <1>1, <1>4, <3>1, <3>3, WithoutSteady
    <3>4. ASSUME NEW id, DeleteNode(id) \/ DeleteByKey(id) PROVE SteadyKept'
      BY <3>3, <3>4 DEF DeleteNode, DeleteByKey, ShowAndPush, Show
    <3>5. ASSUME NEW ids, PeerLost(ids) PROVE SteadyKept'
      BY <3>3, <3>5 DEF PeerLost, Show
    <3>6. \A id : ~ ImportScm(id)
      BY <1>4 DEF Steady, ImportScm, MayAct
    <3>7. QED
      BY <2>4, <3>2, <3>4, <3>5, <3>6 DEF Shown
  <2>5. ASSUME NEW c \in Names,
               NewCanvas(c) \/ SwitchCanvas(c) \/ DeleteCanvas(c) \/ CreateCanvas(c)
        PROVE  SteadyKept'
    <3>1. ~ NewCanvas(c) /\ ~ CreateCanvas(c)
      BY <1>4 DEF Steady, NewCanvas, CreateCanvas, MayAct
    <3>2. CASE SwitchCanvas(c)
      BY <1>1, <3>2 DEF SwitchCanvas, SteadyKept, Steady
    <3>3. ~ DeleteCanvas(c)
      <4>1. SUFFICES ASSUME DeleteCanvas(c) PROVE FALSE
        OBVIOUS
      <4>2. app = "gui" /\ c \in list /\ Cardinality(list) > 1
        BY <4>1 DEF DeleteCanvas, MayAct, GuiOps, PeerOps, BothOps
      <4>3. list = {Default}
        BY <1>1, <1>4, <4>2 DEF Kept, SteadyKept, Steady, NoneBeside
      <4>4. Cardinality({Default}) = 1
        BY FS_Singleton
      <4>5. QED
        BY <4>2, <4>3, <4>4
    <3>4. QED
      BY <2>5, <3>1, <3>2, <3>3
  <2>6. ASSUME NEW c \in DOMAIN graphs, OnCanvas(c) PROVE SteadyKept'
    <3>1. ASSUME NEW op \in {"create", "deliver"}, MakeNode(c, op) PROVE SteadyKept'
      <4>1. /\ births < use.births
            /\ graphs' = [graphs EXCEPT ![c] = With(graphs[c], Newborn(op = "deliver"))]
            /\ UNCHANGED <<use, evals, db, disk>>
        BY <3>1 DEF MakeNode
      <4>2. (op = "deliver") \in BOOLEAN
        OBVIOUS
      <4>3. QED
        BY <1>1, <1>4, <4>1, <4>2, WithSteady
    <3>2. ASSUME NEW id \in Ids(graphs[c]), DropNode(c, id) PROVE SteadyKept'
      <4>1. /\ graphs' = [graphs EXCEPT ![c] = Without(graphs[c], {id})]
            /\ UNCHANGED <<use, evals, db, disk>>
        BY <3>2 DEF DropNode
      <4>2. QED
        BY <1>1, <1>4, <4>1, WithoutSteady
    <3>3. ASSUME NEW id \in Ids(graphs[c]), ComputeNode(c, id) PROVE SteadyKept'
      BY <1>1, <1>4, <3>3, ComputeNodeSteady
    <3>4. QED
      BY <2>6, <3>1, <3>2, <3>3 DEF OnCanvas
  <2>7. ASSUME NEW e \in evals, ApplyResult(e) PROVE SteadyKept'
    BY <1>1, <1>4, <2>7, ApplyResultSteady
  <2>8. ~ Undo /\ ~ Redo
    BY <1>4 DEF Steady, Undo, Redo, MayAct
  <2>9. QED
    BY <1>1, <2>1, <2>2, <2>3, <2>4, <2>5, <2>6, <2>7, <2>8 DEF Next
<1>5. QED
  BY <1>3, <1>4

LEMMA SteadyInit == Init => SteadyKept
<1>1. SUFFICES ASSUME Init PROVE SteadyKept
  OBVIOUS
<1>2. DOMAIN graphs = {} /\ DOMAIN db = {} /\ DOMAIN disk = {}
  BY <1>1, NoGraphsIsSound DEF Init
<1>3. QED
  BY <1>2 DEF SteadyKept

-----------------------------------------------------------------------------
(***************************************************************************)
(* Theorems                                                                *)
(***************************************************************************)

\* In every behaviour, of every use and any number of canvases and nodes: the
\* types are right, the undo history is bounded, next numbers are free.
LEMMA CanvasInvariant == Spec => [](Kept /\ SteadyKept)
<1>1. Init => Kept /\ SteadyKept
  BY InitKept, SteadyInit
<1>2. Kept /\ SteadyKept /\ [Next]_vars => (Kept /\ SteadyKept)'
  BY NextKept, SteadyNext
<1>3. QED
  BY <1>1, <1>2, PTL DEF Spec

LEMMA SoundIsOK ==
  ASSUME NEW gs, Sound(gs)
  PROVE  GraphsOK(gs) /\ \A c \in DOMAIN gs : Fresh(gs[c])
BY GraphFields DEF Sound, GraphsOK, FreshGraph

LEMMA KeptIsSound == Kept /\ SteadyKept => CanvasesAreSound
<1>1. SUFFICES ASSUME Kept, SteadyKept PROVE CanvasesAreSound
  OBVIOUS
<1>2. /\ undo.states \in Seq(FreshGraph) /\ Len(undo.states) <= MaxUndo
      /\ undo.at \in 0 .. Len(undo.states)
  BY <1>1 DEF Kept, SoundHistory
<1>3. \A i \in DOMAIN undo.states : undo.states[i] \in FreshGraph
  BY <1>2
<1>4. \A i \in DOMAIN undo.states : GraphOK(undo.states[i]) /\ Fresh(undo.states[i])
  BY <1>3, GraphFields DEF FreshGraph
<1>5. TypeOK
  BY <1>1, <1>2, <1>4, SoundIsOK DEF Kept, TypeOK, Numbers
<1>6. ShownIsOpen
  BY <1>1 DEF Kept, ShownIsOpen, NoneBeside, Open
<1>7. NextIsFresh
  BY <1>1, <1>4, SoundIsOK DEF Kept, NextIsFresh
<1>8. PhantomsNotSaved
  BY <1>1 DEF SteadyKept, SavedGraph, PhantomsNotSaved
<1>9. QED
  BY <1>5, <1>6, <1>7, <1>8 DEF CanvasesAreSound

\* Whatever is created, deleted, imported, undone, saved and started again, the
\* types are right, the history is bounded, what is shown is open, a new node
\* replaces no other one and phantoms are not saved.
THEOREM CanvasesAreAlwaysSound == Spec => []CanvasesAreSound
<1>1. Kept /\ SteadyKept => CanvasesAreSound
  BY KeptIsSound
<1>2. QED
  BY <1>1, CanvasInvariant, PTL

\* On one canvas, without undo and import, a result never appears on a node that
\* was made after the evaluated one under its number.
THEOREM ResultsAlwaysReachTheirNode == Spec => []ResultsReachTheirNode
<1>1. Kept /\ SteadyKept => ResultsReachTheirNode
  BY DEF SteadyKept, OwnGraph, ResultsReachTheirNode
<1>2. QED
  BY <1>1, CanvasInvariant, PTL

\* The step that starts the GUI gives every node a number of its own and loses no
\* node, in whatever order the database returns the canvases.
THEOREM StartAlwaysGivesEachItsOwn == Spec => StartGivesEachItsOwn
<1>. DEFINE Good == app = "none" /\ app' = "gui" =>
                      /\ IdsUnique'
                      /\ \A c \in DOMAIN disk : Births(graphs'[c]) = Births(disk[c])
<1>1. Kept /\ [Next]_vars => Good
  <2>1. SUFFICES ASSUME Kept, [Next]_vars, app = "none", app' = "gui"
                 PROVE  /\ IdsUnique'
                        /\ \A c \in DOMAIN disk : Births(graphs'[c]) = Births(disk[c])
    OBVIOUS
  <2>2. StartGui
    BY <2>1 DEF Next, vars, StartPeer, SaveGraph, Stop, Shown, AddNode, Undo, Redo,
       DeleteNode, DeleteByKey, ImportScm, PeerLost, NewCanvas, SwitchCanvas, DeleteCanvas,
       CreateCanvas, OnCanvas, MakeNode, DropNode, ComputeNode, ApplyResult
  <2>3. PICK o \in Orders(list') : graphs' = Remapped(db', o)
    BY <2>2 DEF StartGui
  <2>4. Sound(db') /\ list' = DOMAIN db' /\ (DOMAIN disk # {} => db' = disk)
    <3>1. CASE DOMAIN disk = {}
      BY <2>2, <3>1, OneCanvasIsSound DEF StartGui
    <3>2. CASE DOMAIN disk # {}
      BY <2>1, <2>2, <3>2 DEF StartGui, Kept
    <3>3. QED
      BY <3>1, <3>2
  <2>5. /\ DOMAIN graphs' = DOMAIN db'
        /\ \A c, d \in DOMAIN db' : c # d => Ids(graphs'[c]) \cap Ids(graphs'[d]) = {}
        /\ \A c \in DOMAIN db' : \A id \in Ids(graphs'[c]) : \E old \in Ids(db'[c]) :
             graphs'[c].nodes[id] = db'[c].nodes[old]
        /\ \A c \in DOMAIN db' : \A old \in Ids(db'[c]) : \E id \in Ids(graphs'[c]) :
             graphs'[c].nodes[id] = db'[c].nodes[old]
    <3>. DEFINE gs == db'
                to == graphs'
    <3>1. Sound(gs) /\ o \in Orders(DOMAIN gs) /\ to = Remapped(gs, o)
      BY <2>3, <2>4
    <3>. HIDE DEF gs, to
    <3>2. /\ DOMAIN to = DOMAIN gs
          /\ \A c, d \in DOMAIN gs : c # d => Ids(to[c]) \cap Ids(to[d]) = {}
      BY <3>1, RemappedIsSound
    <3>3. \A c \in DOMAIN gs : \A id \in Ids(to[c]) : \E old \in Ids(gs[c]) :
            to[c].nodes[id] = gs[c].nodes[old]
      BY <3>1, RemappedIsSound
    <3>4. \A c \in DOMAIN gs : \A old \in Ids(gs[c]) : \E id \in Ids(to[c]) :
            to[c].nodes[id] = gs[c].nodes[old]
      BY <3>1, RemappedIsSound
    <3>5. QED
      BY <3>2, <3>3, <3>4 DEF gs, to
  <2>6. IdsUnique'
    BY <2>5 DEF IdsUnique, Ids
  <2>7. ASSUME NEW c \in DOMAIN disk PROVE Births(graphs'[c]) = Births(disk[c])
    <3>1. db' = disk /\ c \in DOMAIN db'
      BY <2>4, <2>7
    <3>2. \A b : b \in Births(graphs'[c]) <=> b \in Births(disk[c])
      BY <2>5, <3>1 DEF Births
    <3>3. QED
      BY <3>2 DEF Births
  <2>8. QED
    BY <2>6, <2>7
<1>2. QED
  BY <1>1, CanvasInvariant, PTL DEF Spec, StartGivesEachItsOwn

-----------------------------------------------------------------------------
(***************************************************************************)
(* The invariant                                                           *)
(***************************************************************************)

\* Values are never the mark of a key without one.
Val == Seq(Nat \ {0})
Job == [key : Keys, value : Val, want : Val, step : {"delete", "create"}]
Dump == [state : {"none", "torn", "whole"}, kv : [Keys -> Seq(Val)],
         shapes : [Shapes -> Files \cup {Absent}], sure : SUBSET (Keys \X Val)]

StoreTypes ==
  /\ up \in BOOLEAN /\ fresh \in BOOLEAN
  /\ kv \in [Keys -> Seq(Val)]
  /\ job \in [Threads -> Job \cup {NoJob}]
  /\ importing \in [Keys -> Seq(Val)]
  /\ shapes \in [Shapes -> Files \cup {Absent}] /\ shapeRows \in [Shapes -> Files \cup {Absent}]
  /\ shapeFiles \in [Files -> Shapes \cup {Absent}]
  /\ met \in SUBSET (Shapes \X Files) /\ doomed \in SUBSET Files
  /\ unsaved \in Dump /\ dbFile \in Dump
  /\ written \in Nat /\ dbImports \in Nat /\ crashes \in Nat /\ saves \in Nat
  /\ latest \in [Keys -> Val \cup {Nothing}]

\* Threads that erased a key's rows and are about to create one, and the most rows
\* a key can have.
Creating(k) == {t \in Threads : job[t] # NoJob /\ job[t].key = k /\ job[t].step = "create"}
Imported(k) == Cardinality(Writers[k]) * dbImports
Most(k) == Cardinality(Writers[k]) * (1 + dbImports)

\* A job is on a key that the thread writes; every row was created by a writer or
\* came with an import.
RowsAreCounted ==
  /\ \A t \in Threads : job[t] # NoJob => t \in Writers[job[t].key]
  /\ \A k \in Keys : /\ Len(kv[k]) + Cardinality(Creating(k)) + Len(importing[k]) <= Most(k)
                     /\ Len(importing[k]) <= Imported(k)
                     /\ Len(dbFile.kv[k]) <= Most(k)
                     /\ Len(unsaved.kv[k]) <= Most(k)

\* A key of one writer has no row exactly while that is about to create it.
Tracked(k) == Sole(k) /\ dbImports = 0
LatestRow(k) == IF latest[k] = Nothing THEN << >> ELSE <<latest[k]>>
SoleWriterIsTracked ==
  /\ \A t \in Threads : job[t] # NoJob /\ Tracked(job[t].key) => job[t].want = job[t].value
  /\ up => \A k \in Keys : Tracked(k) =>
             kv[k] = IF Creating(k) = {} THEN LatestRow(k) ELSE << >>

\* What a dump is sure of is in its rows.
SureIsThere(d) ==
  \A s \in d.sure : d.kv[s[1]] # << >> /\ d.kv[s[1]][1] = s[2]

\* db.json and what is about to be written: what they are sure of.
DumpsAreSound ==
  /\ SureIsThere(unsaved) /\ SureIsThere(dbFile)
  /\ dbFile.state # "whole" => dbFile.sure = {}
  /\ unsaved # NoDump => saves > 0 /\ unsaved.state = "whole"
  /\ dbFile.state = "torn" => saves > 0

\* The file of a node holds its program, or was changed in one of the ways that
\* NodesFindTheirProgram names.
Traced(n, f) == \/ shapeFiles[f] = n
                \/ f \in doomed
                \/ \E m \in Shapes \ {n} : <<m, f>> \in met

RowsAreTraced(rows) ==
  \A n \in Shapes : rows[n] # Absent => <<n, rows[n]>> \in met /\ Traced(n, rows[n])

\* Rows in graph_nodes and in db.json are traced; what is about to be written are those
\* of graph_nodes.
FilesAreTraced ==
  /\ \A n \in Shapes : shapes[n] # Absent => <<n, shapes[n]>> \in met
  /\ RowsAreTraced(shapeRows) /\ RowsAreTraced(dbFile.shapes)
  /\ unsaved # NoDump => unsaved.shapes = shapeRows

\* A stopped program does nothing; one that just started has what was loaded.
RestsOrLoaded ==
  /\ ~ up => (\A t \in Threads : job[t] = NoJob) /\ importing = NoRows /\ unsaved = NoDump
  /\ up /\ fresh => /\ \A t \in Threads : job[t] = NoJob
                    /\ importing = NoRows /\ unsaved = NoDump
                    /\ kv = Loaded.kv /\ shapes = Loaded.shapes

StoreKept ==
  /\ StoreTypes /\ RowsAreCounted /\ SoleWriterIsTracked
  /\ DumpsAreSound /\ FilesAreTraced /\ RestsOrLoaded

-----------------------------------------------------------------------------
(***************************************************************************)
(* Values, rows and jobs                                                   *)
(***************************************************************************)

LEMMA NothingIsNoValue == Nothing \notin Val
<1>1. SUFFICES ASSUME Nothing \in Val PROVE FALSE
  OBVIOUS
<1>2. Nothing \in Seq(Nat \ {0}) /\ Len(Nothing) = 1
  BY <1>1 DEF Val, Nothing
<1>3. Nothing[1] \in Nat \ {0}
  BY <1>2, ElementOfSeq
<1>4. Nothing[1] = 0
  BY DEF Nothing
<1>5. QED
  BY <1>3, <1>4

LEMMA JobIsNoRest == \A r \in Job : r # NoJob
<1>1. ASSUME NEW r \in Job, r = NoJob PROVE FALSE
  <2>1. DOMAIN r = {"key", "value", "want", "step"}
    BY DEF Job
  <2>2. DOMAIN r = {"key"}
    BY <1>1 DEF NoJob
  <2>3. "step" # "key"
    OBVIOUS
  <2>4. QED
    BY <2>1, <2>2, <2>3
<1>2. QED
  BY <1>1

LEMMA NoDumpIsDump ==
  /\ NoDump \in Dump /\ NoRows \in [Keys -> Seq(Val)]
  /\ \A k \in Keys : NoRows[k] = << >> /\ NoDump.kv[k] = << >>
  /\ NoDump.sure = {} /\ NoDump.shapes = NoShapes /\ NoDump.state = "none" /\ NoDump.kv = NoRows
  /\ << >> \in Val /\ << >> \in Seq(Val) /\ Len(<< >>) = 0
<1>1. << >> \in Val /\ << >> \in Seq(Val) /\ Len(<< >>) = 0
  BY EmptySeq DEF Val
<1>2. NoRows \in [Keys -> Seq(Val)] /\ \A k \in Keys : NoRows[k] = << >>
  BY <1>1 DEF NoRows
<1>3. NoDump \in Dump
  BY <1>2 DEF NoDump, NoShapes, Dump
<1>4. QED
  BY <1>1, <1>2, <1>3 DEF NoDump

\* A row more.
LEMMA WithRowIs ==
  ASSUME NEW rows \in Seq(Val), NEW i \in 0 .. Len(rows), NEW value \in Val
  PROVE  /\ WithRow(rows, i, value) \in Seq(Val)
         /\ Len(WithRow(rows, i, value)) = Len(rows) + 1
         /\ rows = << >> => WithRow(rows, i, value) = <<value>>
<1>1. Len(rows) \in Nat
  OBVIOUS
<1>. DEFINE a == SubSeq(rows, 1, i)
            b == SubSeq(rows, i + 1, Len(rows))
<1>2. a \in Seq(Val) /\ Len(a) = i
  <2>1. \A n \in 1 .. i : rows[n] \in Val
    BY <1>1
  <2>2. QED
    BY <1>1, <2>1, SubSeqProperties
<1>3. b \in Seq(Val) /\ Len(b) = Len(rows) - i
  <2>1. \A n \in i + 1 .. Len(rows) : rows[n] \in Val
    BY <1>1
  <2>2. b \in Seq(Val) /\ Len(b) = IF i + 1 <= Len(rows) THEN Len(rows) - (i + 1) + 1 ELSE 0
    BY <1>1, <2>1, SubSeqProperties
  <2>. HIDE DEF b
  <2>3. QED
    BY <1>1, <2>2
<1>4. WithRow(rows, i, value) = a \o <<value>> \o b
  BY DEF WithRow
<1>. HIDE DEF a, b
<1>5. <<value>> \in Seq(Val) /\ Len(<<value>>) = 1
  OBVIOUS
<1>6. a \o <<value>> \in Seq(Val) /\ Len(a \o <<value>>) = i + 1
  BY <1>2, <1>5, ConcatProperties
<1>7. (a \o <<value>>) \o b \in Seq(Val) /\ Len((a \o <<value>>) \o b) = Len(rows) + 1
  <2>1. (a \o <<value>>) \o b \in Seq(Val) /\ Len((a \o <<value>>) \o b) = Len(a \o <<value>>) + Len(b)
    BY <1>3, <1>6, ConcatProperties
  <2>2. QED
    BY <1>1, <1>3, <1>6, <2>1
<1>8. ASSUME rows = << >> PROVE WithRow(rows, i, value) = <<value>>
  <2>1. i = 0 /\ Len(rows) = 0
    BY <1>8
  <2>2. a = << >> /\ b = << >>
    BY <1>2, <1>3, <2>1, EmptySeq
  <2>3. (<< >> \o <<value>>) \o << >> = <<value>>
    BY <1>5, ConcatEmptySeq
  <2>4. QED
    BY <1>4, <2>2, <2>3
<1>9. QED
  BY <1>4, <1>7, <1>8

\* What is read of a key.
LEMMA KvGetIs ==
  ASSUME StoreTypes, NEW k \in Keys
  PROVE  KvGet(k) \in Val
<1>1. kv[k] \in Seq(Val)
  BY DEF StoreTypes
<1>2. CASE kv[k] = << >>
  BY <1>2, NoDumpIsDump DEF KvGet
<1>3. CASE kv[k] # << >>
  <2>1. kv[k][1] \in Val
    BY <1>1, <1>3, EmptySeq, ElementOfSeq
  <2>2. QED
    BY <1>3, <2>1 DEF KvGet
<1>4. QED
  BY <1>2, <1>3

\* An item more, or less.
LEMMA ItemsIn ==
  ASSUME NEW v \in Val
  PROVE  /\ \A n \in Nat \ {0} : Append(v, n) \in Val
         /\ \A i \in 1 .. Len(v) : SubSeq(v, 1, i - 1) \o SubSeq(v, i + 1, Len(v)) \in Val
<1>1. v \in Seq(Nat \ {0}) /\ Len(v) \in Nat
  BY DEF Val
<1>2. \A n \in Nat \ {0} : Append(v, n) \in Val
  BY <1>1, AppendProperties DEF Val
<1>3. ASSUME NEW i \in 1 .. Len(v)
      PROVE  SubSeq(v, 1, i - 1) \o SubSeq(v, i + 1, Len(v)) \in Val
  <2>1. \A n \in 1 .. Len(v) : v[n] \in Nat \ {0}
    BY <1>1
  <2>2. \A n \in 1 .. i - 1 : v[n] \in Nat \ {0}
    BY <1>1, <2>1
  <2>3. \A n \in i + 1 .. Len(v) : v[n] \in Nat \ {0}
    BY <1>1, <2>1
  <2>4. SubSeq(v, 1, i - 1) \in Seq(Nat \ {0})
    BY <1>1, <2>2, SubSeqProperties
  <2>5. SubSeq(v, i + 1, Len(v)) \in Seq(Nat \ {0})
    BY <1>1, <2>3, SubSeqProperties
  <2>6. QED
    BY <2>4, <2>5, ConcatProperties DEF Val
<1>4. QED
  BY <1>2, <1>3

\* The bounds on the rows.
LEMMA MostIs ==
  ASSUME NEW k \in Keys, dbImports \in Nat
  PROVE  /\ IsFiniteSet(Writers[k]) /\ Cardinality(Writers[k]) \in Nat
         /\ Imported(k) \in Nat /\ Most(k) \in Nat
         /\ Most(k) = Cardinality(Writers[k]) + Imported(k)
         /\ dbImports' = dbImports => Most(k)' = Most(k) /\ Imported(k)' = Imported(k)
         /\ dbImports' = dbImports + 1 =>
              Imported(k)' = Most(k) /\ Most(k)' = Most(k) + Cardinality(Writers[k])
         /\ Tracked(k) => Most(k) = 1
<1>1. IsFiniteSet(Writers[k])
  BY StoreAssumption, FS_Subset
<1>. DEFINE n == Cardinality(Writers[k])
<1>2. n \in Nat
  BY <1>1, FS_CardinalityType
<1>3. Imported(k) = n * dbImports /\ Most(k) = n * (1 + dbImports)
  BY DEF Imported, Most
<1>4. Imported(k)' = n * dbImports' /\ Most(k)' = n * (1 + dbImports')
  BY DEF Imported, Most
<1>5. Tracked(k) => n = 1 /\ dbImports = 0
  BY DEF Tracked, Sole
<1>. HIDE DEF n
<1>6. n * dbImports \in Nat /\ n * (1 + dbImports) = n + n * dbImports
  BY <1>2
<1>7. n * (1 + (dbImports + 1)) = n * (1 + dbImports) + n
  BY <1>2
<1>8. n * (dbImports + 1) = n * (1 + dbImports)
  BY <1>2
<1>9. Tracked(k) => Most(k) = 1
  BY <1>3, <1>5
<1>10. QED
  BY <1>1, <1>2, <1>3, <1>4, <1>6, <1>7, <1>8, <1>9 DEF n

\* Those about to create a row are writers of the key.
LEMMA CreatingIs ==
  ASSUME StoreTypes, RowsAreCounted, NEW k \in Keys
  PROVE  /\ IsFiniteSet(Creating(k))
         /\ Cardinality(Creating(k)) \in Nat
         /\ Creating(k) \in SUBSET Writers[k]
         /\ Cardinality(Creating(k)) <= Cardinality(Writers[k])
<1>1. IsFiniteSet(Writers[k])
  BY MostIs DEF StoreTypes
<1>2. Creating(k) \in SUBSET Writers[k]
  BY DEF Creating, RowsAreCounted
<1>3. QED
  BY <1>1, <1>2, FS_Subset, FS_CardinalityType

-----------------------------------------------------------------------------
(***************************************************************************)
(* The files of nodes                                                      *)
(***************************************************************************)

\* A file stays as it is, or is changed in one of the ways: rows stay traced.
LEMMA RowsStayTraced ==
  ASSUME NEW rows \in [Shapes -> Files \cup {Absent}], RowsAreTraced(rows),
         met \subseteq met', doomed \subseteq doomed',
         \A f \in Files : \/ shapeFiles'[f] = shapeFiles[f]
                          \/ f \in doomed'
                          \/ (shapeFiles'[f] \in Shapes /\ <<shapeFiles'[f], f>> \in met')
  PROVE  \A n \in Shapes : rows[n] # Absent => <<n, rows[n]>> \in met' /\ Traced(n, rows[n])'
<1>1. SUFFICES ASSUME NEW n \in Shapes, rows[n] # Absent
               PROVE  <<n, rows[n]>> \in met' /\ Traced(n, rows[n])'
  OBVIOUS
<1>2. rows[n] \in Files /\ <<n, rows[n]>> \in met /\ Traced(n, rows[n])
  BY <1>1 DEF RowsAreTraced
<1>3. Traced(n, rows[n])'
  BY <1>2 DEF Traced
<1>4. QED
  BY <1>2, <1>3

\* What leaves the nodes and the files alone, and starts no save, leaves them traced.
LEMMA FilesUntouched ==
  ASSUME FilesAreTraced, UNCHANGED <<shapes, shapeRows, shapeFiles, dbFile, met, doomed>>,
         unsaved' = unsaved \/ unsaved' = NoDump
  PROVE  FilesAreTraced'
  BY DEF FilesAreTraced, RowsAreTraced, Traced

-----------------------------------------------------------------------------
(***************************************************************************)
(* It holds of the initial states                                          *)
(***************************************************************************)

LEMMA StoreInitKept == StoreInit => StoreKept
<1>. SUFFICES ASSUME StoreInit PROVE StoreKept
  OBVIOUS
<1>. USE DEF StoreInit
<1>1. StoreTypes
  BY NoDumpIsDump DEF StoreTypes, NoShapes
<1>2. \A k \in Keys : Creating(k) = {}
  BY DEF Creating
<1>3. RowsAreCounted
  <2>1. ASSUME NEW k \in Keys
        PROVE  /\ Len(kv[k]) + Cardinality(Creating(k)) + Len(importing[k]) <= Most(k)
               /\ Len(importing[k]) <= Imported(k)
               /\ Len(dbFile.kv[k]) <= Most(k)
               /\ Len(unsaved.kv[k]) <= Most(k)
    <3>1. Most(k) \in Nat /\ Imported(k) \in Nat
      BY <1>1, MostIs DEF StoreTypes
    <3>2. Cardinality(Creating(k)) = 0
      BY <1>2, FS_EmptySet
    <3>3. kv[k] = << >> /\ importing[k] = << >> /\ dbFile.kv[k] = << >> /\ unsaved.kv[k] = << >>
      BY NoDumpIsDump
    <3>4. Len(<< >>) = 0
      BY NoDumpIsDump
    <3>5. QED
      BY <3>1, <3>2, <3>3, <3>4
  <2>2. \A t \in Threads : job[t] = NoJob
    OBVIOUS
  <2>3. QED
    BY <2>1, <2>2 DEF RowsAreCounted
<1>4. SoleWriterIsTracked
  BY <1>2 DEF SoleWriterIsTracked, LatestRow
<1>5. DumpsAreSound
  BY NoDumpIsDump DEF DumpsAreSound, SureIsThere
<1>6. RestsOrLoaded
  BY DEF RestsOrLoaded
<1>7. FilesAreTraced
  <2>1. \A n \in Shapes : NoShapes[n] = Absent
    BY DEF NoShapes
  <2>2. NoDump.shapes = NoShapes
    BY DEF NoDump
  <2>3. QED
    BY <2>1, <2>2 DEF FilesAreTraced, RowsAreTraced
<1>8. QED
  BY <1>1, <1>3, <1>4, <1>5, <1>6, <1>7 DEF StoreKept

-----------------------------------------------------------------------------
(***************************************************************************)
(* A thread sets out to set a key                                          *)
(***************************************************************************)

LEMMA StartKept ==
  ASSUME StoreKept, NEW t \in Threads, NEW k \in Keys, t \in Writers[k], up, Resting(t),
         NEW value \in Val, NEW want \in Val, Tracked(k) => want = value,
         job' = [job EXCEPT ![t] = Setting(k, value, want)], fresh' = FALSE, written' \in Nat,
         UNCHANGED <<up, kv, importing, shapes, shapeRows, shapeFiles, unsaved, dbFile,
                     dbImports, crashes, saves, latest, met, doomed>>
  PROVE  StoreKept'
<1>. DEFINE J == Setting(k, value, want)
<1>1. J \in Job /\ J.key = k /\ J.value = value /\ J.want = want /\ J.step = "delete"
  BY DEF Setting, Job
<1>2. /\ job' \in [Threads -> Job \cup {NoJob}] /\ job'[t] = J
      /\ \A u \in Threads \ {t} : job'[u] = job[u]
  BY <1>1 DEF StoreKept, StoreTypes
<1>. HIDE DEF J
<1>3. \A l \in Keys : Creating(l)' = Creating(l)
  BY <1>1, <1>2 DEF Creating, Resting
<1>4. StoreTypes'
  BY <1>2 DEF StoreKept, StoreTypes
<1>5. RowsAreCounted'
  <2>1. ASSUME NEW u \in Threads, job'[u] # NoJob PROVE u \in Writers[job'[u].key]
    <3>1. CASE u = t
      BY <3>1, <1>1, <1>2
    <3>2. CASE u # t
      BY <3>2, <1>2, <2>1 DEF StoreKept, RowsAreCounted
    <3>3. QED
      BY <3>1, <3>2
  <2>2. \A l \in Keys : Most(l)' = Most(l) /\ Imported(l)' = Imported(l)
    BY DEF Most, Imported
  <2>3. QED
    BY <1>3, <2>1, <2>2 DEF StoreKept, RowsAreCounted
<1>6. SoleWriterIsTracked'
  <2>1. \A l \in Keys : Tracked(l)' = Tracked(l) /\ LatestRow(l)' = LatestRow(l)
    BY DEF Tracked, LatestRow
  <2>2. ASSUME NEW u \in Threads, job'[u] # NoJob, Tracked(job[u].key)'
        PROVE  job'[u].want = job'[u].value
    <3>1. CASE u = t
      <4>1. Tracked(k)
        BY <3>1, <1>1, <1>2, <2>2 DEF Tracked, Sole
      <4>2. QED
        BY <3>1, <4>1, <1>1, <1>2
    <3>2. CASE u # t
      <4>1. Tracked(job[u].key)
        BY <3>2, <1>2, <2>2 DEF Tracked, Sole
      <4>2. QED
        BY <3>2, <4>1, <1>2, <2>2 DEF StoreKept, SoleWriterIsTracked
    <3>3. QED
      BY <3>1, <3>2
  <2>3. QED
    BY <1>3, <2>1, <2>2 DEF StoreKept, SoleWriterIsTracked
<1>7. DumpsAreSound'
  BY DEF StoreKept, DumpsAreSound, SureIsThere
<1>f. FilesAreTraced'
  BY FilesUntouched DEF StoreKept
<1>8. RestsOrLoaded'
  BY DEF RestsOrLoaded
<1>9. QED
  BY <1>4, <1>5, <1>6, <1>7, <1>8, <1>f DEF StoreKept

LEMMA StoreSetKept ==
  ASSUME StoreKept, NEW t \in Threads, NEW k \in Keys, StoreSet(t, k) PROVE StoreKept'
<1>1. written + 1 \in Nat \ {0} /\ written' = written + 1
  BY DEF StoreKept, StoreTypes, StoreSet
<1>2. <<written + 1>> \in Val
  BY <1>1 DEF Val
<1>3. QED
  BY <1>1, <1>2, StartKept DEF StoreSet, MayWrite

\* The one writer of a key rests: it reads what it wrote last.
LEMMA SoleWriterReads ==
  ASSUME StoreKept, NEW t \in Threads, NEW k \in Keys, MayWrite(t, k), Tracked(k)
  PROVE  KvGet(k) = IF latest[k] = Nothing THEN << >> ELSE latest[k]
<1>1. \A u \in Writers[k] : u = t
  <2>1. IsFiniteSet(Writers[k]) /\ Cardinality(Writers[k]) = 1
    BY MostIs DEF StoreKept, StoreTypes, Tracked, Sole
  <2>2. PICK x : Writers[k] = {x}
    BY <2>1, FS_Singleton
  <2>3. QED
    BY <2>2 DEF MayWrite
<1>2. Creating(k) = {}
  BY <1>1 DEF Creating, StoreKept, RowsAreCounted, MayWrite, Resting
<1>3. kv[k] = LatestRow(k)
  BY <1>2 DEF StoreKept, SoleWriterIsTracked, MayWrite
<1>4. CASE latest[k] = Nothing
  BY <1>3, <1>4 DEF LatestRow, KvGet
<1>5. CASE latest[k] # Nothing
  <2>1. kv[k] = <<latest[k]>>
    BY <1>3, <1>5 DEF LatestRow
  <2>2. kv[k] # << >> /\ kv[k][1] = latest[k]
    BY <2>1
  <2>3. QED
    BY <1>5, <2>2 DEF KvGet
<1>6. QED
  BY <1>4, <1>5

LEMMA StoreAppendKept ==
  ASSUME StoreKept, NEW t \in Threads, NEW k \in Keys, StoreAppend(t, k) PROVE StoreKept'
<1>. DEFINE had == IF latest[k] = Nothing THEN << >> ELSE latest[k]
            value == Append(Appended(k), written + 1)
            want == Append(had, written + 1)
<1>1. written + 1 \in Nat \ {0} /\ written' = written + 1
  BY DEF StoreKept, StoreTypes, StoreAppend
<1>2. Appended(k) = KvGet(k) /\ KvGet(k) \in Val
  BY KvGetIs DEF StoreKept, Appended
<1>3. had \in Val
  BY NoDumpIsDump DEF StoreKept, StoreTypes
<1>4. value \in Val
  BY <1>1, <1>2, ItemsIn
<1>. HIDE DEF had
<1>5. want \in Val
  BY <1>1, <1>3, ItemsIn
<1>6. Tracked(k) => want = value
  BY <1>2, SoleWriterReads DEF had, StoreAppend
<1>7. job' = [job EXCEPT ![t] = Setting(k, value, want)]
  BY DEF StoreAppend, had
<1>. HIDE DEF value, want
<1>8. /\ t \in Writers[k] /\ up /\ Resting(t) /\ fresh' = FALSE /\ written' \in Nat
      /\ UNCHANGED <<up, kv, importing, shapes, shapeRows, shapeFiles, unsaved, dbFile,
                     dbImports, crashes, saves, latest, met, doomed>>
  BY <1>1 DEF StoreAppend, MayWrite
<1>9. QED
  BY <1>4, <1>5, <1>6, <1>7, <1>8, StartKept

LEMMA StoreSpliceKept ==
  ASSUME StoreKept, NEW k \in Keys, NEW i, StoreSplice(k, i) PROVE StoreKept'
<1>. DEFINE rest == SubSeq(KvGet(k), 1, i - 1) \o SubSeq(KvGet(k), i + 1, Len(KvGet(k)))
<1>1. KvGet(k) \in Val
  BY KvGetIs DEF StoreKept
<1>2. rest \in Val
  BY <1>1, ItemsIn DEF StoreSplice
<1>3. job' = [job EXCEPT ![Gui] = Setting(k, rest, rest)]
  BY DEF StoreSplice
<1>. HIDE DEF rest
<1>4. Gui \in Threads /\ written' \in Nat
  BY StoreAssumption DEF StoreSplice, StoreKept, StoreTypes
<1>5. QED
  BY <1>2, <1>3, <1>4, StartKept DEF StoreSplice, MayWrite

-----------------------------------------------------------------------------
(***************************************************************************)
(* Statements on the rows of a key                                         *)
(***************************************************************************)

LEMMA StoreDeleteKept ==
  ASSUME StoreKept, NEW t \in Threads, NEW k \in Keys, StoreDelete(t, k) PROVE StoreKept'
<1>1. StoreTypes'
  BY NoDumpIsDump DEF StoreKept, StoreTypes, StoreDelete
<1>2. \A l \in Keys : Creating(l)' = Creating(l) /\ Most(l)' = Most(l) /\ Imported(l)' = Imported(l)
  BY DEF Creating, Most, Imported, StoreDelete
<1>3. kv'[k] = << >> /\ \A l \in Keys \ {k} : kv'[l] = kv[l]
  BY DEF StoreKept, StoreTypes, StoreDelete
<1>4. latest'[k] = Nothing /\ \A l \in Keys \ {k} : latest'[l] = latest[l]
  BY DEF StoreKept, StoreTypes, StoreDelete
<1>5. RowsAreCounted'
  <2>1. ASSUME NEW l \in Keys
        PROVE  Len(kv'[l]) + Cardinality(Creating(l)) + Len(importing[l]) <= Most(l)
    <3>1. CASE l = k
      <4>1. Len(kv[k]) \in Nat /\ Len(importing[k]) \in Nat /\ Most(k) \in Nat
        BY MostIs DEF StoreKept, StoreTypes
      <4>2. Cardinality(Creating(k)) \in Nat
        BY CreatingIs DEF StoreKept
      <4>3. Len(kv[k]) + Cardinality(Creating(k)) + Len(importing[k]) <= Most(k)
        BY DEF StoreKept, RowsAreCounted
      <4>4. Len(kv'[k]) = 0
        BY <1>3, NoDumpIsDump
      <4>5. QED
        BY <3>1, <4>1, <4>2, <4>3, <4>4
    <3>2. CASE l # k
      BY <3>2, <1>3 DEF StoreKept, RowsAreCounted
    <3>3. QED
      BY <3>1, <3>2
  <2>2. QED
    BY <1>2, <2>1 DEF StoreKept, RowsAreCounted, StoreDelete
<1>6. SoleWriterIsTracked'
  <2>1. \A l \in Keys : Tracked(l)' = Tracked(l)
    BY DEF Tracked, StoreDelete
  <2>2. ASSUME NEW l \in Keys, Tracked(l)
        PROVE  kv'[l] = IF Creating(l)' = {} THEN LatestRow(l)' ELSE << >>
    <3>1. CASE l = k
      <4>1. LatestRow(k)' = << >>
        BY <1>4 DEF LatestRow
      <4>2. QED
        BY <3>1, <4>1, <1>3
    <3>2. CASE l # k
      <4>1. LatestRow(l)' = LatestRow(l)
        BY <3>2, <1>4 DEF LatestRow
      <4>2. up
        BY DEF StoreDelete, MayWrite
      <4>3. QED
        BY <3>2, <4>1, <4>2, <2>2, <1>2, <1>3 DEF StoreKept, SoleWriterIsTracked
    <3>3. QED
      BY <3>1, <3>2
  <2>3. \A u \in Threads : job[u] # NoJob /\ Tracked(job[u].key) => job[u].want = job[u].value
    BY DEF StoreKept, SoleWriterIsTracked
  <2>4. job' = job /\ dbImports' = dbImports
    BY DEF StoreDelete
  <2>5. \A u \in Threads : (job[u] # NoJob /\ Tracked(job[u].key) => job[u].want = job[u].value)'
    BY <2>3, <2>4 DEF Tracked
  <2>6. QED
    BY <2>1, <2>2, <2>5 DEF SoleWriterIsTracked
<1>7. DumpsAreSound'
  BY DEF StoreKept, DumpsAreSound, SureIsThere, StoreDelete
<1>f. FilesAreTraced'
  BY FilesUntouched DEF StoreKept, StoreDelete
<1>8. RestsOrLoaded'
  BY DEF RestsOrLoaded, StoreDelete, MayWrite
<1>9. QED
  BY <1>1, <1>5, <1>6, <1>7, <1>8, <1>f DEF StoreKept

\* A thread about to erase or to create.
LEMMA JobIs ==
  ASSUME StoreKept, NEW t \in Threads, ~Resting(t)
  PROVE  /\ job[t] \in Job /\ job[t] # NoJob
         /\ job[t].key \in Keys /\ job[t].value \in Val /\ job[t].want \in Val
         /\ t \in Writers[job[t].key]
<1>1. job[t] \in Job \cup {NoJob} /\ job[t] # NoJob
  BY DEF StoreKept, StoreTypes, Resting
<1>2. job[t] \in Job
  BY <1>1
<1>3. job[t].key \in Keys /\ job[t].value \in Val /\ job[t].want \in Val
  BY <1>2 DEF Job
<1>4. t \in Writers[job[t].key]
  BY <1>1 DEF StoreKept, RowsAreCounted
<1>5. QED
  BY <1>1, <1>2, <1>3, <1>4

LEMMA EraseRowsKept ==
  ASSUME StoreKept, NEW t \in Threads, EraseRows(t) PROVE StoreKept'
<1>0. PICK k \in Keys : k = job[t].key
  BY JobIs DEF EraseRows
<1>1. job[t] \in Job /\ job[t] # NoJob /\ k \in Keys /\ t \in Writers[k] /\ job[t].step = "delete" /\ up
  BY <1>0, JobIs DEF EraseRows
<1>2. /\ job'[t] \in Job /\ job'[t].step = "create" /\ job'[t].key = k
      /\ job'[t].value = job[t].value /\ job'[t].want = job[t].want
      /\ \A u \in Threads \ {t} : job'[u] = job[u]
      /\ job' \in [Threads -> Job \cup {NoJob}]
  <2>1. job' = [job EXCEPT ![t] = [job[t] EXCEPT !.step = "create"]]
    BY DEF EraseRows
  <2>2. [job[t] EXCEPT !.step = "create"] \in Job
    BY <1>1 DEF Job
  <2>3. job \in [Threads -> Job \cup {NoJob}]
    BY DEF StoreKept, StoreTypes
  <2>4. job'[t] = [job[t] EXCEPT !.step = "create"]
    BY <2>1, <2>3
  <2>5. QED
    BY <1>0, <1>1, <2>1, <2>2, <2>3, <2>4 DEF Job
<1>3. kv' \in [Keys -> Seq(Val)] /\ kv'[k] = << >> /\ \A l \in Keys \ {k} : kv'[l] = kv[l]
  BY NoDumpIsDump, <1>0 DEF StoreKept, StoreTypes, EraseRows, Erased
<1>4. job'[t] # NoJob
  BY <1>2, JobIsNoRest
<1>5. Creating(k)' = Creating(k) \cup {t} /\ \A l \in Keys \ {k} : Creating(l)' = Creating(l)
  <2>1. Creating(k)' = Creating(k) \cup {t}
    BY <1>0, <1>1, <1>2, <1>4 DEF Creating
  <2>2. ASSUME NEW l \in Keys \ {k} PROVE Creating(l)' = Creating(l)
    BY <1>0, <1>1, <1>2, <1>4 DEF Creating
  <2>3. QED
    BY <2>1, <2>2
<1>6. StoreTypes'
  BY <1>2, <1>3 DEF StoreKept, StoreTypes, EraseRows
<1>7. RowsAreCounted'
  <2>1. \A u \in Threads : job'[u] # NoJob => u \in Writers[job'[u].key]
    BY <1>1, <1>2 DEF StoreKept, RowsAreCounted
  <2>2. \A l \in Keys : Most(l)' = Most(l) /\ Imported(l)' = Imported(l)
    BY DEF Most, Imported, EraseRows
  <2>3. ASSUME NEW l \in Keys
        PROVE  Len(kv'[l]) + Cardinality(Creating(l)') + Len(importing[l]) <= Most(l)
    <3>1. CASE l = k
      <4>1. /\ IsFiniteSet(Writers[k]) /\ Cardinality(Writers[k]) \in Nat
            /\ Most(k) = Cardinality(Writers[k]) + Imported(k) /\ Imported(k) \in Nat
        BY <1>1, MostIs DEF StoreKept, StoreTypes
      <4>2. Creating(k)' \in SUBSET Writers[k]
        BY <1>1, <1>5, CreatingIs DEF StoreKept
      <4>3. Cardinality(Creating(k)') <= Cardinality(Writers[k]) /\ Cardinality(Creating(k)') \in Nat
        BY <4>1, <4>2, FS_Subset, FS_CardinalityType
      <4>4. Len(importing[k]) <= Imported(k) /\ Len(importing[k]) \in Nat
        BY <1>1 DEF StoreKept, StoreTypes, RowsAreCounted
      <4>5. Len(kv'[k]) = 0
        BY <1>3, NoDumpIsDump
      <4>6. QED
        BY <3>1, <4>1, <4>3, <4>4, <4>5
    <3>2. CASE l # k
      BY <3>2, <1>3, <1>5 DEF StoreKept, RowsAreCounted
    <3>3. QED
      BY <3>1, <3>2
  <2>4. QED
    BY <2>1, <2>2, <2>3 DEF StoreKept, RowsAreCounted, EraseRows
<1>8. SoleWriterIsTracked'
  <2>1. \A l \in Keys : Tracked(l)' = Tracked(l) /\ LatestRow(l)' = LatestRow(l)
    BY DEF Tracked, LatestRow, EraseRows
  <2>2. \A u \in Threads : job'[u] # NoJob => job[u] # NoJob /\ job'[u].key = job[u].key
                              /\ job'[u].want = job[u].want /\ job'[u].value = job[u].value
    BY <1>0, <1>1, <1>2
  <2>3. ASSUME NEW l \in Keys, Tracked(l)
        PROVE  kv'[l] = IF Creating(l)' = {} THEN LatestRow(l) ELSE << >>
    <3>1. CASE l = k
      BY <3>1, <1>3, <1>5
    <3>2. CASE l # k
      BY <3>2, <2>3, <1>1, <1>3, <1>5 DEF StoreKept, SoleWriterIsTracked
    <3>3. QED
      BY <3>1, <3>2
  <2>4. ASSUME NEW u \in Threads, job'[u] # NoJob, Tracked(job[u].key)'
        PROVE  job'[u].want = job'[u].value
    <3>1. Tracked(job[u].key)
      BY <2>2, <2>4 DEF Tracked, Sole, EraseRows
    <3>2. QED
      BY <3>1, <2>2, <2>4 DEF StoreKept, SoleWriterIsTracked
  <2>5. QED
    BY <2>1, <2>3, <2>4 DEF SoleWriterIsTracked
<1>9. DumpsAreSound'
  BY DEF StoreKept, DumpsAreSound, SureIsThere, EraseRows
<1>f. FilesAreTraced'
  BY FilesUntouched DEF StoreKept, EraseRows
<1>10. RestsOrLoaded'
  <2>1. ~fresh /\ up'
    BY <1>1 DEF StoreKept, RestsOrLoaded, EraseRows
  <2>2. QED
    BY <2>1 DEF RestsOrLoaded, EraseRows
<1>11. QED
  BY <1>6, <1>7, <1>8, <1>9, <1>10, <1>f DEF StoreKept

LEMMA CreateRowKept ==
  ASSUME StoreKept, NEW t \in Threads, CreateRow(t) PROVE StoreKept'
<1>0. PICK k \in Keys, value \in Val, want \in Val :
        k = job[t].key /\ value = job[t].value /\ want = job[t].want
  BY JobIs DEF CreateRow
<1>1. /\ job[t] \in Job /\ job[t] # NoJob /\ k \in Keys /\ t \in Writers[k] /\ job[t].step = "create"
      /\ up /\ value \in Val /\ want \in Val
  BY <1>0, JobIs DEF CreateRow
<1>2. /\ job'[t] = NoJob /\ \A u \in Threads \ {t} : job'[u] = job[u]
      /\ job' \in [Threads -> Job \cup {NoJob}]
  BY DEF StoreKept, StoreTypes, CreateRow
<1>3. PICK i \in 0 .. Len(kv[k]) : kv' = [kv EXCEPT ![k] = WithRow(kv[k], i, value)]
  BY <1>0 DEF CreateRow
<1>4. kv \in [Keys -> Seq(Val)] /\ latest \in [Keys -> Val \cup {Nothing}]
  BY DEF StoreKept, StoreTypes
<1>5. latest' = [latest EXCEPT ![k] = want]
  BY <1>0 DEF CreateRow
<1>6. /\ t \in Creating(k) /\ Creating(k)' = Creating(k) \ {t}
      /\ \A l \in Keys \ {k} : Creating(l)' = Creating(l)
  BY <1>0, <1>1, <1>2 DEF Creating
<1>. DEFINE row == WithRow(kv[k], i, value)
<1>7. row \in Seq(Val) /\ Len(row) = Len(kv[k]) + 1 /\ (kv[k] = << >> => row = <<value>>)
  BY <1>1, <1>3, <1>4, WithRowIs
<1>8. kv'[k] = row /\ kv' \in [Keys -> Seq(Val)] /\ \A l \in Keys \ {k} : kv'[l] = kv[l]
  BY <1>1, <1>3, <1>4, <1>7
<1>. HIDE DEF row
<1>9. /\ latest'[k] = want /\ latest' \in [Keys -> Val \cup {Nothing}]
      /\ \A l \in Keys \ {k} : latest'[l] = latest[l]
  BY <1>1, <1>4, <1>5
<1>10. StoreTypes'
  BY <1>2, <1>8, <1>9 DEF StoreKept, StoreTypes, CreateRow
<1>11. RowsAreCounted'
  <2>1. \A u \in Threads : job'[u] # NoJob => u \in Writers[job'[u].key]
    BY <1>2 DEF StoreKept, RowsAreCounted
  <2>2. \A l \in Keys : Most(l)' = Most(l) /\ Imported(l)' = Imported(l)
    BY DEF Most, Imported, CreateRow
  <2>3. ASSUME NEW l \in Keys
        PROVE  Len(kv'[l]) + Cardinality(Creating(l)') + Len(importing[l]) <= Most(l)
    <3>1. CASE l = k
      <4>1. IsFiniteSet(Creating(k)) /\ Cardinality(Creating(k)) \in Nat
        BY <1>1, CreatingIs DEF StoreKept
      <4>2. Cardinality(Creating(k)') = Cardinality(Creating(k)) - 1
        BY <1>6, <4>1, FS_RemoveElement
      <4>3. Len(kv[k]) + Cardinality(Creating(k)) + Len(importing[k]) <= Most(k)
        BY <1>1 DEF StoreKept, RowsAreCounted
      <4>4. Len(kv[k]) \in Nat /\ Len(importing[k]) \in Nat /\ Most(k) \in Nat
        BY <1>1, MostIs DEF StoreKept, StoreTypes
      <4>5. Len(kv'[k]) = Len(kv[k]) + 1
        BY <1>7, <1>8
      <4>6. QED
        BY <3>1, <4>1, <4>2, <4>3, <4>4, <4>5
    <3>2. CASE l # k
      BY <3>2, <1>6, <1>8 DEF StoreKept, RowsAreCounted
    <3>3. QED
      BY <3>1, <3>2
  <2>4. QED
    BY <2>1, <2>2, <2>3 DEF StoreKept, RowsAreCounted, CreateRow
<1>12. SoleWriterIsTracked'
  <2>1. \A l \in Keys : Tracked(l)' = Tracked(l)
    BY DEF Tracked, CreateRow
  <2>2. ASSUME NEW l \in Keys, Tracked(l)
        PROVE  kv'[l] = IF Creating(l)' = {} THEN LatestRow(l)' ELSE << >>
    <3>1. CASE l = k
      <4>1. IsFiniteSet(Writers[k]) /\ Cardinality(Writers[k]) = 1
        BY <1>1, <2>2, <3>1, MostIs DEF StoreKept, StoreTypes, Tracked, Sole
      <4>2. PICK x : Writers[k] = {x}
        BY <4>1, FS_Singleton
      <4>3. Creating(k) \in SUBSET Writers[k]
        BY <1>1, CreatingIs DEF StoreKept
      <4>4. Creating(k)' = {}
        BY <1>1, <1>6, <4>2, <4>3
      <4>5. kv[k] = << >>
        BY <1>1, <1>6, <2>2, <3>1 DEF StoreKept, SoleWriterIsTracked
      <4>6. want = value
        BY <1>0, <1>1, <2>2, <3>1 DEF StoreKept, SoleWriterIsTracked
      <4>7. want # Nothing
        BY <1>1, NothingIsNoValue
      <4>8. LatestRow(k)' = <<want>>
        BY <1>9, <4>7 DEF LatestRow
      <4>9. QED
        BY <3>1, <4>4, <4>5, <4>6, <4>8, <1>7, <1>8
    <3>2. CASE l # k
      <4>1. LatestRow(l)' = LatestRow(l)
        BY <3>2, <1>9 DEF LatestRow
      <4>2. QED
        BY <3>2, <4>1, <2>2, <1>1, <1>6, <1>8 DEF StoreKept, SoleWriterIsTracked
    <3>3. QED
      BY <3>1, <3>2
  <2>4. ASSUME NEW u \in Threads, job'[u] # NoJob, Tracked(job[u].key)'
        PROVE  job'[u].want = job'[u].value
    <3>1. job'[u] = job[u]
      BY <1>2, <2>4
    <3>2. Tracked(job[u].key)
      BY <3>1, <2>4 DEF Tracked, Sole, CreateRow
    <3>3. QED
      BY <3>1, <3>2, <2>4 DEF StoreKept, SoleWriterIsTracked
  <2>5. QED
    BY <2>1, <2>2, <2>4 DEF SoleWriterIsTracked
<1>13. DumpsAreSound'
  BY DEF StoreKept, DumpsAreSound, SureIsThere, CreateRow
<1>f. FilesAreTraced'
  BY FilesUntouched DEF StoreKept, CreateRow
<1>14. RestsOrLoaded'
  <2>1. ~fresh /\ up'
    BY <1>1 DEF StoreKept, RestsOrLoaded, CreateRow
  <2>2. QED
    BY <2>1 DEF RestsOrLoaded, CreateRow
<1>15. QED
  BY <1>10, <1>11, <1>12, <1>13, <1>14, <1>f DEF StoreKept

-----------------------------------------------------------------------------
(***************************************************************************)
(* Nodes, saves, imports, crashes                                          *)
(***************************************************************************)

\* What does not touch the rows, nor the threads, leaves their invariants alone.
LEMMA RowsUntouched ==
  ASSUME StoreKept, UNCHANGED <<up, kv, job, importing, dbImports, latest>>,
         \A k \in Keys : Len(dbFile'.kv[k]) <= Most(k) /\ Len(unsaved'.kv[k]) <= Most(k)
  PROVE  RowsAreCounted' /\ SoleWriterIsTracked'
<1>1. \A k \in Keys : /\ Creating(k)' = Creating(k) /\ Most(k)' = Most(k)
                      /\ Imported(k)' = Imported(k)
                      /\ Tracked(k)' = Tracked(k) /\ LatestRow(k)' = LatestRow(k)
  BY DEF Creating, Most, Imported, Tracked, LatestRow
<1>2. RowsAreCounted'
  BY <1>1 DEF StoreKept, RowsAreCounted
<1>3. \A t \in Threads : Tracked(job[t].key)' = Tracked(job[t].key)
  BY DEF Tracked
<1>4. SoleWriterIsTracked'
  BY <1>1, <1>3 DEF StoreKept, SoleWriterIsTracked
<1>5. QED
  BY <1>2, <1>4

\* A node is added, edited, deleted, renamed or restored, while nothing waits to be
\* written.
LEMMA ShapesKept ==
  ASSUME StoreKept, NEW n \in Shapes, NEW f \in Files,
         \/ AddShape(n, f) \/ EditShape(n) \/ DeleteShape(n)
         \/ RenameShape(n, f) \/ DropShape(n) \/ BringShape(n, f)
  PROVE  StoreKept'
<1>. USE DEF AddShape, EditShape, DeleteShape, RenameShape, DropShape, BringShape
<1>1. /\ UNCHANGED <<up, kv, job, importing, dbImports, latest, unsaved, dbFile, saves,
                     written, crashes, shapeRows>>
      /\ fresh' = FALSE /\ up /\ unsaved = NoDump
  BY DEF OwnerFree
<1>2. /\ shapes \in [Shapes -> Files \cup {Absent}]
      /\ shapeRows \in [Shapes -> Files \cup {Absent}]
      /\ dbFile.shapes \in [Shapes -> Files \cup {Absent}]
      /\ shapeFiles \in [Files -> Shapes \cup {Absent}]
      /\ met \in SUBSET (Shapes \X Files) /\ doomed \in SUBSET Files
  BY DEF StoreKept, StoreTypes, Dump
<1>3. /\ \A m \in Shapes : shapes[m] # Absent => <<m, shapes[m]>> \in met
      /\ RowsAreTraced(shapeRows) /\ RowsAreTraced(dbFile.shapes)
  BY DEF StoreKept, FilesAreTraced
<1>4. n \in Shapes /\ f # Absent /\ n # Absent
  BY StoreAssumption
<1>5. /\ shapes' \in [Shapes -> Files \cup {Absent}]
      /\ shapeFiles' \in [Files -> Shapes \cup {Absent}]
      /\ met' \in SUBSET (Shapes \X Files) /\ doomed' \in SUBSET Files
      /\ met \subseteq met' /\ doomed \subseteq doomed'
  <2>1. CASE AddShape(n, f)
    BY <1>2, <2>1 DEF Written
  <2>2. CASE EditShape(n)
    BY <1>2, <2>2 DEF Written
  <2>3. CASE DeleteShape(n)
    BY <1>2, <2>3
  <2>4. CASE RenameShape(n, f)
    BY <1>2, <2>4
  <2>5. CASE DropShape(n)
    BY <1>2, <2>5
  <2>6. CASE BringShape(n, f)
    BY <1>2, <2>6
  <2>7. QED
    BY <2>1, <2>2, <2>3, <2>4, <2>5, <2>6
<1>6. \A m \in Shapes : shapes'[m] # Absent => <<m, shapes'[m]>> \in met'
  BY <1>2, <1>3
<1>7. ASSUME NEW g \in Files
      PROVE  \/ shapeFiles'[g] = shapeFiles[g]
             \/ g \in doomed'
             \/ (shapeFiles'[g] \in Shapes /\ <<shapeFiles'[g], g>> \in met')
  <2>1. CASE AddShape(n, f)
    BY <1>2, <2>1 DEF Written
  <2>2. CASE EditShape(n)
    <3>1. shapeFiles' = [shapeFiles EXCEPT ![shapes[n]] = n] /\ <<n, shapes[n]>> \in met'
      BY <1>3, <2>2 DEF Written
    <3>2. QED
      BY <1>2, <3>1
  <2>3. CASE DeleteShape(n)
    BY <1>2, <2>3
  <2>4. CASE RenameShape(n, f)
    BY <1>2, <2>4
  <2>5. CASE DropShape(n) \/ BringShape(n, f)
    BY <2>5
  <2>6. QED
    BY <2>1, <2>2, <2>3, <2>4, <2>5
<1>. HIDE DEF AddShape, EditShape, DeleteShape, RenameShape, DropShape, BringShape
<1>8. StoreTypes'
  BY <1>1, <1>5 DEF StoreKept, StoreTypes
<1>9. \A k \in Keys : Len(dbFile'.kv[k]) <= Most(k) /\ Len(unsaved'.kv[k]) <= Most(k)
  BY <1>1 DEF StoreKept, RowsAreCounted
<1>10. RowsAreCounted' /\ SoleWriterIsTracked'
  BY <1>1, <1>9, RowsUntouched
<1>11. DumpsAreSound'
  BY <1>1 DEF StoreKept, DumpsAreSound, SureIsThere
<1>12. FilesAreTraced'
  <2>1. RowsAreTraced(shapeRows)'
    BY <1>1, <1>2, <1>3, <1>5, <1>7, RowsStayTraced DEF RowsAreTraced
  <2>2. RowsAreTraced(dbFile.shapes)'
    <3>1. PICK rows \in [Shapes -> Files \cup {Absent}] : rows = dbFile.shapes
      BY <1>2
    <3>2. RowsAreTraced(rows)
      BY <1>3, <3>1
    <3>3. \A m \in Shapes : rows[m] # Absent => <<m, rows[m]>> \in met' /\ Traced(m, rows[m])'
      BY <1>5, <1>7, <3>2, RowsStayTraced
    <3>4. dbFile'.shapes = rows
      BY <1>1, <3>1
    <3>5. QED
      BY <3>3, <3>4 DEF RowsAreTraced, Traced
  <2>3. QED
    BY <1>1, <1>6, <2>1, <2>2 DEF FilesAreTraced
<1>13. RestsOrLoaded'
  BY <1>1 DEF RestsOrLoaded
<1>14. QED
  BY <1>8, <1>10, <1>11, <1>12, <1>13 DEF StoreKept

\* What a save takes over is there: keys of one writer that nobody is setting.
LEMMA ExportedIs ==
  ASSUME StoreKept, up, NEW rows \in [Shapes -> Files \cup {Absent}]
  PROVE  /\ Exported(rows) \in Dump /\ Exported(rows).state = "whole"
         /\ Exported(rows).kv = kv /\ Exported(rows).shapes = rows
         /\ SureIsThere(Exported(rows))
<1>. DEFINE sure == {<<k, latest[k]>> : k \in {k \in Keys : Sole(k) /\ latest[k] # Nothing /\ dbImports = 0
                                       /\ \A t \in Threads : Resting(t) \/ job[t].key # k}}
<1>1. Exported(rows).kv = kv /\ Exported(rows).shapes = rows /\ Exported(rows).sure = sure /\ Exported(rows).state = "whole"
  BY DEF Exported
<1>2. ASSUME NEW s \in sure
      PROVE  s \in Keys \X Val /\ kv[s[1]] # << >> /\ kv[s[1]][1] = s[2]
  <2>1. PICK k \in Keys : /\ s = <<k, latest[k]>> /\ Sole(k) /\ latest[k] # Nothing /\ dbImports = 0
                          /\ \A t \in Threads : Resting(t) \/ job[t].key # k
    OBVIOUS
  <2>2. latest[k] \in Val
    BY <2>1 DEF StoreKept, StoreTypes
  <2>3. Creating(k) = {}
    BY <2>1 DEF Creating, Resting
  <2>4. kv[k] = LatestRow(k)
    BY <2>1, <2>3 DEF StoreKept, SoleWriterIsTracked, Tracked
  <2>5. kv[k] = <<latest[k]>>
    BY <2>1, <2>4 DEF LatestRow
  <2>6. kv[k] # << >> /\ kv[k][1] = latest[k]
    BY <2>5
  <2>7. QED
    BY <2>1, <2>2, <2>6
<1>3. sure \in SUBSET (Keys \X Val)
  BY <1>2
<1>. HIDE DEF sure
<1>4. Exported(rows) \in Dump
  <2>1. Exported(rows) = [state |-> "whole", kv |-> kv, shapes |-> rows, sure |-> sure]
    BY DEF Exported, sure
  <2>2. kv \in [Keys -> Seq(Val)]
    BY DEF StoreKept, StoreTypes
  <2>3. QED
    BY <1>3, <2>1, <2>2 DEF Dump
<1>5. SureIsThere(Exported(rows))
  BY <1>1, <1>2 DEF SureIsThere
<1>6. QED
  BY <1>1, <1>4, <1>5

\* A save changes a file only to the program of a node that has its label.
LEMMA FilesOfIs ==
  ASSUME NEW s \in [Shapes -> Files \cup {Absent}], NEW to \in FilesOf(s)
  PROVE  /\ to \in [Files -> Shapes \cup {Absent}]
         /\ \A f \in Files : to[f] = shapeFiles[f] \/ (to[f] \in Shapes /\ s[to[f]] = f)
         /\ \A n \in Shapes : s[n] # Absent => to[s[n]] \in Shapes /\ s[to[s[n]]] = s[n]
  BY DEF FilesOf

\* The rows of a canvas that are exported, with or without the files.
LEMMA SaveKept ==
  ASSUME StoreKept, up, saves' = saves + 1, fresh' = FALSE,
         UNCHANGED <<up, kv, job, importing, dbImports, latest, shapes, dbFile, written,
                     crashes, met, doomed>>,
         shapeRows' \in [Shapes -> Files \cup {Absent}],
         shapeFiles' \in [Files -> Shapes \cup {Absent}],
         unsaved' = Exported(shapeRows'), FilesAreTraced'
  PROVE  StoreKept'
<1>1. /\ Exported(shapeRows') \in Dump /\ Exported(shapeRows').state = "whole"
      /\ Exported(shapeRows').kv = kv /\ SureIsThere(Exported(shapeRows'))
  BY ExportedIs
<1>2. saves' > 0 /\ saves' \in Nat
  BY DEF StoreKept, StoreTypes
<1>3. StoreTypes'
  BY <1>1, <1>2 DEF StoreKept, StoreTypes
<1>4. \A k \in Keys : Len(dbFile'.kv[k]) <= Most(k) /\ Len(unsaved'.kv[k]) <= Most(k)
  <2>1. ASSUME NEW k \in Keys PROVE Len(kv[k]) <= Most(k)
    <3>1. Len(kv[k]) \in Nat /\ Len(importing[k]) \in Nat /\ Most(k) \in Nat
      BY MostIs DEF StoreKept, StoreTypes
    <3>2. Cardinality(Creating(k)) \in Nat
      BY CreatingIs DEF StoreKept
    <3>3. Len(kv[k]) + Cardinality(Creating(k)) + Len(importing[k]) <= Most(k)
      BY DEF StoreKept, RowsAreCounted
    <3>4. QED
      BY <3>1, <3>2, <3>3
  <2>2. QED
    BY <1>1, <2>1 DEF StoreKept, RowsAreCounted
<1>5. RowsAreCounted' /\ SoleWriterIsTracked'
  BY <1>4, RowsUntouched
<1>6. DumpsAreSound'
  BY <1>1, <1>2 DEF StoreKept, DumpsAreSound, SureIsThere
<1>7. RestsOrLoaded'
  BY DEF RestsOrLoaded
<1>8. QED
  BY <1>3, <1>5, <1>6, <1>7 DEF StoreKept

LEMMA SaveRowsKept ==
  ASSUME StoreKept, SaveRows \/ SaveBeside PROVE StoreKept'
<1>1. /\ UNCHANGED <<up, kv, job, importing, dbImports, latest, shapes, dbFile, written,
                     crashes, met, doomed>>
      /\ fresh' = FALSE /\ up /\ saves' = saves + 1 /\ unsaved' = Exported(shapeRows')
      /\ \/ shapeRows' = shapes /\ shapeFiles' \in FilesOf(shapes)
         \/ shapeRows' = shapeRows /\ shapeFiles' = shapeFiles
  BY DEF SaveRows, SaveBeside, OwnerFree
<1>2. /\ shapes \in [Shapes -> Files \cup {Absent}]
      /\ shapeRows \in [Shapes -> Files \cup {Absent}]
      /\ dbFile.shapes \in [Shapes -> Files \cup {Absent}]
      /\ shapeFiles \in [Files -> Shapes \cup {Absent}]
  BY DEF StoreKept, StoreTypes, Dump
<1>3. /\ \A n \in Shapes : shapes[n] # Absent => <<n, shapes[n]>> \in met
      /\ RowsAreTraced(shapeRows) /\ RowsAreTraced(dbFile.shapes)
  BY DEF StoreKept, FilesAreTraced
<1>4. /\ shapeRows' \in [Shapes -> Files \cup {Absent}]
      /\ shapeFiles' \in [Files -> Shapes \cup {Absent}]
  BY <1>1, <1>2, FilesOfIs
<1>5. \A f \in Files : \/ shapeFiles'[f] = shapeFiles[f]
                       \/ (shapeFiles'[f] \in Shapes /\ <<shapeFiles'[f], f>> \in met')
  <2>1. CASE shapeFiles' \in FilesOf(shapes)
    <3>1. \A f \in Files : \/ shapeFiles'[f] = shapeFiles[f]
                           \/ (shapeFiles'[f] \in Shapes /\ shapes[shapeFiles'[f]] = f)
      BY <1>2, <2>1, FilesOfIs
    <3>2. \A f \in Files : f # Absent
      BY StoreAssumption
    <3>3. QED
      BY <1>1, <1>3, <3>1, <3>2
  <2>2. QED
    BY <1>1, <2>1
<1>6. ASSUME NEW rows \in [Shapes -> Files \cup {Absent}], RowsAreTraced(rows)
      PROVE  \A n \in Shapes : rows[n] # Absent => <<n, rows[n]>> \in met' /\ Traced(n, rows[n])'
  BY <1>1, <1>5, <1>6, RowsStayTraced
<1>7. RowsAreTraced(shapeRows)'
  <2>1. CASE shapeRows' = shapeRows
    BY <1>2, <1>3, <1>6, <2>1 DEF RowsAreTraced, Traced
  <2>2. CASE shapeRows' = shapes /\ shapeFiles' \in FilesOf(shapes)
    <3>1. ASSUME NEW n \in Shapes, shapes[n] # Absent
          PROVE  <<n, shapes[n]>> \in met' /\ Traced(n, shapes[n])'
      <4>1. shapeFiles'[shapes[n]] \in Shapes /\ shapes[shapeFiles'[shapes[n]]] = shapes[n]
        BY <1>2, <2>2, <3>1, FilesOfIs
      <4>2. <<n, shapes[n]>> \in met' /\ <<shapeFiles'[shapes[n]], shapes[n]>> \in met'
        BY <1>1, <1>3, <3>1, <4>1
      <4>3. QED
        BY <1>1, <4>1, <4>2 DEF Traced
    <3>2. QED
      BY <1>1, <2>2, <3>1 DEF RowsAreTraced, Traced
  <2>3. QED
    BY <1>1, <2>1, <2>2
<1>8. RowsAreTraced(dbFile.shapes)'
  BY <1>1, <1>2, <1>3, <1>6 DEF RowsAreTraced, Traced
<1>9. unsaved'.shapes = shapeRows'
  BY <1>1 DEF Exported
<1>10. FilesAreTraced'
  BY <1>1, <1>3, <1>7, <1>8, <1>9 DEF FilesAreTraced
<1>11. QED
  BY <1>1, <1>4, <1>10, SaveKept

LEMMA WriteDbFileKept ==
  ASSUME StoreKept, WriteDbFile PROVE StoreKept'
<1>1. /\ UNCHANGED <<up, kv, job, importing, dbImports, latest, shapes, shapeRows, shapeFiles,
                     written, crashes, saves, fresh>>
      /\ up /\ unsaved # NoDump
  BY DEF WriteDbFile
<1>2. saves > 0 /\ unsaved \in Dump /\ unsaved.state = "whole"
  BY <1>1 DEF StoreKept, DumpsAreSound, StoreTypes
<1>3. ~fresh
  BY <1>1 DEF StoreKept, RestsOrLoaded
<1>4. RestsOrLoaded'
  BY <1>1, <1>3 DEF RestsOrLoaded
<1>5. CASE dbFile.state # "torn"
  <2>1. dbFile' = [NoDump EXCEPT !.state = "torn"] /\ unsaved' = unsaved /\ met' = met /\ doomed' = doomed
    BY <1>5 DEF WriteDbFile
  <2>2. /\ dbFile' \in Dump /\ dbFile'.sure = {} /\ dbFile'.shapes = NoShapes /\ dbFile'.kv = NoRows
        /\ dbFile'.state = "torn"
    <3>1. NoDump = [state |-> "none", kv |-> NoRows, shapes |-> NoShapes, sure |-> {}]
      BY DEF NoDump
    <3>2. dbFile' = [state |-> "torn", kv |-> NoRows, shapes |-> NoShapes, sure |-> {}]
      BY <2>1, <3>1
    <3>3. NoRows \in [Keys -> Seq(Val)] /\ NoShapes \in [Shapes -> Files \cup {Absent}]
      BY NoDumpIsDump DEF NoShapes
    <3>4. QED
      BY <3>2, <3>3 DEF Dump
  <2>3. StoreTypes'
    BY <1>1, <2>1, <2>2 DEF StoreKept, StoreTypes
  <2>4. \A k \in Keys : Len(dbFile'.kv[k]) <= Most(k) /\ Len(unsaved'.kv[k]) <= Most(k)
    <3>1. \A k \in Keys : Most(k) \in Nat /\ Len(NoRows[k]) = 0
      BY MostIs, NoDumpIsDump DEF StoreKept, StoreTypes
    <3>2. QED
      BY <2>1, <2>2, <3>1 DEF StoreKept, RowsAreCounted
  <2>5. RowsAreCounted' /\ SoleWriterIsTracked'
    BY <1>1, <2>4, RowsUntouched
  <2>6. DumpsAreSound'
    BY <1>1, <1>2, <2>1, <2>2 DEF StoreKept, DumpsAreSound, SureIsThere
  <2>7. FilesAreTraced'
    <3>1. \A n \in Shapes : dbFile'.shapes[n] = Absent
      BY <2>2 DEF NoShapes
    <3>2. RowsAreTraced(dbFile.shapes)'
      BY <3>1 DEF RowsAreTraced
    <3>3. QED
      BY <1>1, <2>1, <3>2 DEF StoreKept, FilesAreTraced, RowsAreTraced, Traced
  <2>8. QED
    BY <1>4, <2>3, <2>5, <2>6, <2>7 DEF StoreKept
<1>6. CASE dbFile.state = "torn"
  <2>1. /\ dbFile' = unsaved /\ unsaved' = NoDump
        /\ \/ UNCHANGED <<met, doomed>>
           \/ /\ Agrees(unsaved.shapes) /\ doomed' = {}
              /\ met' = {p \in Shapes \X Files : shapes[p[1]] = p[2]}
    BY <1>6 DEF WriteDbFile
  <2>2. StoreTypes'
    BY <1>1, <2>1, NoDumpIsDump DEF StoreKept, StoreTypes
  <2>3. \A k \in Keys : Len(dbFile'.kv[k]) <= Most(k) /\ Len(unsaved'.kv[k]) <= Most(k)
    <3>1. \A k \in Keys : Most(k) \in Nat /\ Len(NoDump.kv[k]) = 0
      BY MostIs, NoDumpIsDump DEF StoreKept, StoreTypes
    <3>2. QED
      BY <2>1, <3>1 DEF StoreKept, RowsAreCounted
  <2>4. RowsAreCounted' /\ SoleWriterIsTracked'
    BY <1>1, <2>3, RowsUntouched
  <2>5. DumpsAreSound'
    BY <1>1, <1>2, <2>1, NoDumpIsDump DEF StoreKept, DumpsAreSound, SureIsThere
  <2>6. FilesAreTraced'
    <3>1. /\ \A n \in Shapes : shapes[n] # Absent => <<n, shapes[n]>> \in met
          /\ RowsAreTraced(shapeRows) /\ unsaved.shapes = shapeRows
          /\ shapes \in [Shapes -> Files \cup {Absent}]
          /\ shapeFiles \in [Files -> Shapes \cup {Absent}]
      BY <1>1 DEF StoreKept, StoreTypes, FilesAreTraced
    <3>2. CASE UNCHANGED <<met, doomed>>
      BY <1>1, <2>1, <3>1, <3>2 DEF FilesAreTraced, RowsAreTraced, Traced
    <3>3. CASE Agrees(unsaved.shapes) /\ met' = {p \in Shapes \X Files : shapes[p[1]] = p[2]}
      <4>1. unsaved.shapes = shapes
        BY <3>3 DEF Agrees
      <4>2. ASSUME NEW n \in Shapes, shapes[n] # Absent
            PROVE  <<n, shapes[n]>> \in met' /\ Traced(n, shapes[n])'
        <5>1. shapeFiles[shapes[n]] # Absent /\ shapes[shapeFiles[shapes[n]]] = shapes[n]
          BY <3>3, <4>2 DEF Agrees
        <5>2. shapes[n] \in Files /\ shapeFiles[shapes[n]] \in Shapes
          BY <3>1, <4>2, <5>1
        <5>3. <<n, shapes[n]>> \in met' /\ <<shapeFiles[shapes[n]], shapes[n]>> \in met'
          BY <3>3, <5>1, <5>2
        <5>4. QED
          BY <1>1, <5>2, <5>3 DEF Traced
      <4>3. RowsAreTraced(shapeRows)' /\ RowsAreTraced(dbFile.shapes)'
        BY <1>1, <2>1, <3>1, <4>1, <4>2 DEF RowsAreTraced, Traced
      <4>4. QED
        BY <1>1, <2>1, <4>2, <4>3 DEF FilesAreTraced
    <3>4. QED
      BY <2>1, <3>2, <3>3
  <2>7. QED
    BY <1>4, <2>2, <2>4, <2>5, <2>6 DEF StoreKept
<1>7. QED
  BY <1>5, <1>6

LEMMA ImportDbKept ==
  ASSUME StoreKept, ImportDb PROVE StoreKept'
<1>1. /\ UNCHANGED <<up, job, shapes, shapeRows, shapeFiles, unsaved, dbFile, written, crashes,
                     saves, latest, met, doomed>>
      /\ up /\ fresh' = FALSE /\ kv' = NoRows /\ importing' = dbFile.kv /\ dbImports' = dbImports + 1
  BY DEF ImportDb, OwnerFree
<1>2. dbFile.kv \in [Keys -> Seq(Val)]
  BY DEF StoreKept, StoreTypes, Dump
<1>3. StoreTypes'
  <2>1. kv' \in [Keys -> Seq(Val)]
    BY <1>1, NoDumpIsDump
  <2>2. dbImports' \in Nat
    BY <1>1 DEF StoreKept, StoreTypes
  <2>3. QED
    BY <1>1, <1>2, <2>1, <2>2 DEF StoreKept, StoreTypes
<1>4. RowsAreCounted'
  <2>1. ASSUME NEW k \in Keys
        PROVE  /\ Len(kv'[k]) + Cardinality(Creating(k)') + Len(importing'[k]) <= Most(k)'
               /\ Len(importing'[k]) <= Imported(k)'
               /\ Len(dbFile.kv[k]) <= Most(k)'
               /\ Len(unsaved.kv[k]) <= Most(k)'
    <3>1. /\ Most(k) \in Nat /\ Cardinality(Writers[k]) \in Nat
          /\ Imported(k)' = Most(k) /\ Most(k)' = Most(k) + Cardinality(Writers[k])
      BY <1>1, MostIs DEF StoreKept, StoreTypes
    <3>2. Creating(k)' = Creating(k)
      BY <1>1 DEF Creating
    <3>3. Cardinality(Creating(k)) \in Nat /\ Cardinality(Creating(k)) <= Cardinality(Writers[k])
      BY CreatingIs DEF StoreKept
    <3>4. Len(dbFile.kv[k]) <= Most(k) /\ Len(unsaved.kv[k]) <= Most(k)
      BY DEF StoreKept, RowsAreCounted
    <3>5. Len(dbFile.kv[k]) \in Nat /\ Len(unsaved.kv[k]) \in Nat
      BY DEF StoreKept, StoreTypes, Dump
    <3>6. Len(kv'[k]) = 0
      BY <1>1, NoDumpIsDump
    <3>7. QED
      BY <1>1, <3>1, <3>2, <3>3, <3>4, <3>5, <3>6
  <2>2. \A t \in Threads : job'[t] # NoJob => t \in Writers[job'[t].key]
    BY <1>1 DEF StoreKept, RowsAreCounted
  <2>3. QED
    BY <1>1, <2>1, <2>2 DEF RowsAreCounted
<1>5. SoleWriterIsTracked'
  <2>1. dbImports' # 0
    BY <1>1 DEF StoreKept, StoreTypes
  <2>2. QED
    BY <2>1 DEF SoleWriterIsTracked, Tracked
<1>6. DumpsAreSound'
  BY <1>1 DEF StoreKept, DumpsAreSound, SureIsThere
<1>f. FilesAreTraced'
  BY <1>1, FilesUntouched DEF StoreKept
<1>7. RestsOrLoaded'
  BY <1>1 DEF RestsOrLoaded
<1>8. QED
  BY <1>3, <1>4, <1>5, <1>6, <1>7, <1>f DEF StoreKept

LEMMA ImportRowKept ==
  ASSUME StoreKept, ImportRow PROVE StoreKept'
<1>1. /\ UNCHANGED <<up, job, shapes, shapeRows, shapeFiles, unsaved, dbFile, written, dbImports, crashes,
                     saves, latest, met, doomed, fresh>>
      /\ up
  BY DEF ImportRow
<1>0. PICK k \in Keys :
        /\ importing[k] # << >>
        /\ \E i \in 0 .. Len(kv[k]) : kv' = [kv EXCEPT ![k] = WithRow(kv[k], i, Head(importing[k]))]
        /\ importing' = [importing EXCEPT ![k] = Tail(importing[k])]
  BY DEF ImportRow
<1>2. PICK i \in 0 .. Len(kv[k]) :
        /\ importing[k] # << >>
        /\ kv' = [kv EXCEPT ![k] = WithRow(kv[k], i, Head(importing[k]))]
        /\ importing' = [importing EXCEPT ![k] = Tail(importing[k])]
  BY <1>0
<1>3. kv \in [Keys -> Seq(Val)] /\ importing \in [Keys -> Seq(Val)]
  BY DEF StoreKept, StoreTypes
<1>4. /\ Head(importing[k]) \in Val /\ Tail(importing[k]) \in Seq(Val)
      /\ Len(importing[k]) \in Nat /\ Len(Tail(importing[k])) = Len(importing[k]) - 1
  BY <1>2, <1>3, HeadTailProperties
<1>. DEFINE row == WithRow(kv[k], i, Head(importing[k]))
<1>5. row \in Seq(Val) /\ Len(row) = Len(kv[k]) + 1
  BY <1>2, <1>3, <1>4, WithRowIs
<1>6. kv' \in [Keys -> Seq(Val)] /\ kv'[k] = row /\ \A l \in Keys \ {k} : kv'[l] = kv[l]
  BY <1>2, <1>3, <1>5
<1>. HIDE DEF row
<1>7. /\ importing' \in [Keys -> Seq(Val)] /\ importing'[k] = Tail(importing[k])
      /\ \A l \in Keys \ {k} : importing'[l] = importing[l]
  BY <1>2, <1>3, <1>4
<1>8. StoreTypes'
  BY <1>1, <1>6, <1>7 DEF StoreKept, StoreTypes
<1>9. \A l \in Keys : Creating(l)' = Creating(l) /\ Most(l)' = Most(l) /\ Imported(l)' = Imported(l)
  BY <1>1 DEF Creating, Most, Imported
<1>10. RowsAreCounted'
  <2>1. ASSUME NEW l \in Keys
        PROVE  /\ Len(kv'[l]) + Cardinality(Creating(l)) + Len(importing'[l]) <= Most(l)
               /\ Len(importing'[l]) <= Imported(l)
    <3>1. /\ Len(kv[l]) + Cardinality(Creating(l)) + Len(importing[l]) <= Most(l)
          /\ Len(importing[l]) <= Imported(l)
      BY DEF StoreKept, RowsAreCounted
    <3>2. CASE l = k
      <4>1. Cardinality(Creating(k)) \in Nat
        BY CreatingIs DEF StoreKept
      <4>2. Most(k) \in Nat /\ Imported(k) \in Nat
        BY MostIs DEF StoreKept, StoreTypes
      <4>3. Len(kv'[k]) = Len(kv[k]) + 1 /\ Len(importing'[k]) = Len(importing[k]) - 1 /\ Len(kv[k]) \in Nat
        BY <1>3, <1>4, <1>5, <1>6, <1>7
      <4>4. /\ Len(kv[k]) + Cardinality(Creating(k)) + Len(importing[k]) <= Most(k)
            /\ Len(importing[k]) <= Imported(k)
        BY <3>1, <3>2
      <4>5. /\ Len(kv'[k]) + Cardinality(Creating(k)) + Len(importing'[k]) <= Most(k)
            /\ Len(importing'[k]) <= Imported(k)
        <5>. DEFINE kept == Len(kv[k])
                    made == Cardinality(Creating(k))
                    due == Len(importing[k])
                    most == Most(k)
                    all == Imported(k)
        <5>1. kept \in Nat /\ made \in Nat /\ due \in Nat /\ most \in Nat /\ all \in Nat
          BY <1>4, <4>1, <4>2, <4>3
        <5>2. kept + made + due <= most /\ due <= all
          BY <4>4
        <5>. HIDE DEF kept, made, due, most, all
        <5>3. (kept + 1) + made + (due - 1) <= most /\ due - 1 <= all
          BY <5>1, <5>2
        <5>4. QED
          BY <4>3, <5>3 DEF kept, made, due, most, all
      <4>6. QED
        BY <3>2, <4>5
    <3>3. CASE l # k
      BY <3>1, <3>3, <1>6, <1>7
    <3>4. QED
      BY <3>2, <3>3
  <2>2. QED
    BY <1>1, <1>9, <2>1 DEF StoreKept, RowsAreCounted
<1>11. SoleWriterIsTracked'
  <2>1. dbImports # 0
    <3>1. Len(importing[k]) <= Imported(k)
      BY DEF StoreKept, RowsAreCounted
    <3>2. Len(importing[k]) # 0
      BY <1>2, <1>3, EmptySeq
    <3>3. ASSUME dbImports = 0 PROVE FALSE
      <4>1. Cardinality(Writers[k]) \in Nat
        BY MostIs DEF StoreKept, StoreTypes
      <4>2. Imported(k) = 0
        BY <3>3, <4>1 DEF Imported
      <4>3. QED
        BY <1>4, <3>1, <3>2, <4>2
    <3>4. QED
      BY <3>3
  <2>2. QED
    BY <1>1, <2>1 DEF SoleWriterIsTracked, Tracked
<1>12. DumpsAreSound'
  BY <1>1 DEF StoreKept, DumpsAreSound, SureIsThere
<1>f. FilesAreTraced'
  BY <1>1, FilesUntouched DEF StoreKept
<1>13. RestsOrLoaded'
  <2>1. importing # NoRows
    BY <1>2, NoDumpIsDump
  <2>2. ~fresh
    BY <1>1, <2>1 DEF StoreKept, RestsOrLoaded
  <2>3. QED
    BY <1>1, <2>2 DEF RestsOrLoaded
<1>14. QED
  BY <1>8, <1>10, <1>11, <1>12, <1>13, <1>f DEF StoreKept

LEMMA CrashKept ==
  ASSUME StoreKept, Crash PROVE StoreKept'
<1>1. /\ UNCHANGED <<kv, shapes, shapeRows, shapeFiles, dbFile, written, dbImports, saves, latest,
                     met, doomed, fresh>>
      /\ up' = FALSE /\ crashes' = crashes + 1
      /\ job' = [t \in Threads |-> NoJob] /\ importing' = NoRows /\ unsaved' = NoDump
  BY DEF Crash
<1>2. StoreTypes'
  <2>1. importing' \in [Keys -> Seq(Val)] /\ unsaved' \in Dump
    BY <1>1, NoDumpIsDump
  <2>2. job' \in [Threads -> Job \cup {NoJob}] /\ crashes' \in Nat
    BY <1>1 DEF StoreKept, StoreTypes
  <2>3. QED
    BY <1>1, <2>1, <2>2 DEF StoreKept, StoreTypes
<1>3. RowsAreCounted'
  <2>1. ASSUME NEW k \in Keys
        PROVE  /\ Len(kv'[k]) + Cardinality(Creating(k)') + Len(importing'[k]) <= Most(k)'
               /\ Len(importing'[k]) <= Imported(k)'
               /\ Len(dbFile'.kv[k]) <= Most(k)'
               /\ Len(unsaved'.kv[k]) <= Most(k)'
    <3>1. Most(k)' = Most(k) /\ Imported(k)' = Imported(k) /\ Most(k) \in Nat /\ Imported(k) \in Nat
      BY <1>1, MostIs DEF StoreKept, StoreTypes
    <3>2. Creating(k)' = {}
      BY <1>1 DEF Creating
    <3>3. Cardinality(Creating(k)') = 0
      BY <3>2, FS_EmptySet
    <3>4. Cardinality(Creating(k)) \in Nat
      BY CreatingIs DEF StoreKept
    <3>5. /\ Len(kv[k]) + Cardinality(Creating(k)) + Len(importing[k]) <= Most(k)
          /\ Len(dbFile.kv[k]) <= Most(k) /\ Len(kv[k]) \in Nat /\ Len(importing[k]) \in Nat
      BY DEF StoreKept, StoreTypes, RowsAreCounted
    <3>6. Len(importing'[k]) = 0 /\ Len(unsaved'.kv[k]) = 0
      BY <1>1, NoDumpIsDump
    <3>7. QED
      BY <1>1, <3>1, <3>3, <3>4, <3>5, <3>6
  <2>2. \A t \in Threads : job'[t] = NoJob
    BY <1>1
  <2>3. QED
    BY <2>1, <2>2 DEF RowsAreCounted
<1>4. SoleWriterIsTracked'
  BY <1>1 DEF SoleWriterIsTracked
<1>5. DumpsAreSound'
  BY <1>1, NoDumpIsDump DEF StoreKept, DumpsAreSound, SureIsThere
<1>f. FilesAreTraced'
  BY <1>1, FilesUntouched DEF StoreKept
<1>6. RestsOrLoaded'
  BY <1>1 DEF RestsOrLoaded
<1>7. QED
  BY <1>2, <1>3, <1>4, <1>5, <1>6, <1>f DEF StoreKept

\* What is loaded: db.json, if it is whole.
LEMMA LoadedIs ==
  ASSUME StoreKept
  PROVE  /\ Loaded \in Dump
         /\ \A k \in Keys : Len(Loaded.kv[k]) <= Most(k)
         /\ RowsAreTraced(Loaded.shapes)
<1>1. CASE dbFile.state = "whole"
  <2>1. Loaded = dbFile
    BY <1>1 DEF Loaded
  <2>2. QED
    BY <2>1 DEF StoreKept, StoreTypes, RowsAreCounted, FilesAreTraced
<1>2. CASE dbFile.state # "whole"
  <2>1. Loaded = NoDump
    BY <1>2 DEF Loaded
  <2>2. \A k \in Keys : Most(k) \in Nat /\ Len(NoDump.kv[k]) = 0
    BY MostIs, NoDumpIsDump DEF StoreKept, StoreTypes
  <2>3. \A n \in Shapes : NoDump.shapes[n] = Absent
    BY DEF NoDump, NoShapes
  <2>4. QED
    BY <2>1, <2>2, <2>3, NoDumpIsDump DEF RowsAreTraced
<1>3. QED
  BY <1>1, <1>2

LEMMA RestartKept ==
  ASSUME StoreKept, Restart PROVE StoreKept'
<1>. DEFINE L == Loaded
<1>1. /\ UNCHANGED <<job, importing, shapeFiles, unsaved, dbFile, written, dbImports, crashes,
                     saves, met, doomed>>
      /\ ~up /\ up' = TRUE /\ kv' = L.kv /\ shapes' = L.shapes /\ shapeRows' = L.shapes
      /\ latest' = [k \in Keys |-> IF L.kv[k] = << >> THEN Nothing ELSE L.kv[k][1]]
      /\ fresh' = TRUE
  BY DEF Restart
<1>2. L \in Dump /\ RowsAreTraced(L.shapes) /\ \A k \in Keys : Len(L.kv[k]) <= Most(k)
  BY LoadedIs
<1>3. (\A t \in Threads : job[t] = NoJob) /\ importing = NoRows /\ unsaved = NoDump
  BY <1>1 DEF StoreKept, RestsOrLoaded
<1>4. L' = L
  BY <1>1 DEF Loaded
<1>. HIDE DEF L
<1>5. L.kv \in [Keys -> Seq(Val)] /\ L.shapes \in [Shapes -> Files \cup {Absent}]
  BY <1>2 DEF Dump
<1>6. ASSUME NEW k \in Keys, L.kv[k] # << >> PROVE L.kv[k][1] \in Val
  <2>1. L.kv[k] \in Seq(Val)
    BY <1>5
  <2>2. QED
    BY <1>6, <2>1, EmptySeq, ElementOfSeq
<1>7. latest' \in [Keys -> Val \cup {Nothing}]
  BY <1>1, <1>6
<1>8. StoreTypes'
  BY <1>1, <1>5, <1>7 DEF StoreKept, StoreTypes
<1>9. \A k \in Keys : Creating(k)' = {} /\ Most(k)' = Most(k) /\ Imported(k)' = Imported(k)
  BY <1>1, <1>3 DEF Creating, Most, Imported
<1>10. RowsAreCounted'
  <2>1. ASSUME NEW k \in Keys
        PROVE  /\ Len(kv'[k]) + Cardinality(Creating(k)') + Len(importing'[k]) <= Most(k)
               /\ Len(importing'[k]) <= Imported(k)
               /\ Len(dbFile'.kv[k]) <= Most(k)
               /\ Len(unsaved'.kv[k]) <= Most(k)
    <3>1. Cardinality(Creating(k)') = 0
      BY <1>9, FS_EmptySet
    <3>2. Most(k) \in Nat /\ Imported(k) \in Nat
      BY MostIs DEF StoreKept, StoreTypes
    <3>3. Len(importing[k]) = 0 /\ importing' = importing
      BY <1>1, <1>3, NoDumpIsDump
    <3>4. Len(L.kv[k]) <= Most(k) /\ Len(L.kv[k]) \in Nat
      BY <1>2, <1>5
    <3>5. Len(dbFile.kv[k]) <= Most(k) /\ Len(unsaved.kv[k]) <= Most(k)
      BY DEF StoreKept, RowsAreCounted
    <3>6. QED
      BY <1>1, <3>1, <3>2, <3>3, <3>4, <3>5
  <2>2. \A t \in Threads : job'[t] = NoJob
    BY <1>1, <1>3
  <2>3. QED
    BY <1>9, <2>1, <2>2 DEF RowsAreCounted
<1>11. SoleWriterIsTracked'
  <2>1. ASSUME NEW k \in Keys, Tracked(k)' PROVE kv'[k] = LatestRow(k)'
    <3>1. Most(k) = 1
      <4>1. Tracked(k)
        BY <1>1, <2>1 DEF Tracked
      <4>2. QED
        BY <4>1, MostIs DEF StoreKept, StoreTypes
    <3>2. L.kv[k] \in Seq(Val) /\ Len(L.kv[k]) <= 1 /\ Len(L.kv[k]) \in Nat
      BY <1>2, <1>5, <3>1
    <3>3. CASE L.kv[k] = << >>
      <4>1. latest'[k] = Nothing
        BY <1>1, <3>3
      <4>2. QED
        BY <1>1, <3>3, <4>1 DEF LatestRow
    <3>4. CASE L.kv[k] # << >>
      <4>1. Len(L.kv[k]) = 1
        <5>1. Len(L.kv[k]) # 0
          BY <3>2, <3>4, EmptySeq
        <5>2. \A n \in Nat : n <= 1 /\ n # 0 => n = 1
          OBVIOUS
        <5>3. QED
          BY <3>2, <5>1, <5>2
      <4>2. L.kv[k] = <<L.kv[k][1]>>
        BY <3>2, <4>1
      <4>3. latest'[k] = L.kv[k][1]
        BY <1>1, <3>4
      <4>4. latest'[k] # Nothing
        BY <1>6, <3>4, <4>3, NothingIsNoValue
      <4>5. QED
        BY <1>1, <4>2, <4>3, <4>4 DEF LatestRow
    <3>5. QED
      BY <3>3, <3>4
  <2>2. \A t \in Threads : job'[t] = NoJob
    BY <1>1, <1>3
  <2>3. QED
    BY <1>9, <2>1, <2>2 DEF SoleWriterIsTracked
<1>12. DumpsAreSound'
  BY <1>1 DEF StoreKept, DumpsAreSound, SureIsThere
<1>13. RestsOrLoaded'
  <2>1. L' = Loaded'
    BY DEF L
  <2>2. kv' = Loaded'.kv /\ shapes' = Loaded'.shapes
    BY <1>1, <1>4, <2>1
  <2>3. QED
    BY <1>1, <1>3, <2>2 DEF RestsOrLoaded
<1>14. FilesAreTraced'
  <2>1. RowsAreTraced(shapeRows)' /\ RowsAreTraced(dbFile.shapes)'
    BY <1>1, <1>2 DEF StoreKept, FilesAreTraced, RowsAreTraced, Traced
  <2>2. \A n \in Shapes : shapes'[n] # Absent => <<n, shapes'[n]>> \in met'
    BY <1>1, <1>2 DEF RowsAreTraced
  <2>3. QED
    BY <1>1, <1>3, <2>1, <2>2 DEF FilesAreTraced
<1>15. QED
  BY <1>8, <1>10, <1>11, <1>12, <1>13, <1>14 DEF StoreKept

-----------------------------------------------------------------------------
(***************************************************************************)
(* The steps                                                               *)
(***************************************************************************)

LEMMA StoreNextKept ==
  ASSUME StoreKept, [StoreNext]_storeVars PROVE StoreKept'
<1>1. ASSUME NEW t \in Threads, NEW k \in Keys,
             StoreSet(t, k) \/ StoreAppend(t, k) \/ StoreDelete(t, k)
      PROVE  StoreKept'
  BY <1>1, StoreSetKept, StoreAppendKept, StoreDeleteKept
<1>2. ASSUME NEW k \in Keys, UseWidget(k) \/ ChangeFavorite(k) \/ ChangeSetting(k)
      PROVE  StoreKept'
  <2>1. Gui \in Threads
    BY StoreAssumption
  <2>2. \/ StoreSet(Gui, k) \/ StoreAppend(Gui, k) \/ StoreDelete(Gui, k)
        \/ \E i \in 1 .. MaxWritten : StoreSplice(k, i)
    BY <1>2 DEF UseWidget, ChangeFavorite, ChangeSetting
  <2>3. QED
    BY <2>1, <2>2, <1>1, StoreSpliceKept
<1>3. ASSUME NEW t \in Threads, EraseRows(t) \/ CreateRow(t) PROVE StoreKept'
  BY <1>3, EraseRowsKept, CreateRowKept
<1>4. CASE UNCHANGED storeVars
  <2>. USE <1>4 DEF storeVars
  <2>1. StoreTypes'
    BY DEF StoreKept, StoreTypes
  <2>2. \A k \in Keys : Len(dbFile'.kv[k]) <= Most(k) /\ Len(unsaved'.kv[k]) <= Most(k)
    BY DEF StoreKept, RowsAreCounted
  <2>3. RowsAreCounted' /\ SoleWriterIsTracked'
    BY <2>2, RowsUntouched
  <2>4. DumpsAreSound'
    BY DEF StoreKept, DumpsAreSound, SureIsThere
  <2>5. RestsOrLoaded'
    BY DEF StoreKept, RestsOrLoaded, Loaded
  <2>6. FilesAreTraced'
    BY FilesUntouched DEF StoreKept
  <2>7. QED
    BY <2>1, <2>3, <2>4, <2>5, <2>6 DEF StoreKept
<1>5. ASSUME NEW n \in Shapes, EditShape(n) \/ DeleteShape(n) \/ DropShape(n)
      PROVE  StoreKept'
  <2>1. PICK f \in Files : f = shapes[n]
    BY <1>5 DEF EditShape, DeleteShape, DropShape, StoreKept, StoreTypes
  <2>2. QED
    BY <1>5, ShapesKept
<1>6. QED
  BY <1>1, <1>2, <1>3, <1>4, <1>5, ShapesKept, SaveRowsKept, WriteDbFileKept, ImportDbKept,
     ImportRowKept, CrashKept, RestartKept DEF StoreNext

-----------------------------------------------------------------------------
(***************************************************************************)
(* Theorems                                                                *)
(***************************************************************************)

LEMMA StoreAlwaysKept == StoreInit /\ [][StoreNext]_storeVars => []StoreKept
<1>1. StoreInit => StoreKept
  BY StoreInitKept
<1>2. StoreKept /\ [StoreNext]_storeVars => StoreKept'
  BY StoreNextKept
<1>3. QED
  BY <1>1, <1>2, PTL

LEMMA StoreKeptIsTyped == StoreKept => StoreTypeOK
<1>. SUFFICES ASSUME StoreKept PROVE StoreTypeOK
  OBVIOUS
<1>1. ASSUME NEW k \in Keys PROVE Len(kv[k]) <= Cardinality(Writers[k]) * (1 + dbImports)
  <2>1. Len(kv[k]) \in Nat /\ Len(importing[k]) \in Nat
    BY DEF StoreKept, StoreTypes
  <2>2. Cardinality(Creating(k)) \in Nat
    BY CreatingIs DEF StoreKept
  <2>3. Len(kv[k]) + Cardinality(Creating(k)) + Len(importing[k]) <= Most(k)
    BY DEF StoreKept, RowsAreCounted
  <2>4. Most(k) \in Nat
    BY MostIs DEF StoreKept, StoreTypes
  <2>5. Len(kv[k]) <= Most(k)
    BY <2>1, <2>2, <2>3, <2>4
  <2>6. QED
    BY <2>5 DEF Most
<1>2. /\ shapes \in [Shapes -> Files \cup {Absent}] /\ shapeRows \in [Shapes -> Files \cup {Absent}]
      /\ shapeFiles \in [Files -> Shapes \cup {Absent}]
      /\ met \subseteq Shapes \X Files /\ doomed \subseteq Files
  BY DEF StoreKept, StoreTypes
<1>3. QED
  BY <1>1, <1>2 DEF StoreKept, DumpsAreSound, StoreTypeOK

\* A list or a setting that one thread writes always has the value set last, in one
\* row, except while that thread is between the DELETE and the CREATE of db.rs
\* kv_set: whatever the other threads do, and after any number of crashes and
\* restarts, until the table is imported.
THEOREM SoleWritersAlwaysReadTheirWrites ==
  StoreInit /\ [][StoreNext]_storeVars => []SoleWriterReadsItsWrites
<1>1. StoreKept => SoleWriterReadsItsWrites
  <2>. SUFFICES ASSUME StoreKept PROVE SoleWriterReadsItsWrites
    OBVIOUS
  <2>1. ASSUME NEW k \in Keys, up, Sole(k), dbImports = 0
        PROVE  \/ kv[k] = IF latest[k] = Nothing THEN << >> ELSE <<latest[k]>>
               \/ \E t \in Writers[k] : ~Resting(t) /\ job[t].key = k /\ kv[k] = << >>
    <3>1. kv[k] = IF Creating(k) = {} THEN LatestRow(k) ELSE << >>
      BY <2>1 DEF StoreKept, SoleWriterIsTracked, Tracked
    <3>2. CASE Creating(k) = {}
      BY <3>1, <3>2 DEF LatestRow
    <3>3. CASE Creating(k) # {}
      <4>1. PICK t \in Creating(k) : TRUE
        BY <3>3
      <4>2. t \in Writers[k] /\ ~Resting(t) /\ job[t].key = k
        BY <4>1, CreatingIs DEF StoreKept, Creating, Resting
      <4>3. QED
        BY <3>1, <3>3, <4>2
    <3>4. QED
      BY <3>2, <3>3
  <2>2. QED
    BY <2>1, StoreKeptIsTyped DEF SoleWriterReadsItsWrites
<1>2. QED
  BY <1>1, StoreAlwaysKept, PTL

\* What one thread had set, and nobody was setting when db.json was made, is there
\* when the program starts again, unless it stopped while it wrote the file.
THEOREM SavedValuesAlwaysComeBack ==
  StoreInit /\ [][StoreNext]_storeVars => []KeptBySaving
<1>1. StoreKept => KeptBySaving
  <2>. SUFFICES ASSUME StoreKept, fresh, up, NEW s \in dbFile.sure PROVE KvGet(s[1]) = s[2]
    BY DEF KeptBySaving
  <2>1. dbFile.state = "whole"
    BY DEF StoreKept, DumpsAreSound
  <2>2. kv = dbFile.kv
    BY <2>1 DEF StoreKept, RestsOrLoaded, Loaded
  <2>3. dbFile.kv[s[1]] # << >> /\ dbFile.kv[s[1]][1] = s[2]
    BY DEF StoreKept, DumpsAreSound, SureIsThere
  <2>4. QED
    BY <2>2, <2>3 DEF KvGet
<1>2. QED
  BY <1>1, StoreAlwaysKept, PTL

\* When the program starts, a node finds the program it wrote itself, however nodes were
\* added, edited, undone and saved before: unless, since db.json last agreed with the nodes,
\* the file of its label was deleted (app.rs DeleteNode), moved or moved onto (panels.rs,
\* the inspector), or another node had the label.
THEOREM NodesAlwaysFindTheirProgram ==
  StoreInit /\ [][StoreNext]_storeVars => []NodesFindTheirProgram
<1>1. StoreKept => NodesFindTheirProgram
  <2>. SUFFICES ASSUME StoreKept, fresh, up, NEW n \in Shapes, shapes[n] # Absent
                PROVE  Traced(n, shapes[n])
    BY DEF NodesFindTheirProgram, Traced
  <2>1. shapes = Loaded.shapes
    BY DEF StoreKept, RestsOrLoaded
  <2>2. QED
    BY <2>1, LoadedIs DEF RowsAreTraced
<1>2. QED
  BY <1>1, StoreAlwaysKept, PTL
===========================================================================
