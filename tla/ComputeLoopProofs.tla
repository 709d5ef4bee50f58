------------------------ MODULE ComputeLoopProofs -------------------------
(***************************************************************************)
(* Proofs about ComputeLoop, for every set of nodes, every canvas and use.  *)
(***************************************************************************)
EXTENDS ComputeLoop, TLAPS

-----------------------------------------------------------------------------
(***************************************************************************)
(* Requests, and what a step does to one node                              *)
(***************************************************************************)

\* TypeOK without the bound on versions, which needs OutputsInLine.
Typed ==
  /\ use \in Uses
  /\ started \in BOOLEAN
  /\ ver \in [Nodes -> Nat]
  /\ broken \subseteq Nodes
  /\ out \in [Nodes -> [ver : Nat, from : [Nodes -> Nat]]]
  /\ rev \in [Nodes -> Nat]
  /\ failed \subseteq Nodes
  /\ pending \subseteq Nodes
  /\ cur \in [Nodes -> Evaluation \cup {None}]
  /\ waiting \in [Nodes -> Request \cup {None}]
  /\ mail \subseteq Nodes

\* The input values a request of n carries: none of a node that n does not
\* import, and all of them already if n is not a script.
Shaped(n, req) ==
  \A m \in Nodes : /\ m \notin Imports[n] => req.from[m] = 0
                   /\ n \in Snapshot => req.from[m] # Unread

\* All requests are so, and an evaluation that ended has read its imports.
RequestsShaped ==
  \A n \in Nodes :
    /\ Shaped(n, out[n])
    /\ waiting[n] # None => Shaped(n, waiting[n])
    /\ cur[n] # None => Shaped(n, cur[n].req)
    /\ Finished(n) => \A m \in Nodes : cur[n].req.from[m] # Unread

Base == Typed /\ RequestsShaped

\* The request a step makes for n carries what holds after the step.
Asked(n) == RequestOf(n, ver'[n], n \in broken', rev')

\* What a step may do to n: nothing or give it another request to wait, start
\* it, throw its result away, let it read a library, let it end, or take its
\* result, after which what waited starts and n may be asked again.
Stays(n) ==
  /\ cur'[n] = cur[n]
  /\ waiting'[n] \in {waiting[n], None, Asked(n)}
  /\ out'[n] = out[n]
Starts(n) ==
  /\ cur[n] = None
  /\ \/ cur'[n] = Begin(Asked(n))
     \/ waiting[n] # None /\ cur'[n] = Begin(waiting[n])
  /\ waiting'[n] = None
  /\ out'[n] = out[n]
Drops(n) ==
  /\ Finished(n)
  /\ cur'[n] = [cur[n] EXCEPT !.phase = "lost"]
  /\ waiting'[n] = None
  /\ out'[n] = out[n]
Reads(n) ==
  /\ Running(n)
  /\ \E m \in Imports[n] : /\ cur[n].req.from[m] = Unread
                           /\ cur'[n] = [cur[n] EXCEPT !.req.from[m] = rev[m]]
  /\ waiting'[n] = waiting[n]
  /\ out'[n] = out[n]
Ends(n) ==
  /\ Running(n)
  /\ UnreadImports(n) = {}
  /\ cur'[n] = [cur[n] EXCEPT !.phase = "done"]
  /\ waiting'[n] = waiting[n]
  /\ out'[n] = out[n]
Polled(n) ==
  /\ Finished(n)
  /\ \/ out'[n] = out[n]
     \/ out'[n] = [ver |-> cur[n].req.ver, from |-> cur[n].req.from]
  /\ IF waiting[n] # None
     THEN cur'[n] = Begin(waiting[n]) /\ waiting'[n] \in {None, Asked(n)}
     ELSE cur'[n] \in {None, Begin(Asked(n))} /\ waiting'[n] = None

NodeStep(n) ==
  Stays(n) \/ Starts(n) \/ Drops(n) \/ Reads(n) \/ Ends(n) \/ Polled(n)

\* What a step does to the whole: programs and outputs only gain versions and
\* revisions, and every node makes a step of its own.
WholeStep ==
  /\ use' = use
  /\ started' \in BOOLEAN
  /\ broken' \subseteq Nodes
  /\ failed' \subseteq Nodes
  /\ pending' \subseteq Nodes
  /\ mail' \subseteq Nodes
  /\ ver' \in [Nodes -> Nat]
  /\ rev' \in [Nodes -> Nat]
  /\ DOMAIN cur' = Nodes /\ cur' = [n \in Nodes |-> cur'[n]]
  /\ DOMAIN waiting' = Nodes /\ waiting' = [n \in Nodes |-> waiting'[n]]
  /\ DOMAIN out' = Nodes /\ out' = [n \in Nodes |-> out'[n]]
  /\ \A n \in Nodes : ver'[n] >= ver[n] /\ rev'[n] >= rev[n]
  /\ \A n \in Nodes : ver'[n] > ver[n] => ver'[n] =< use.versions
  /\ \A n \in Nodes : NodeStep(n)

\* What is known of the canvas.
LEMMA UseFacts ==
  ASSUME Typed
  PROVE  /\ use.nodes \subseteq Nodes
         /\ use.versions \in 1 .. MaxVersion
         /\ Imports \in [Nodes -> SUBSET Nodes]
         /\ Snapshot \subseteq Nodes
         /\ Sends \in [Nodes -> SUBSET Nodes]
         /\ use.ops \subseteq AllOps
         /\ use.calm \in BOOLEAN
BY ConstantsAssumption DEF Typed, Use, Imports, Snapshot, Sends

\* A request made for n is a request of n.
LEMMA RequestOfType ==
  ASSUME NEW n \in Nodes, NEW v \in Nat, NEW b \in BOOLEAN,
         NEW revs \in [Nodes -> Nat]
  PROVE  /\ RequestOf(n, v, b, revs) \in Request
         /\ RequestOf(n, v, b, revs) # None
         /\ Begin(RequestOf(n, v, b, revs)) \in Evaluation
         /\ Begin(RequestOf(n, v, b, revs)) # None
         /\ Shaped(n, RequestOf(n, v, b, revs))
<1>1. RequestOf(n, v, b, revs) \in Request
  BY DEF RequestOf, Request, Seen
<1>2. Begin(RequestOf(n, v, b, revs)) \in Evaluation
  BY <1>1 DEF Begin, Evaluation
<1>3. Shaped(n, RequestOf(n, v, b, revs))
  BY NoneAssumption DEF Shaped, RequestOf, Unread
<1>4. QED
  BY <1>1, <1>2, <1>3, NoneAssumption

\* actor_runtime.compute starts the idle nodes of S and makes the others wait.
LEMMA ComputeStep ==
  ASSUME NEW S, NEW curs, NEW waits, NEW reqs, NEW n \in Nodes
  PROVE  /\ n \notin S => /\ CurWith(curs, S, reqs)[n] = curs[n]
                          /\ WaitingWith(curs, waits, S, reqs)[n] = waits[n]
         /\ n \in S /\ curs[n] = None =>
              /\ CurWith(curs, S, reqs)[n] = Begin(reqs[n])
              /\ WaitingWith(curs, waits, S, reqs)[n] = None
         /\ n \in S /\ curs[n] # None =>
              /\ CurWith(curs, S, reqs)[n] = curs[n]
              /\ WaitingWith(curs, waits, S, reqs)[n] = reqs[n]
BY DEF CurWith, WaitingWith

\* The nodes computed as they are now start or wait.
LEMMA ComputeNodesStep ==
  ASSUME Typed, NEW S \in SUBSET Nodes, ComputeNodes(S),
         ver' = ver, broken' = broken, rev' = rev, use' = use, out' = out,
         started' \in BOOLEAN, failed' = failed, mail' \subseteq Nodes
  PROVE  WholeStep
<1>1. \A n \in Nodes : RequestsNow[n] = Asked(n)
  BY DEF RequestsNow, Asked, RequestOf, Imports, Snapshot
<1>2. \A n \in Nodes : Stays(n) \/ Starts(n)
  <2>1. TAKE n \in Nodes
  <2>2. cur' = CurWith(cur, S, RequestsNow)
        /\ waiting' = WaitingWith(cur, waiting, S, RequestsNow)
    BY DEF ComputeNodes
  <2>3. CASE n \notin S
    BY <2>2, <2>3, ComputeStep DEF Stays
  <2>4. CASE n \in S /\ cur[n] = None
    BY <1>1, <2>2, <2>4, ComputeStep DEF Starts
  <2>5. CASE n \in S /\ cur[n] # None
    <3>1. cur'[n] = cur[n] /\ waiting'[n] = RequestsNow[n]
      BY <2>2, <2>5, ComputeStep
    <3>2. QED
      BY <1>1, <3>1 DEF Stays
  <2>6. QED
    BY <2>3, <2>4, <2>5
<1>3. /\ DOMAIN cur' = Nodes /\ cur' = [n \in Nodes |-> cur'[n]]
      /\ DOMAIN waiting' = Nodes /\ waiting' = [n \in Nodes |-> waiting'[n]]
      /\ pending' \subseteq Nodes
  BY DEF ComputeNodes, CurWith, WaitingWith, Typed
<1>4. \A n \in Nodes : ver'[n] >= ver[n] /\ rev'[n] >= rev[n] /\ ~(ver'[n] > ver[n])
  BY DEF Typed
<1>5. DOMAIN out' = Nodes /\ out' = [n \in Nodes |-> out'[n]]
  BY DEF Typed
<1>6. QED
  BY <1>2, <1>3, <1>4, <1>5 DEF WholeStep, NodeStep, Typed

\* Every step of the loop is a step of every node.
LEMMA StepOfTheLoop ==
  ASSUME Base, [Next]_vars
  PROVE  WholeStep
<1>. USE DEF Base
<1>u. /\ use.nodes \subseteq Nodes
      /\ use.versions \in 1 .. MaxVersion
      /\ Imports \in [Nodes -> SUBSET Nodes]
      /\ Sends \in [Nodes -> SUBSET Nodes]
      /\ MaxVersion \in Nat
  BY UseFacts, ConstantsAssumption
<1>f. /\ DOMAIN cur = Nodes /\ cur = [n \in Nodes |-> cur[n]]
      /\ DOMAIN waiting = Nodes /\ waiting = [n \in Nodes |-> waiting[n]]
      /\ DOMAIN out = Nodes /\ out = [n \in Nodes |-> out[n]]
  BY DEF Typed
<1>s. /\ ver' = ver => \A n \in Nodes : ver'[n] >= ver[n] /\ ~(ver'[n] > ver[n])
      /\ rev' = rev => \A n \in Nodes : rev'[n] >= rev[n]
  BY DEF Typed
<1>i. ASSUME NEW n \in Nodes, cur'[n] = cur[n], waiting'[n] = waiting[n], out'[n] = out[n]
      PROVE  NodeStep(n)
  BY <1>i DEF NodeStep, Stays
<1>v. ASSUME NEW n \in Nodes, ver[n] < use.versions, ver' = [ver EXCEPT ![n] = @ + 1]
      PROVE  /\ ver' \in [Nodes -> Nat]
             /\ ver'[n] = ver[n] + 1
             /\ \A k \in Nodes : /\ ver'[k] >= ver[k]
                                 /\ ver'[k] > ver[k] => ver'[k] =< use.versions
  <2>1. ver \in [Nodes -> Nat] /\ use.versions \in Nat
    BY <1>u DEF Typed
  <2>2. ver' \in [Nodes -> Nat] /\ ver'[n] = ver[n] + 1
    BY <1>v, <2>1
  <2>3. ASSUME NEW k \in Nodes
        PROVE  ver'[k] >= ver[k] /\ (ver'[k] > ver[k] => ver'[k] =< use.versions)
    <3>1. CASE k = n
      BY <1>v, <2>1, <2>2, <3>1
    <3>2. CASE k # n
      BY <1>v, <2>1, <3>2
    <3>3. QED
      BY <3>1, <3>2
  <2>4. QED
    BY <2>2, <2>3
<1>1. ASSUME NEW n \in use.nodes, EditWidget(n)
      PROVE  WholeStep
  <2>1. n \in Nodes
    BY <1>u
  <2>2. /\ waiting' = [waiting EXCEPT ![n] = RequestOf(n, ver[n] + 1, n \in broken, rev)]
        /\ UNCHANGED <<use, started, broken, out, rev, failed, cur, mail>>
        /\ ver' = [ver EXCEPT ![n] = @ + 1] /\ ver[n] < use.versions
        /\ pending' = pending \cup {n}
    BY <1>1 DEF EditWidget, EditSkips
  <2>3. waiting'[n] = Asked(n)
    BY <1>v, <1>f, <2>1, <2>2 DEF Asked, RequestOf, Imports, Snapshot
  <2>4. \A k \in Nodes : NodeStep(k)
    <3>1. TAKE k \in Nodes
    <3>2. CASE k = n
      BY <2>2, <2>3, <3>2 DEF NodeStep, Stays
    <3>3. CASE k # n
      BY <1>i, <1>f, <2>2, <3>3
    <3>4. QED
      BY <3>2, <3>3
  <2>5. DOMAIN waiting' = Nodes /\ waiting' = [k \in Nodes |-> waiting'[k]]
    BY <1>f, <2>2
  <2>6. pending' \subseteq Nodes
    BY <2>1, <2>2 DEF Typed
  <2>7. rev' \in [Nodes -> Nat] /\ started' \in BOOLEAN /\ broken' \subseteq Nodes
        /\ failed' \subseteq Nodes /\ mail' \subseteq Nodes
    BY <2>2 DEF Typed
  <2>8. \A k \in Nodes : rev'[k] >= rev[k]
    BY <1>s, <2>2
  <2>9. QED
    BY <1>f, <1>v, <2>1, <2>2, <2>4, <2>5, <2>6, <2>7, <2>8 DEF WholeStep
<1>2. ASSUME NEW n \in use.nodes, EditFile(n)
      PROVE  WholeStep
  <2>1. n \in Nodes
    BY <1>u
  <2>2. /\ UNCHANGED <<use, started, out, rev, failed, mail>>
        /\ ver' = [ver EXCEPT ![n] = @ + 1] /\ ver[n] < use.versions
        /\ pending' = pending \cup {n}
    BY <1>2 DEF EditFile
  <2>3. PICK bad \in BOOLEAN :
          /\ broken' = IF bad THEN broken \cup {n} ELSE broken \ {n}
          /\ cur' = CurWith(cur, {n}, [k \in Nodes |-> RequestOf(n, ver[n] + 1, bad, rev)])
          /\ waiting' = WaitingWith(cur, waiting, {n},
                          [k \in Nodes |-> RequestOf(n, ver[n] + 1, bad, rev)])
    BY <1>2 DEF EditFile
  <2>4. Asked(n) = RequestOf(n, ver[n] + 1, bad, rev)
    <3>1. (n \in broken') = bad
      BY <2>3
    <3>2. ver'[n] = ver[n] + 1
      BY <1>v, <2>1, <2>2
    <3>3. QED
      BY <2>2, <3>1, <3>2 DEF Asked, RequestOf, Imports, Snapshot
  <2>5. \A k \in Nodes : NodeStep(k)
    <3>1. TAKE k \in Nodes
    <3>2. CASE k # n
      <4>1. cur'[k] = cur[k] /\ waiting'[k] = waiting[k] /\ out'[k] = out[k]
        BY <2>2, <2>3, <3>2 DEF CurWith, WaitingWith
      <4>2. QED
        BY <1>i, <4>1
    <3>3. CASE k = n /\ cur[n] = None
      <4>1. cur'[n] = Begin(Asked(n)) /\ waiting'[n] = None
        BY <2>1, <2>3, <2>4, <3>3 DEF CurWith, WaitingWith
      <4>2. QED
        BY <2>2, <3>3, <4>1 DEF NodeStep, Starts
    <3>4. CASE k = n /\ cur[n] # None
      <4>1. cur'[n] = cur[n] /\ waiting'[n] = Asked(n)
        BY <2>1, <2>3, <2>4, <3>4 DEF CurWith, WaitingWith
      <4>2. QED
        BY <2>2, <3>4, <4>1 DEF NodeStep, Stays
    <3>5. QED
      BY <3>2, <3>3, <3>4
  <2>6. /\ DOMAIN waiting' = Nodes /\ waiting' = [k \in Nodes |-> waiting'[k]]
        /\ DOMAIN cur' = Nodes /\ cur' = [k \in Nodes |-> cur'[k]]
    BY <2>3 DEF CurWith, WaitingWith
  <2>7. pending' \subseteq Nodes /\ broken' \subseteq Nodes
    BY <2>1, <2>2, <2>3 DEF Typed
  <2>8. /\ \A k \in Nodes : rev'[k] >= rev[k]
        /\ rev' \in [Nodes -> Nat] /\ started' \in BOOLEAN
        /\ failed' \subseteq Nodes /\ mail' \subseteq Nodes
    BY <1>s, <2>2 DEF Typed
  <2>9. QED
    BY <1>f, <1>v, <2>1, <2>2, <2>5, <2>6, <2>7, <2>8 DEF WholeStep
<1>3. ASSUME NEW n \in use.nodes, UpdateNode(n)
      PROVE  WholeStep
  <2>1. n \in Nodes
    BY <1>u
  <2>2. /\ UNCHANGED <<use, started, out, rev, failed, pending, cur, waiting, mail>>
        /\ ver' = [ver EXCEPT ![n] = @ + 1] /\ ver[n] < use.versions
        /\ broken' \in {broken \cup {n}, broken \ {n}}
    BY <1>3 DEF UpdateNode
  <2>3. \A k \in Nodes : NodeStep(k)
    BY <1>i, <2>2
  <2>4. broken' \subseteq Nodes
    BY <2>1, <2>2 DEF Typed
  <2>5. /\ \A k \in Nodes : rev'[k] >= rev[k]
        /\ rev' \in [Nodes -> Nat] /\ started' \in BOOLEAN
        /\ failed' \subseteq Nodes /\ mail' \subseteq Nodes /\ pending' \subseteq Nodes
    BY <1>s, <2>2 DEF Typed
  <2>6. QED
    BY <1>f, <1>v, <2>1, <2>2, <2>3, <2>4, <2>5 DEF WholeStep
<1>4. ASSUME NEW n \in use.nodes, ComputeIfReady(n)
      PROVE  WholeStep
  <2>1. {n} \in SUBSET Nodes
    BY <1>u
  <2>2. mail \subseteq Nodes /\ started \in BOOLEAN
    BY DEF Typed
  <2>3. QED
    BY <1>4, <2>1, <2>2, ComputeNodesStep DEF ComputeIfReady
<1>5. ASSUME NEW n \in use.nodes, ComputeRoots(n)
      PROVE  WholeStep
  <2>1. Ready(Roots(n)) \in SUBSET Nodes
    BY <1>u DEF Roots, Ready
  <2>2. mail \subseteq Nodes /\ started \in BOOLEAN
    BY DEF Typed
  <2>3. QED
    BY <1>5, <2>1, <2>2, ComputeNodesStep DEF ComputeRoots
<1>6. ASSUME NEW n \in use.nodes, RecomputeSelected(n)
      PROVE  WholeStep
  <2>1. {n} \in SUBSET Nodes
    BY <1>u
  <2>2. mail \subseteq Nodes /\ started \in BOOLEAN
    BY DEF Typed
  <2>3. QED
    BY <1>6, <2>1, <2>2, ComputeNodesStep DEF RecomputeSelected
<1>7. ASSUME NEW n \in use.nodes, SendMessage(n)
      PROVE  WholeStep
  <2>1. Ready({n}) \in SUBSET Nodes /\ n \in Nodes
    BY <1>u DEF Ready
  <2>2. mail \cup {n} \subseteq Nodes /\ started \in BOOLEAN
    BY <2>1 DEF Typed
  <2>3. QED
    BY <1>7, <2>1, <2>2, ComputeNodesStep DEF SendMessage
<1>8. ASSUME CancelCompute
      PROVE  WholeStep
  <2>1. /\ pending' = {} /\ UNCHANGED <<use, started, ver, broken, out, rev, failed, mail>>
        /\ waiting' = [n \in Nodes |-> None]
        /\ cur' = [n \in Nodes |-> IF cur[n] # None /\ cur[n].phase = "done"
                                   THEN [cur[n] EXCEPT !.phase = "lost"] ELSE cur[n]]
    BY <1>8 DEF CancelCompute
  <2>2. \A n \in Nodes : NodeStep(n)
    BY <2>1 DEF NodeStep, Drops, Stays, Finished
  <2>3. /\ DOMAIN waiting' = Nodes /\ waiting' = [k \in Nodes |-> waiting'[k]]
        /\ DOMAIN cur' = Nodes /\ cur' = [k \in Nodes |-> cur'[k]]
    BY <2>1
  <2>4. /\ \A k \in Nodes : ver'[k] >= ver[k] /\ rev'[k] >= rev[k] /\ ~(ver'[k] > ver[k])
        /\ ver' \in [Nodes -> Nat] /\ rev' \in [Nodes -> Nat]
        /\ started' \in BOOLEAN /\ broken' \subseteq Nodes
        /\ failed' \subseteq Nodes /\ mail' \subseteq Nodes /\ pending' \subseteq Nodes
    BY <1>s, <2>1 DEF Typed
  <2>5. QED
    BY <1>f, <2>1, <2>2, <2>3, <2>4 DEF WholeStep
<1>9. ASSUME ComputeAll
      PROVE  WholeStep
  <2>1. use.nodes \in SUBSET Nodes /\ Unplaced \in SUBSET Nodes
    BY <1>u DEF Unplaced
  <2>2. mail \subseteq Nodes
    BY DEF Typed
  <2>3. CASE Unplaced = {}
    BY <1>9, <2>1, <2>2, <2>3, ComputeNodesStep DEF ComputeAll
  <2>4. CASE Unplaced # {}
    BY <1>9, <2>1, <2>2, <2>4, ComputeNodesStep DEF ComputeAll
  <2>5. QED
    BY <2>3, <2>4
<1>q. ASSUME UNCHANGED <<use, started, ver, broken, failed, mail>>, pending' \subseteq Nodes,
             rev' = rev, \A n \in Nodes : NodeStep(n),
             DOMAIN cur' = Nodes /\ cur' = [k \in Nodes |-> cur'[k]],
             DOMAIN waiting' = Nodes /\ waiting' = [k \in Nodes |-> waiting'[k]],
             out' = out
      PROVE  WholeStep
  <2>1. /\ \A k \in Nodes : ver'[k] >= ver[k] /\ rev'[k] >= rev[k] /\ ~(ver'[k] > ver[k])
        /\ ver' \in [Nodes -> Nat] /\ rev' \in [Nodes -> Nat]
        /\ started' \in BOOLEAN /\ broken' \subseteq Nodes
        /\ failed' \subseteq Nodes /\ mail' \subseteq Nodes
    BY <1>s, <1>q DEF Typed
  <2>2. QED
    BY <1>f, <1>q, <2>1 DEF WholeStep
<1>10. ASSUME NEW n \in Nodes, Flush(n)
       PROVE  WholeStep
  <2>1. /\ UNCHANGED <<use, started, ver, broken, out, rev, failed, pending, mail>>
        /\ cur[n] = None /\ waiting[n] # None
        /\ cur' = [cur EXCEPT ![n] = Begin(waiting[n])]
        /\ waiting' = [waiting EXCEPT ![n] = None]
    BY <1>10 DEF Flush
  <2>2. ASSUME NEW k \in Nodes PROVE NodeStep(k)
    <3>1. CASE k = n
      BY <1>f, <2>1, <3>1 DEF NodeStep, Starts
    <3>2. CASE k # n
      BY <1>i, <1>f, <2>1, <3>2
    <3>3. QED
      BY <3>1, <3>2
  <2>3. /\ DOMAIN waiting' = Nodes /\ waiting' = [k \in Nodes |-> waiting'[k]]
        /\ DOMAIN cur' = Nodes /\ cur' = [k \in Nodes |-> cur'[k]]
    BY <1>f, <2>1
  <2>4. QED
    BY <1>q, <2>1, <2>2, <2>3 DEF Typed
<1>11. ASSUME NEW n \in Nodes, NEW m \in Imports[n], ReadLibrary(n, m)
       PROVE  WholeStep
  <2>1. /\ UNCHANGED <<use, started, ver, broken, out, rev, failed, pending, waiting, mail>>
        /\ Running(n) /\ cur[n].req.from[m] = Unread
        /\ cur' = [cur EXCEPT ![n].req.from[m] = rev[m]]
    BY <1>11 DEF ReadLibrary, UnreadImports
  <2>2. ASSUME NEW k \in Nodes PROVE NodeStep(k)
    <3>1. CASE k = n
      BY <1>f, <2>1, <3>1 DEF NodeStep, Reads
    <3>2. CASE k # n
      BY <1>i, <1>f, <2>1, <3>2
    <3>3. QED
      BY <3>1, <3>2
  <2>3. /\ DOMAIN waiting' = Nodes /\ waiting' = [k \in Nodes |-> waiting'[k]]
        /\ DOMAIN cur' = Nodes /\ cur' = [k \in Nodes |-> cur'[k]]
    BY <1>f, <2>1
  <2>4. QED
    BY <1>q, <2>1, <2>2, <2>3 DEF Typed
<1>12. ASSUME NEW n \in Nodes, Finish(n)
       PROVE  WholeStep
  <2>1. /\ UNCHANGED <<use, started, ver, broken, out, rev, failed, pending, waiting>>
        /\ Running(n) /\ UnreadImports(n) = {}
        /\ cur' = [cur EXCEPT ![n].phase = "done"]
        /\ mail' \subseteq mail \cup Sends[n]
    BY <1>12 DEF Finish
  <2>2. ASSUME NEW k \in Nodes PROVE NodeStep(k)
    <3>1. CASE k = n
      BY <1>f, <2>1, <3>1 DEF NodeStep, Ends
    <3>2. CASE k # n
      BY <1>i, <1>f, <2>1, <3>2
    <3>3. QED
      BY <3>1, <3>2
  <2>3. /\ DOMAIN waiting' = Nodes /\ waiting' = [k \in Nodes |-> waiting'[k]]
        /\ DOMAIN cur' = Nodes /\ cur' = [k \in Nodes |-> cur'[k]]
    BY <1>f, <2>1
  <2>4. /\ \A k \in Nodes : ver'[k] >= ver[k] /\ rev'[k] >= rev[k] /\ ~(ver'[k] > ver[k])
        /\ ver' \in [Nodes -> Nat] /\ rev' \in [Nodes -> Nat]
        /\ started' \in BOOLEAN /\ broken' \subseteq Nodes
        /\ failed' \subseteq Nodes /\ pending' \subseteq Nodes
    BY <1>s, <2>1 DEF Typed
  <2>5. mail' \subseteq Nodes
    BY <1>u, <2>1 DEF Typed
  <2>6. QED
    BY <1>f, <2>1, <2>2, <2>3, <2>4, <2>5 DEF WholeStep
<1>13. ASSUME NEW n \in Nodes, PollError(n)
       PROVE  WholeStep
  <2>1. /\ UNCHANGED <<use, started, ver, broken, out, rev, mail>>
        /\ Finished(n) /\ failed' = failed \cup {n} /\ pending' = pending \ {n}
        /\ cur' = [cur EXCEPT ![n] = IF waiting[n] = None THEN None ELSE Begin(waiting[n])]
        /\ waiting' = [waiting EXCEPT ![n] = None]
    BY <1>13 DEF PollError, PendingAfter, CurAfterPoll, WaitingAfterPoll
  <2>2. ASSUME NEW k \in Nodes PROVE NodeStep(k)
    <3>1. CASE k = n /\ waiting[n] = None
      <4>1. cur'[n] = None /\ waiting'[n] = None /\ out'[n] = out[n]
        BY <1>f, <2>1, <3>1
      <4>2. QED
        BY <2>1, <3>1, <4>1 DEF NodeStep, Polled
    <3>2. CASE k = n /\ waiting[n] # None
      <4>1. cur'[n] = Begin(waiting[n]) /\ waiting'[n] = None /\ out'[n] = out[n]
        BY <1>f, <2>1, <3>2
      <4>2. QED
        BY <2>1, <3>2, <4>1 DEF NodeStep, Polled
    <3>3. CASE k # n
      BY <1>i, <1>f, <2>1, <3>3
    <3>4. QED
      BY <3>1, <3>2, <3>3
  <2>3. /\ DOMAIN waiting' = Nodes /\ waiting' = [k \in Nodes |-> waiting'[k]]
        /\ DOMAIN cur' = Nodes /\ cur' = [k \in Nodes |-> cur'[k]]
    BY <1>f, <2>1
  <2>4. /\ \A k \in Nodes : ver'[k] >= ver[k] /\ rev'[k] >= rev[k] /\ ~(ver'[k] > ver[k])
        /\ ver' \in [Nodes -> Nat] /\ rev' \in [Nodes -> Nat]
        /\ started' \in BOOLEAN /\ broken' \subseteq Nodes
        /\ failed' \subseteq Nodes /\ mail' \subseteq Nodes /\ pending' \subseteq Nodes
    BY <1>s, <2>1 DEF Typed
  <2>5. QED
    BY <1>f, <2>1, <2>2, <2>3, <2>4 DEF WholeStep
<1>14. ASSUME NEW n \in Nodes, PollComputed(n)
       PROVE  WholeStep
  <2>. DEFINE now   == [ver |-> cur[n].req.ver, from |-> cur[n].req.from]
              revs  == [rev EXCEPT ![n] = IF now = out[n] THEN @ ELSE @ + 1]
              left  == PendingAfter(n)
              woken == Woken(n, left)
              asked == woken \cup Propagated(n, left \cup woken)
              reqs  == [m \in Nodes |-> RequestOf(m, ver[m], m \in broken, revs)]
  <2>1. /\ UNCHANGED <<use, started, ver, broken, mail>>
        /\ Finished(n) /\ failed' = failed \ {n} /\ pending' = left \cup asked
        /\ out' = [out EXCEPT ![n] = now]
        /\ rev' = revs
        /\ cur' = CurWith(CurAfterPoll(n), asked, reqs)
        /\ waiting' = WaitingWith(CurAfterPoll(n), WaitingAfterPoll(n), asked, reqs)
    BY <1>14 DEF PollComputed
  <2>2. rev' \in [Nodes -> Nat] /\ \A k \in Nodes : rev'[k] >= rev[k]
    <3>1. rev \in [Nodes -> Nat]
      BY DEF Typed
    <3>2. CASE now = out[n]
      BY <2>1, <3>1, <3>2
    <3>3. CASE now # out[n]
      BY <2>1, <3>1, <3>3
    <3>4. QED
      BY <3>2, <3>3
  <2>3. \A k \in Nodes : reqs[k] = Asked(k)
    BY <2>1 DEF Asked, RequestOf, Imports, Snapshot
  <2>4. /\ \A k \in Nodes \ {n} : /\ CurAfterPoll(n)[k] = cur[k]
                                  /\ WaitingAfterPoll(n)[k] = waiting[k]
                                  /\ out'[k] = out[k]
        /\ waiting[n] = None => CurAfterPoll(n)[n] = None
        /\ waiting[n] # None => CurAfterPoll(n)[n] = Begin(waiting[n])
        /\ WaitingAfterPoll(n)[n] = None
        /\ out'[n] = now
    BY <1>f, <2>1 DEF CurAfterPoll, WaitingAfterPoll
  <2>7. asked \subseteq Nodes
    BY <1>u DEF Woken, Propagated, Downstream
  <2>8. pending' \subseteq Nodes
    BY <2>1, <2>7 DEF PendingAfter, Typed
  <2>. HIDE DEF asked, reqs
  <2>5. ASSUME NEW k \in Nodes PROVE NodeStep(k)
    <3>1. CASE k \notin asked
      <4>1. cur'[k] = CurAfterPoll(n)[k] /\ waiting'[k] = WaitingAfterPoll(n)[k]
        BY <2>1, <3>1 DEF CurWith, WaitingWith
      <4>2. CASE k = n
        BY <2>1, <2>4, <4>1, <4>2 DEF NodeStep, Polled
      <4>3. CASE k # n
        BY <1>i, <2>4, <4>1, <4>3
      <4>4. QED
        BY <4>2, <4>3
    <3>2. CASE k \in asked /\ CurAfterPoll(n)[k] = None
      <4>1. cur'[k] = Begin(Asked(k)) /\ waiting'[k] = None
        BY <2>1, <2>3, <3>2 DEF CurWith, WaitingWith
      <4>2. CASE k = n
        <5>1. waiting[n] # None => Begin(waiting[n]) # None
          <6>1. waiting[n] # None => waiting[n] \in Request
            BY DEF Typed
          <6>2. waiting[n] # None => Begin(waiting[n]) \in Evaluation
            BY <6>1 DEF Begin, Evaluation
          <6>3. QED
            BY <6>2, NoneAssumption
        <5>2. waiting[n] = None
          BY <2>4, <3>2, <4>2, <5>1
        <5>3. QED
          BY <2>1, <2>4, <4>1, <4>2, <5>2 DEF NodeStep, Polled
      <4>3. CASE k # n
        BY <2>4, <3>2, <4>1, <4>3 DEF NodeStep, Starts
      <4>4. QED
        BY <4>2, <4>3
    <3>3. CASE k \in asked /\ CurAfterPoll(n)[k] # None
      <4>1. cur'[k] = CurAfterPoll(n)[k] /\ waiting'[k] = Asked(k)
        BY <2>1, <2>3, <3>3 DEF CurWith, WaitingWith
      <4>2. CASE k = n
        BY <2>1, <2>4, <3>3, <4>1, <4>2 DEF NodeStep, Polled
      <4>3. CASE k # n
        BY <2>4, <4>1, <4>3 DEF NodeStep, Stays
      <4>4. QED
        BY <4>2, <4>3
    <3>4. QED
      BY <3>1, <3>2, <3>3
  <2>6. /\ DOMAIN waiting' = Nodes /\ waiting' = [k \in Nodes |-> waiting'[k]]
        /\ DOMAIN cur' = Nodes /\ cur' = [k \in Nodes |-> cur'[k]]
        /\ DOMAIN out' = Nodes /\ out' = [k \in Nodes |-> out'[k]]
    BY <1>f, <2>1 DEF CurWith, WaitingWith
  <2>9. /\ \A k \in Nodes : ver'[k] >= ver[k] /\ ~(ver'[k] > ver[k])
        /\ ver' \in [Nodes -> Nat]
        /\ started' \in BOOLEAN /\ broken' \subseteq Nodes
        /\ failed' \subseteq Nodes /\ mail' \subseteq Nodes
    BY <1>s, <2>1 DEF Typed
  <2>10. QED
    BY <2>1, <2>2, <2>5, <2>6, <2>8, <2>9 DEF WholeStep
<1>15. CASE UNCHANGED vars
  <2>1. \A n \in Nodes : NodeStep(n)
    BY <1>i, <1>15 DEF vars
  <2>2. QED
    BY <1>f, <1>q, <1>15, <2>1 DEF vars, Typed
<1>16. QED
  BY <1>1, <1>2, <1>3, <1>4, <1>5, <1>6, <1>7, <1>8, <1>9, <1>10, <1>11, <1>12, <1>13,
     <1>14, <1>15 DEF Next, UserActs, LoopActs, Evaluating, Polling

-----------------------------------------------------------------------------
(***************************************************************************)
(* Types                                                                   *)
(***************************************************************************)

\* What is asked for is well formed after the step.
LEMMA AskedType ==
  ASSUME WholeStep, NEW n \in Nodes
  PROVE  /\ Asked(n) \in Request
         /\ Asked(n) # None
         /\ Begin(Asked(n)) \in Evaluation
         /\ Begin(Asked(n)) # None
         /\ Shaped(n, Asked(n))
<1>1. ver'[n] \in Nat /\ (n \in broken') \in BOOLEAN /\ rev' \in [Nodes -> Nat]
  BY DEF WholeStep
<1>2. QED
  BY <1>1, RequestOfType DEF Asked

\* Requests and evaluations, by field.
LEMMA FieldsOfEvaluation ==
  ASSUME NEW e \in Evaluation
  PROVE  /\ e.phase \in {"run", "done", "lost"}
         /\ e.req \in Request /\ e.req.ver \in Nat
         /\ e.req.broken \in BOOLEAN /\ e.req.from \in [Nodes -> Nat \cup {Unread}]
         /\ e # None
BY NoneAssumption DEF Evaluation, Request, Seen

\* An evaluation that goes on, ends or is dropped is still an evaluation.
LEMMA ProgressType ==
  ASSUME Base, NEW n \in Nodes, Reads(n) \/ Ends(n) \/ Drops(n)
  PROVE  /\ cur[n] \in Evaluation /\ cur[n] # None
         /\ cur'[n] \in Evaluation /\ cur'[n] # None
         /\ cur'[n].req.ver = cur[n].req.ver
         /\ Drops(n) => cur'[n].req = cur[n].req /\ cur'[n].phase = "lost"
         /\ Ends(n) => cur'[n].req = cur[n].req /\ cur'[n].phase = "done"
         /\ Reads(n) => /\ cur'[n].phase = "run"
                        /\ \E m \in Nodes : /\ m \in Imports[n] /\ cur[n].req.from[m] = Unread
                                            /\ cur'[n].req.from = [cur[n].req.from EXCEPT ![m] = rev[m]]
<1>1. cur[n] \in Evaluation /\ cur[n] # None
  BY DEF Base, Typed, Reads, Ends, Drops, Running, Finished
<1>2. CASE Drops(n)
  <2>1. cur'[n] = [cur[n] EXCEPT !.phase = "lost"] /\ cur[n].phase = "done"
    BY <1>2 DEF Drops, Finished
  <2>2. cur'[n] \in Evaluation /\ cur'[n].req = cur[n].req /\ cur'[n].phase = "lost"
    BY <1>1, <2>1 DEF Evaluation
  <2>3. ~Ends(n) /\ ~Reads(n)
    BY <2>1 DEF Ends, Reads, Running
  <2>4. QED
    BY <1>1, <2>2, <2>3, NoneAssumption
<1>3. CASE Ends(n)
  <2>1. cur'[n] = [cur[n] EXCEPT !.phase = "done"] /\ cur[n].phase = "run"
    BY <1>3 DEF Ends, Running
  <2>2. cur'[n] \in Evaluation /\ cur'[n].req = cur[n].req /\ cur'[n].phase = "done"
    BY <1>1, <2>1 DEF Evaluation
  <2>3. ~Drops(n)
    BY <2>1 DEF Drops, Finished
  <2>4. ~Reads(n)
    <3>1. UnreadImports(n) = {}
      BY <1>3 DEF Ends
    <3>2. QED
      BY <3>1 DEF Reads, UnreadImports
  <2>5. QED
    BY <1>1, <2>2, <2>3, <2>4, NoneAssumption
<1>4. CASE Reads(n)
  <2>1. PICK m \in Imports[n] : /\ cur[n].req.from[m] = Unread
                                /\ cur'[n] = [cur[n] EXCEPT !.req.from[m] = rev[m]]
    BY <1>4 DEF Reads
  <2>2. cur[n].phase = "run"
    BY <1>4 DEF Reads, Running
  <2>3. m \in Nodes /\ rev[m] \in Nat
    <3>1. Imports \in [Nodes -> SUBSET Nodes]
      BY UseFacts DEF Base
    <3>2. QED
      BY <3>1 DEF Base, Typed
  <2>4. /\ cur'[n].phase = "run"
        /\ cur'[n].req = [cur[n].req EXCEPT !.from = [@ EXCEPT ![m] = rev[m]]]
    BY <1>1, <2>1, <2>2 DEF Evaluation
  <2>5. /\ cur'[n].req.from = [cur[n].req.from EXCEPT ![m] = rev[m]]
        /\ cur'[n].req.ver = cur[n].req.ver
    BY <1>1, <2>4 DEF Evaluation, Request
  <2>6. cur'[n].req \in Request
    BY <1>1, <2>3, <2>4, <2>5 DEF Evaluation, Request, Seen
  <2>7. cur'[n] \in Evaluation
    BY <1>1, <2>1, <2>2, <2>4, <2>6 DEF Evaluation
  <2>8. ~Ends(n) /\ ~Drops(n)
    BY <2>1, <2>2 DEF Ends, Drops, Finished, UnreadImports
  <2>9. QED
    BY <1>1, <2>1, <2>3, <2>4, <2>5, <2>7, <2>8, NoneAssumption
<1>5. QED
  BY <1>2, <1>3, <1>4

\* The loop keeps Typed and RequestsShaped.
LEMMA BaseStep ==
  ASSUME Base, [Next]_vars
  PROVE  Base'
<1>. USE DEF Base
<1>w. WholeStep
  BY StepOfTheLoop
<1>u. use' = use /\ Imports' = Imports /\ Snapshot' = Snapshot
  BY <1>w DEF WholeStep, Imports, Snapshot
<1>1. ASSUME NEW n \in Nodes
      PROVE  /\ cur'[n] \in Evaluation \cup {None}
             /\ waiting'[n] \in Request \cup {None}
             /\ out'[n] \in [ver : Nat, from : [Nodes -> Nat]]
             /\ Shaped(n, out'[n])
             /\ waiting'[n] # None => Shaped(n, waiting'[n])
             /\ cur'[n] # None => Shaped(n, cur'[n].req)
             /\ cur'[n] # None /\ cur'[n].phase = "done" =>
                  \A m \in Nodes : cur'[n].req.from[m] # Unread
  <2>1. /\ cur[n] \in Evaluation \cup {None}
        /\ waiting[n] \in Request \cup {None}
        /\ out[n] \in [ver : Nat, from : [Nodes -> Nat]]
        /\ Shaped(n, out[n])
        /\ waiting[n] # None => Shaped(n, waiting[n])
        /\ cur[n] # None => Shaped(n, cur[n].req)
        /\ Finished(n) => \A m \in Nodes : cur[n].req.from[m] # Unread
    BY DEF Typed, RequestsShaped
  <2>2. /\ Asked(n) \in Request /\ Asked(n) # None
        /\ Begin(Asked(n)) \in Evaluation /\ Shaped(n, Asked(n))
    BY <1>w, AskedType
  <2>3. \A req : Begin(req).req = req /\ Begin(req).phase = "run"
    BY DEF Begin
  <2>4. waiting[n] # None => Begin(waiting[n]) \in Evaluation
    BY <2>1 DEF Begin, Evaluation
  <2>5. cur[n] # None => /\ cur[n].req.from \in [Nodes -> Nat \cup {Unread}]
                         /\ cur[n].req \in Request /\ cur[n].req.ver \in Nat
                         /\ cur[n].phase \in {"run", "done", "lost"}
    BY <2>1, FieldsOfEvaluation
  <2>6. CASE Stays(n)
    BY <2>1, <2>2, <2>6 DEF Stays, Finished
  <2>7. CASE Starts(n)
    BY <2>1, <2>2, <2>3, <2>4, <2>7 DEF Starts
  <2>8. CASE Drops(n)
    <3>1. waiting'[n] = None /\ out'[n] = out[n]
      BY <2>8 DEF Drops
    <3>2. QED
      BY <2>1, <2>8, <3>1, ProgressType
  <2>9. CASE Reads(n)
    <3>1. PICK m \in Nodes : /\ m \in Imports[n] /\ cur[n].req.from[m] = Unread
                             /\ cur'[n].req.from = [cur[n].req.from EXCEPT ![m] = rev[m]]
      BY <2>9, ProgressType
    <3>2. /\ cur[n] # None /\ cur'[n] \in Evaluation /\ cur'[n].phase = "run"
          /\ waiting'[n] = waiting[n] /\ out'[n] = out[n]
      BY <2>9, ProgressType DEF Reads
    <3>3. rev[m] \in Nat
      BY DEF Typed
    <3>4. Shaped(n, cur'[n].req)
      BY <2>1, <2>5, <3>1, <3>2, <3>3, NoneAssumption DEF Shaped, Unread
    <3>5. QED
      BY <2>1, <3>2, <3>4
  <2>10. CASE Ends(n)
    <3>1. waiting'[n] = waiting[n] /\ out'[n] = out[n] /\ UnreadImports(n) = {}
      BY <2>10 DEF Ends
    <3>2. /\ cur[n] # None /\ cur'[n] \in Evaluation
          /\ cur'[n].req = cur[n].req /\ cur'[n].phase = "done"
      BY <2>10, ProgressType
    <3>3. ASSUME NEW m \in Nodes PROVE cur[n].req.from[m] # Unread
      <4>1. CASE m \in Imports[n]
        BY <3>1, <4>1 DEF UnreadImports
      <4>2. CASE m \notin Imports[n]
        BY <2>1, <3>2, <4>2, NoneAssumption DEF Shaped, Unread
      <4>3. QED
        BY <4>1, <4>2
    <3>4. QED
      BY <2>1, <3>1, <3>2, <3>3
  <2>11. CASE Polled(n)
    <3>1. out'[n] \in [ver : Nat, from : [Nodes -> Nat]] /\ Shaped(n, out'[n])
      <4>1. CASE out'[n] = out[n]
        BY <2>1, <4>1
      <4>2. CASE out'[n] = [ver |-> cur[n].req.ver, from |-> cur[n].req.from]
        <5>1. Finished(n) /\ cur[n] # None
          BY <2>11 DEF Polled, Finished
        <5>2. \A m \in Nodes : cur[n].req.from[m] \in Nat
          BY <2>1, <2>5, <5>1
        <5>3. cur[n].req.from \in [Nodes -> Nat]
          BY <2>5, <5>1, <5>2
        <5>4. QED
          BY <2>1, <2>5, <4>2, <5>1, <5>3 DEF Shaped
      <4>3. QED
        BY <2>11, <4>1, <4>2 DEF Polled
    <3>2. CASE waiting[n] # None
      BY <2>1, <2>2, <2>3, <2>4, <2>11, <3>1, <3>2 DEF Polled
    <3>3. CASE waiting[n] = None
      BY <2>1, <2>2, <2>3, <2>11, <3>1, <3>3 DEF Polled
    <3>4. QED
      BY <3>2, <3>3
  <2>12. QED
    BY <1>w, <2>6, <2>7, <2>8, <2>9, <2>10, <2>11 DEF WholeStep, NodeStep
<1>2. Typed'
  <2>1. /\ cur' \in [Nodes -> Evaluation \cup {None}]
        /\ waiting' \in [Nodes -> Request \cup {None}]
        /\ out' \in [Nodes -> [ver : Nat, from : [Nodes -> Nat]]]
    BY <1>1, <1>w DEF WholeStep
  <2>2. QED
    BY <1>w, <2>1 DEF WholeStep, Typed
<1>3. RequestsShaped'
  <2>1. ASSUME NEW n \in Nodes
        PROVE  /\ Shaped(n, out[n])'
               /\ waiting'[n] # None => Shaped(n, waiting[n])'
               /\ cur'[n] # None => Shaped(n, cur[n].req)'
    <3>1. ASSUME NEW req PROVE Shaped(n, req) <=> (\A m \in Nodes :
             (m \notin Imports'[n] => req.from[m] = 0) /\ (n \in Snapshot' => req.from[m] # Unread))
      BY <1>u DEF Shaped
    <3>2. /\ Shaped(n, out[n])' <=> Shaped(n, out'[n])
          /\ Shaped(n, waiting[n])' <=> Shaped(n, waiting'[n])
          /\ Shaped(n, cur[n].req)' <=> Shaped(n, cur'[n].req)
      BY <3>1 DEF Shaped
    <3>3. QED
      BY <1>1, <3>2
  <2>2. \A n \in Nodes : Finished(n)' => \A m \in Nodes : cur'[n].req.from[m] # Unread
    BY <1>1 DEF Finished
  <2>3. QED
    BY <2>1, <2>2 DEF RequestsShaped
<1>4. QED
  BY <1>2, <1>3

\* A canvas that was just loaded is well formed.
LEMMA BaseInit ==
  ASSUME Init
  PROVE  Base
<1>1. Typed
  BY DEF Init, Typed
<1>2. RequestsShaped
  BY NoneAssumption DEF Init, RequestsShaped, Shaped, Finished, Unread
<1>3. QED
  BY <1>1, <1>2 DEF Base

\* So Base is an invariant.
LEMMA BaseHolds == Spec => []Base
<1>1. Init => Base
  BY BaseInit
<1>2. Base /\ [Next]_vars => Base'
  BY BaseStep
<1>3. QED
  BY <1>1, <1>2, PTL DEF Spec

-----------------------------------------------------------------------------
(***************************************************************************)
(* The order of requests                                                   *)
(***************************************************************************)

\* What is read later is read from outputs that are no older.
Behind(a, b) == b = Unread \/ (a # Unread /\ a =< b)

\* Request b carries nothing older than request a.
InOrder(a, b) ==
  /\ a.ver =< b.ver
  /\ \A m \in Nodes : Behind(a.from[m], b.from[m])

\* A request of n carries nothing newer than what there is.
Issued(n, req) ==
  /\ req.ver =< ver[n]
  /\ \A m \in Nodes : req.from[m] # Unread => req.from[m] =< rev[m]

\* What n shows, what is computed and what waits stand in one line.
OutputsInLine ==
  \A n \in Nodes :
    /\ ver[n] =< MaxVersion
    /\ Issued(n, out[n])
    /\ cur[n] # None => Issued(n, cur[n].req) /\ InOrder(out[n], cur[n].req)
    /\ waiting[n] # None => Issued(n, waiting[n]) /\ InOrder(out[n], waiting[n])
    /\ cur[n] # None /\ waiting[n] # None => InOrder(cur[n].req, waiting[n])

\* A request made now is in line behind every request of the node.
LEMMA AskedIsLast ==
  ASSUME Base, WholeStep, NEW n \in Nodes, NEW req, Issued(n, req), Shaped(n, req),
         req.ver \in Nat, \A m \in Nodes : req.from[m] \in Nat \cup {Unread}
  PROVE  InOrder(req, Asked(n))
<1>1. /\ ver \in [Nodes -> Nat] /\ ver' \in [Nodes -> Nat]
      /\ rev \in [Nodes -> Nat] /\ rev' \in [Nodes -> Nat]
      /\ \A k \in Nodes : ver'[k] >= ver[k] /\ rev'[k] >= rev[k]
  BY DEF Base, Typed, WholeStep
<1>2. /\ Asked(n).ver = ver'[n]
      /\ \A m \in Nodes : Asked(n).from[m] = IF m \notin Imports[n] THEN 0
                                             ELSE IF n \in Snapshot THEN rev'[m] ELSE Unread
  BY DEF Asked, RequestOf
<1>3. req.ver =< ver'[n]
  BY <1>1 DEF Issued
<1>4. ASSUME NEW m \in Nodes
      PROVE  Behind(req.from[m], Asked(n).from[m])
  <2>1. CASE m \notin Imports[n]
    BY <1>2, <2>1, NoneAssumption DEF Behind, Shaped, Unread
  <2>2. CASE m \in Imports[n] /\ n \notin Snapshot
    BY <1>2, <2>2 DEF Behind
  <2>3. CASE m \in Imports[n] /\ n \in Snapshot
    <3>1. req.from[m] # Unread /\ req.from[m] \in Nat /\ req.from[m] =< rev[m]
      BY <2>3 DEF Shaped, Issued
    <3>2. req.from[m] =< rev'[m]
      BY <1>1, <3>1
    <3>3. QED
      BY <1>2, <2>3, <3>1, <3>2 DEF Behind
  <2>4. QED
    BY <2>1, <2>2, <2>3
<1>5. QED
  BY <1>2, <1>3, <1>4 DEF InOrder

\* It carries nothing newer than what there is after the step.
LEMMA AskedIsIssued ==
  ASSUME WholeStep, NEW n \in Nodes
  PROVE  /\ Asked(n).ver =< ver'[n]
         /\ \A m \in Nodes : Asked(n).from[m] # Unread => Asked(n).from[m] =< rev'[m]
<1>1. ver' \in [Nodes -> Nat] /\ rev' \in [Nodes -> Nat]
  BY DEF WholeStep
<1>2. Asked(n).ver = ver'[n] /\ \A m \in Nodes : Asked(n).from[m] \in {0, rev'[m], Unread}
  BY DEF Asked, RequestOf
<1>3. ver'[n] =< ver'[n] /\ \A m \in Nodes : 0 =< rev'[m] /\ rev'[m] =< rev'[m]
  BY <1>1
<1>4. QED
  BY <1>2, <1>3

\* What was issued before a step is still issued after it.
LEMMA IssuedStays ==
  ASSUME Base, WholeStep, NEW n \in Nodes, NEW req, Issued(n, req),
         req.ver \in Nat, \A m \in Nodes : req.from[m] \in Nat \cup {Unread}
  PROVE  /\ req.ver =< ver'[n]
         /\ \A m \in Nodes : req.from[m] # Unread => req.from[m] =< rev'[m]
<1>1. /\ ver \in [Nodes -> Nat] /\ ver' \in [Nodes -> Nat]
      /\ rev \in [Nodes -> Nat] /\ rev' \in [Nodes -> Nat]
      /\ \A k \in Nodes : ver'[k] >= ver[k] /\ rev'[k] >= rev[k]
  BY DEF Base, Typed, WholeStep
<1>2. req.ver =< ver'[n]
  BY <1>1 DEF Issued
<1>3. ASSUME NEW m \in Nodes, req.from[m] # Unread
      PROVE  req.from[m] =< rev'[m]
  <2>1. req.from[m] \in Nat /\ req.from[m] =< rev[m]
    BY <1>3 DEF Issued
  <2>2. QED
    BY <1>1, <2>1
<1>4. QED
  BY <1>2, <1>3

\* Being in order is reflexive and, through a well-formed request, transitive.
LEMMA InOrderSelf ==
  ASSUME NEW a, a.ver \in Nat, \A m \in Nodes : a.from[m] \in Nat \cup {Unread}
  PROVE  InOrder(a, a)
<1>1. a.ver =< a.ver
  OBVIOUS
<1>2. \A m \in Nodes : a.from[m] # Unread => a.from[m] =< a.from[m]
  OBVIOUS
<1>3. QED
  BY <1>1, <1>2 DEF InOrder, Behind

\* Every step keeps requests and outputs in line, and outputs move forward.
LEMMA InLineStep ==
  ASSUME Base, OutputsInLine, [Next]_vars
  PROVE  /\ OutputsInLine'
         /\ \A n \in Nodes : /\ out'[n].ver >= out[n].ver
                             /\ \A m \in Nodes : out'[n].from[m] >= out[n].from[m]
<1>w. WholeStep
  BY StepOfTheLoop
<1>b. Base'
  BY BaseStep
<1>t. /\ ver \in [Nodes -> Nat] /\ ver' \in [Nodes -> Nat]
      /\ rev \in [Nodes -> Nat] /\ rev' \in [Nodes -> Nat]
      /\ \A k \in Nodes : ver'[k] >= ver[k] /\ rev'[k] >= rev[k]
  BY <1>w DEF Base, Typed, WholeStep
<1>1. ASSUME NEW n \in Nodes
      PROVE  /\ out[n].ver \in Nat /\ out'[n].ver \in Nat
             /\ \A m \in Nodes : out[n].from[m] \in Nat /\ out'[n].from[m] \in Nat
             /\ cur[n] # None => /\ cur[n].req.ver \in Nat
                                 /\ \A m \in Nodes : cur[n].req.from[m] \in Nat \cup {Unread}
             /\ waiting[n] # None => /\ waiting[n].ver \in Nat
                                     /\ \A m \in Nodes : waiting[n].from[m] \in Nat \cup {Unread}
             /\ Shaped(n, out[n])
             /\ waiting[n] # None => Shaped(n, waiting[n])
             /\ cur[n] # None => Shaped(n, cur[n].req)
             /\ Finished(n) => \A m \in Nodes : cur[n].req.from[m] # Unread
  <2>1. /\ out[n] \in [ver : Nat, from : [Nodes -> Nat]]
        /\ out'[n] \in [ver : Nat, from : [Nodes -> Nat]]
        /\ cur[n] \in Evaluation \cup {None} /\ waiting[n] \in Request \cup {None}
    BY <1>b DEF Base, Typed
  <2>2. cur[n] # None => cur[n].req \in Request
    BY <2>1 DEF Evaluation
  <2>3. QED
    BY <2>1, <2>2 DEF Request, Seen, Base, RequestsShaped
<1>2. ASSUME NEW n \in Nodes
      PROVE  /\ ver'[n] =< MaxVersion
             /\ out'[n].ver =< ver'[n]
             /\ \A m \in Nodes : out'[n].from[m] # Unread => out'[n].from[m] =< rev'[m]
             /\ cur'[n] # None =>
                  /\ cur'[n].req.ver =< ver'[n]
                  /\ \A m \in Nodes : cur'[n].req.from[m] # Unread => cur'[n].req.from[m] =< rev'[m]
                  /\ InOrder(out'[n], cur'[n].req)
             /\ waiting'[n] # None =>
                  /\ waiting'[n].ver =< ver'[n]
                  /\ \A m \in Nodes : waiting'[n].from[m] # Unread => waiting'[n].from[m] =< rev'[m]
                  /\ InOrder(out'[n], waiting'[n])
             /\ cur'[n] # None /\ waiting'[n] # None => InOrder(cur'[n].req, waiting'[n])
             /\ InOrder(out[n], out'[n])
  <2>0. ver'[n] =< MaxVersion
    <3>1. ver[n] =< MaxVersion /\ use.versions =< MaxVersion /\ MaxVersion \in Nat
      BY UseFacts, ConstantsAssumption DEF Base, OutputsInLine
    <3>2. ver'[n] > ver[n] => ver'[n] =< use.versions
      BY <1>w DEF WholeStep
    <3>3. use.versions \in Nat
      BY UseFacts DEF Base
    <3>4. QED
      BY <1>t, <3>1, <3>2, <3>3
  <2>1. /\ Issued(n, out[n])
        /\ cur[n] # None => Issued(n, cur[n].req) /\ InOrder(out[n], cur[n].req)
        /\ waiting[n] # None => Issued(n, waiting[n]) /\ InOrder(out[n], waiting[n])
        /\ cur[n] # None /\ waiting[n] # None => InOrder(cur[n].req, waiting[n])
    BY DEF OutputsInLine
  <2>2. /\ Asked(n).ver =< ver'[n]
        /\ \A m \in Nodes : Asked(n).from[m] # Unread => Asked(n).from[m] =< rev'[m]
    BY <1>w, AskedIsIssued
  <2>3. /\ out[n].ver =< ver'[n]
        /\ \A m \in Nodes : out[n].from[m] # Unread => out[n].from[m] =< rev'[m]
        /\ InOrder(out[n], Asked(n))
    <3>1. \A m \in Nodes : out[n].from[m] \in Nat \cup {Unread}
      BY <1>1
    <3>2. QED
      BY <1>1, <1>w, <2>1, <3>1, IssuedStays, AskedIsLast
  <2>4. cur[n] # None =>
          /\ cur[n].req.ver =< ver'[n]
          /\ \A m \in Nodes : cur[n].req.from[m] # Unread => cur[n].req.from[m] =< rev'[m]
          /\ InOrder(cur[n].req, Asked(n))
    BY <1>1, <1>w, <2>1, IssuedStays, AskedIsLast
  <2>5. waiting[n] # None =>
          /\ waiting[n].ver =< ver'[n]
          /\ \A m \in Nodes : waiting[n].from[m] # Unread => waiting[n].from[m] =< rev'[m]
          /\ InOrder(waiting[n], Asked(n))
    BY <1>1, <1>w, <2>1, IssuedStays, AskedIsLast
  <2>6. InOrder(out[n], out[n])
    <3>1. \A m \in Nodes : out[n].from[m] \in Nat \cup {Unread}
      BY <1>1
    <3>2. QED
      BY <1>1, <3>1, InOrderSelf
  <2>7. \A req : Begin(req).req = req
    BY DEF Begin
  <2>8. CASE Stays(n)
    BY <2>0, <2>1, <2>2, <2>3, <2>4, <2>5, <2>6, <2>8 DEF Stays
  <2>9. CASE Starts(n)
    BY <2>0, <2>1, <2>2, <2>3, <2>5, <2>6, <2>7, <2>9 DEF Starts
  <2>10. CASE Drops(n)
    <3>1. cur[n] # None /\ waiting'[n] = None /\ out'[n] = out[n] /\ cur'[n].req = cur[n].req
      BY <2>10, ProgressType DEF Drops
    <3>2. QED
      BY <2>0, <2>1, <2>3, <2>4, <2>6, <3>1
  <2>11. CASE Reads(n)
    <3>1. PICK m \in Nodes : /\ m \in Imports[n] /\ cur[n].req.from[m] = Unread
                             /\ cur'[n].req.from = [cur[n].req.from EXCEPT ![m] = rev[m]]
      BY <2>11, ProgressType
    <3>2. /\ cur[n] # None /\ cur[n] \in Evaluation /\ cur'[n].req.ver = cur[n].req.ver
          /\ waiting'[n] = waiting[n] /\ out'[n] = out[n]
      BY <2>11, ProgressType DEF Reads
    <3>3. rev[m] \in Nat
      BY <1>t
    <3>6. cur'[n].req.ver = cur[n].req.ver
      BY <3>2
    <3>7. /\ \A k \in Nodes \ {m} : cur'[n].req.from[k] = cur[n].req.from[k]
          /\ cur'[n].req.from[m] = rev[m]
      BY <3>1, <3>2, <3>3, FieldsOfEvaluation
    <3>8. rev[m] =< rev'[m] /\ out[n].from[m] =< rev[m]
      BY <1>1, <1>t, <2>1, <3>3, NoneAssumption DEF Issued, Unread
    <3>9. \A k \in Nodes : cur'[n].req.from[k] # Unread => cur'[n].req.from[k] =< rev'[k]
      BY <2>4, <3>2, <3>7, <3>8
    <3>10. InOrder(out[n], cur'[n].req)
      <4>1. \A k \in Nodes : out[n].from[k] # Unread
        BY <1>1, NoneAssumption DEF Unread
      <4>2. QED
        BY <2>1, <3>2, <3>6, <3>7, <3>8, <4>1 DEF InOrder, Behind
    <3>11. waiting[n] # None => InOrder(cur'[n].req, waiting[n])
      BY <2>1, <3>1, <3>2, <3>3, <3>6, <3>7 DEF InOrder, Behind
    <3>12. QED
      BY <2>0, <2>1, <2>3, <2>4, <2>5, <2>6, <3>2, <3>6, <3>9, <3>10, <3>11
  <2>12. CASE Ends(n)
    <3>1. cur[n] # None /\ waiting'[n] = waiting[n] /\ out'[n] = out[n] /\ cur'[n].req = cur[n].req
      BY <2>12, ProgressType DEF Ends
    <3>2. QED
      BY <2>0, <2>1, <2>3, <2>4, <2>5, <2>6, <3>1
  <2>13. CASE Polled(n)
    <3>1. cur[n] # None
      BY <2>13 DEF Polled, Finished
    <3>2. /\ out'[n].ver =< ver'[n]
          /\ \A m \in Nodes : out'[n].from[m] # Unread => out'[n].from[m] =< rev'[m]
          /\ InOrder(out'[n], Asked(n))
          /\ waiting[n] # None => InOrder(out'[n], waiting[n])
          /\ InOrder(out[n], out'[n])
      <4>1. CASE out'[n] = out[n]
        BY <2>1, <2>3, <2>6, <4>1
      <4>2. CASE out'[n] = [ver |-> cur[n].req.ver, from |-> cur[n].req.from]
        <5>1. out'[n].ver = cur[n].req.ver /\ out'[n].from = cur[n].req.from
          BY <4>2
        <5>2. QED
          BY <2>1, <2>4, <3>1, <5>1 DEF InOrder
      <4>3. QED
        BY <2>13, <4>1, <4>2 DEF Polled
    <3>3. CASE waiting[n] # None
      BY <2>0, <2>2, <2>5, <2>7, <2>13, <3>2, <3>3 DEF Polled
    <3>4. CASE waiting[n] = None
      BY <2>0, <2>2, <2>7, <2>13, <3>2, <3>4 DEF Polled
    <3>5. QED
      BY <3>3, <3>4
  <2>14. QED
    BY <1>w, <2>8, <2>9, <2>10, <2>11, <2>12, <2>13 DEF WholeStep, NodeStep
<1>3. OutputsInLine'
  BY <1>2 DEF OutputsInLine, Issued
<1>4. \A n \in Nodes : /\ out'[n].ver >= out[n].ver
                       /\ \A m \in Nodes : out'[n].from[m] >= out[n].from[m]
  <2>1. TAKE n \in Nodes
  <2>2. InOrder(out[n], out'[n])
    BY <1>2
  <2>3. \A m \in Nodes : out'[n].from[m] # Unread
    BY <1>1, NoneAssumption DEF Unread
  <2>4. QED
    BY <1>1, <2>2, <2>3 DEF InOrder, Behind
<1>5. QED
  BY <1>3, <1>4

LEMMA InLineInit ==
  ASSUME Init
  PROVE  OutputsInLine
<1>1. /\ \A n \in Nodes : ver[n] = 1 /\ rev[n] = 0 /\ cur[n] = None /\ waiting[n] = None
      /\ \A n \in Nodes : out[n].ver = 0 /\ \A m \in Nodes : out[n].from[m] = 0
  BY DEF Init
<1>2. QED
  BY <1>1, ConstantsAssumption DEF OutputsInLine, Issued

\* Requests and outputs stay in line: what a node shows is no newer than what is
\* computed for it, that no newer than what waits, and that no newer than its
\* program and the outputs of its imports.
THEOREM RequestsStayInLine == Spec => []OutputsInLine
<1>1. Init => OutputsInLine
  BY InLineInit
<1>2. Base /\ OutputsInLine /\ [Next]_vars => OutputsInLine'
  BY InLineStep
<1>3. QED
  BY <1>1, <1>2, BaseHolds, PTL DEF Spec

\* Every variable of the loop keeps its type.
THEOREM LoopTypeCorrect == Spec => []TypeOK
<1>1. Base /\ OutputsInLine => TypeOK
  <2>1. SUFFICES ASSUME Base, OutputsInLine PROVE TypeOK
    OBVIOUS
  <2>2. ASSUME NEW n \in Nodes
        PROVE  ver[n] \in 0 .. MaxVersion /\ out[n].ver \in 0 .. MaxVersion
    <3>1. ver[n] \in Nat /\ out[n] \in [ver : Nat, from : [Nodes -> Nat]] /\ MaxVersion \in Nat
      BY <2>1, ConstantsAssumption DEF Base, Typed
    <3>2. ver[n] =< MaxVersion /\ out[n].ver =< ver[n]
      BY <2>1 DEF OutputsInLine, Issued
    <3>3. QED
      BY <3>1, <3>2
  <2>3. ver \in [Nodes -> 0 .. MaxVersion]
    BY <2>1, <2>2 DEF Base, Typed
  <2>4. out \in [Nodes -> [ver : 0 .. MaxVersion, from : [Nodes -> Nat]]]
    <3>1. out \in [Nodes -> [ver : Nat, from : [Nodes -> Nat]]]
      BY <2>1 DEF Base, Typed
    <3>2. \A n \in Nodes : out[n] \in [ver : 0 .. MaxVersion, from : [Nodes -> Nat]]
      BY <2>2, <3>1
    <3>3. QED
      BY <3>1, <3>2
  <2>5. QED
    BY <2>1, <2>3, <2>4 DEF Base, Typed, TypeOK
<1>2. QED
  BY <1>1, BaseHolds, RequestsStayInLine, PTL

\* What a node shows never goes back to an older version of its program or to
\* older outputs of an import (compute, flush_debounced and poll of actor.rs, and
\* the library reads of a running script), on every canvas and for every use.
THEOREM OutputsNeverGoBack == Spec => OutputsMoveForward
<1>1. Base /\ OutputsInLine /\ [Next]_vars =>
        [\A n \in Nodes : /\ out'[n].ver >= out[n].ver
                          /\ \A m \in Nodes : out'[n].from[m] >= out[n].from[m]]_vars
  BY InLineStep
<1>2. QED
  BY <1>1, BaseHolds, RequestsStayInLine, PTL DEF Spec, OutputsMoveForward

-----------------------------------------------------------------------------
(***************************************************************************)
(* Pending nodes                                                           *)
(***************************************************************************)

\* Something of n is under way or will start.
InFlight(n) == cur[n] # None \/ waiting[n] # None
\* No result of n was thrown away.
Kept(n) == cur[n] # None => cur[n].phase # "lost"

\* The request made for a node as it is now.
LEMMA RequestNowType ==
  ASSUME Base, NEW n \in Nodes, NEW v \in Nat
  PROVE  /\ RequestsNow[n] = RequestOf(n, ver[n], n \in broken, rev)
         /\ RequestsNow[n] # None /\ Begin(RequestsNow[n]) # None
         /\ RequestOf(n, v, n \in broken, rev) # None
<1>1. ver[n] \in Nat /\ (n \in broken) \in BOOLEAN /\ rev \in [Nodes -> Nat]
  BY DEF Base, Typed
<1>2. RequestsNow[n] = RequestOf(n, ver[n], n \in broken, rev)
  BY DEF RequestsNow
<1>3. QED
  BY <1>1, <1>2, RequestOfType

\* A node ComputeNodes is given is in flight.
LEMMA ComputedIsInFlight ==
  ASSUME Base, NEW S, ComputeNodes(S), NEW n \in Nodes
  PROVE  IF n \in S THEN InFlight(n)' ELSE cur'[n] = cur[n] /\ waiting'[n] = waiting[n]
<1>1. RequestsNow[n] # None /\ Begin(RequestsNow[n]) # None
  BY RequestNowType DEF Base, Typed
<1>2. QED
  BY <1>1 DEF ComputeNodes, CurWith, WaitingWith, InFlight

\* A step makes a node pending only by asking for it, and takes a node out of
\* flight only with its result, which ends its being pending.
LEMMA PendingStep ==
  ASSUME Base, [Next]_vars, NEW n \in Nodes, n \in pending',
         n \in pending => InFlight(n)
  PROVE  InFlight(n)'
<1>. USE DEF Base
<1>w. WholeStep /\ Base'
  BY StepOfTheLoop, BaseStep
<1>k. ASSUME NEW req \in Request PROVE Begin(req) # None /\ req # None
  <2>1. Begin(req) \in Evaluation
    BY DEF Begin, Evaluation
  <2>2. QED
    BY <2>1, NoneAssumption
<1>t. /\ cur \in [Nodes -> Evaluation \cup {None}]
      /\ waiting \in [Nodes -> Request \cup {None}]
      /\ Asked(n) \in Request /\ use.nodes \subseteq Nodes
  BY <1>w, AskedType, UseFacts DEF Typed
<1>c. ASSUME NEW S, ComputeNodes(S)
      PROVE  InFlight(n)'
  <2>1. CASE n \in S
    BY <1>c, <2>1, ComputedIsInFlight
  <2>2. CASE n \notin S
    <3>1. n \in pending /\ cur'[n] = cur[n] /\ waiting'[n] = waiting[n]
      BY <1>c, <2>2, ComputedIsInFlight DEF ComputeNodes
    <3>2. QED
      BY <3>1 DEF InFlight
  <2>3. QED
    BY <2>1, <2>2
<1>1. ASSUME NEW k \in use.nodes, EditWidget(k)
      PROVE  InFlight(n)'
  <2>1. /\ waiting' = [waiting EXCEPT ![k] = RequestOf(k, ver[k] + 1, k \in broken, rev)]
        /\ cur' = cur /\ pending' = pending \cup {k} /\ k \in Nodes
    BY <1>1, <1>t DEF EditWidget, EditSkips
  <2>2. CASE n = k
    <3>1. RequestOf(k, ver[k] + 1, k \in broken, rev) # None
      <4>1. ver[k] + 1 \in Nat
        BY <2>1 DEF Typed
      <4>2. QED
        BY <2>1, <4>1, RequestNowType
    <3>2. QED
      BY <1>t, <2>1, <2>2, <3>1 DEF InFlight
  <2>3. CASE n # k
    BY <1>t, <2>1, <2>3 DEF InFlight
  <2>4. QED
    BY <2>2, <2>3
<1>2. ASSUME NEW k \in use.nodes, EditFile(k)
      PROVE  InFlight(n)'
  <2>1. k \in Nodes /\ pending' = pending \cup {k}
    BY <1>2, <1>t DEF EditFile
  <2>2. PICK bad \in BOOLEAN :
          /\ cur' = CurWith(cur, {k}, [i \in Nodes |-> RequestOf(k, ver[k] + 1, bad, rev)])
          /\ waiting' = WaitingWith(cur, waiting, {k},
                          [i \in Nodes |-> RequestOf(k, ver[k] + 1, bad, rev)])
    BY <1>2 DEF EditFile
  <2>3. CASE n = k
    <3>1. Begin(RequestOf(k, ver[k] + 1, bad, rev)) # None
      BY <2>1, RequestOfType DEF Typed
    <3>2. cur'[n] = IF cur[n] = None THEN Begin(RequestOf(k, ver[k] + 1, bad, rev)) ELSE cur[n]
      BY <2>2, <2>3 DEF CurWith
    <3>3. QED
      BY <3>1, <3>2 DEF InFlight
  <2>4. CASE n # k
    <3>1. cur'[n] = cur[n] /\ waiting'[n] = waiting[n]
      BY <2>2, <2>4 DEF CurWith, WaitingWith
    <3>2. QED
      BY <2>1, <2>4, <3>1 DEF InFlight
  <2>5. QED
    BY <2>3, <2>4
<1>3. ASSUME NEW k \in use.nodes, UpdateNode(k)
      PROVE  InFlight(n)'
  BY <1>3 DEF UpdateNode, InFlight
<1>4. ASSUME NEW k \in use.nodes, \/ ComputeIfReady(k) \/ ComputeRoots(k)
                                  \/ RecomputeSelected(k) \/ SendMessage(k)
      PROVE  InFlight(n)'
  BY <1>4, <1>c DEF ComputeIfReady, ComputeRoots, RecomputeSelected, SendMessage
<1>5. ASSUME CancelCompute
      PROVE  InFlight(n)'
  BY <1>5 DEF CancelCompute
<1>6. ASSUME ComputeAll
      PROVE  InFlight(n)'
  BY <1>6, <1>c DEF ComputeAll
<1>7. ASSUME NEW k \in Nodes, Flush(k)
      PROVE  InFlight(n)'
  <2>1. /\ cur' = [cur EXCEPT ![k] = Begin(waiting[k])] /\ waiting[k] # None
        /\ waiting' = [waiting EXCEPT ![k] = None] /\ pending' = pending
    BY <1>7 DEF Flush
  <2>2. Begin(waiting[k]) # None
    BY <1>k, <1>t, <2>1
  <2>3. QED
    BY <1>t, <2>1, <2>2 DEF InFlight
<1>8. ASSUME NEW k \in Nodes, Evaluating(k)
      PROVE  InFlight(n)'
  <2>1. waiting' = waiting /\ pending' = pending /\ cur[k] # None
    BY <1>8 DEF Evaluating, ReadLibrary, Finish, Running
  <2>2. \A i \in Nodes \ {k} : cur'[i] = cur[i]
    BY <1>8, <1>t DEF Evaluating, ReadLibrary, Finish
  <2>3. cur'[k] # None
    <3>1. ASSUME NEW m \in Imports[k], ReadLibrary(k, m) PROVE Reads(k)
      BY <1>t, <3>1 DEF ReadLibrary, Reads, UnreadImports
    <3>2. ASSUME Finish(k) PROVE Ends(k)
      BY <1>t, <3>2 DEF Finish, Ends
    <3>3. QED
      BY <1>8, <3>1, <3>2, ProgressType DEF Evaluating
  <2>4. QED
    BY <1>t, <2>1, <2>2, <2>3 DEF InFlight
<1>9. ASSUME NEW k \in Nodes, PollError(k)
      PROVE  InFlight(n)'
  <2>1. /\ pending' = pending \ {k}
        /\ cur' = CurAfterPoll(k) /\ waiting' = WaitingAfterPoll(k)
    BY <1>9 DEF PollError, PendingAfter
  <2>2. cur'[n] = cur[n] /\ waiting'[n] = waiting[n]
    BY <1>t, <2>1 DEF CurAfterPoll, WaitingAfterPoll
  <2>3. QED
    BY <2>1, <2>2 DEF InFlight
<1>10. ASSUME NEW k \in Nodes, PollComputed(k)
       PROVE  InFlight(n)'
  <2>1. PICK asked, reqs, revs :
          /\ pending' = (pending \ {k}) \cup asked
          /\ cur' = CurWith(CurAfterPoll(k), asked, reqs)
          /\ waiting' = WaitingWith(CurAfterPoll(k), WaitingAfterPoll(k), asked, reqs)
          /\ reqs = [m \in Nodes |-> RequestOf(m, ver[m], m \in broken, revs)]
          /\ revs \in [Nodes -> Nat]
    <3>. DEFINE now   == [ver |-> cur[k].req.ver, from |-> cur[k].req.from]
                revs  == [rev EXCEPT ![k] = IF now = out[k] THEN @ ELSE @ + 1]
                left  == PendingAfter(k)
                woken == Woken(k, left)
                asked == woken \cup Propagated(k, left \cup woken)
                reqs  == [m \in Nodes |-> RequestOf(m, ver[m], m \in broken, revs)]
    <3>1. /\ pending' = left \cup asked /\ rev' = revs
          /\ cur' = CurWith(CurAfterPoll(k), asked, reqs)
          /\ waiting' = WaitingWith(CurAfterPoll(k), WaitingAfterPoll(k), asked, reqs)
      BY <1>10 DEF PollComputed
    <3>2. rev' \in [Nodes -> Nat]
      BY <1>w DEF WholeStep
    <3>3. left = pending \ {k}
      BY DEF PendingAfter
    <3>. HIDE DEF revs, asked, left
    <3>4. QED
      BY <3>1, <3>2, <3>3
  <2>2. reqs[n] # None /\ Begin(reqs[n]) # None
    <3>1. ver[n] \in Nat /\ (n \in broken) \in BOOLEAN
      BY DEF Typed
    <3>2. reqs[n] = RequestOf(n, ver[n], n \in broken, revs)
      BY <2>1
    <3>3. QED
      BY <2>1, <3>1, <3>2, RequestOfType
  <2>3. CASE n \in asked
    BY <2>1, <2>2, <2>3 DEF CurWith, WaitingWith, InFlight
  <2>4. CASE n \notin asked
    <3>1. n \in pending /\ n # k
      BY <2>1, <2>4
    <3>2. cur'[n] = cur[n] /\ waiting'[n] = waiting[n]
      BY <1>t, <2>1, <2>4, <3>1 DEF CurWith, WaitingWith, CurAfterPoll, WaitingAfterPoll
    <3>3. QED
      BY <3>1, <3>2 DEF InFlight
  <2>5. QED
    BY <2>3, <2>4
<1>11. CASE UNCHANGED vars
  BY <1>11 DEF vars, InFlight
<1>12. QED
  BY <1>1, <1>2, <1>3, <1>4, <1>5, <1>6, <1>7, <1>8, <1>9, <1>10, <1>11
     DEF Next, UserActs, LoopActs, Polling

\* A result is thrown away by CancelCompute only, when it waits to be collected.
LEMMA KeptStep ==
  ASSUME Base, [Next]_vars, NEW n \in Nodes, Kept(n), ~Kept(n)'
  PROVE  CancelCompute /\ Finished(n)
<1>. USE DEF Base
<1>w. WholeStep
  BY StepOfTheLoop
<1>1. cur'[n] # None /\ cur'[n].phase = "lost"
  BY DEF Kept
<1>2. cur[n] \in Evaluation \cup {None}
  BY DEF Typed
<1>3. \A req : Begin(req).phase = "run"
  BY DEF Begin
<1>4. ~Stays(n) /\ ~Starts(n) /\ ~Polled(n)
  BY <1>1, <1>3 DEF Stays, Starts, Polled, Kept
<1>5. ~Ends(n) /\ ~Reads(n)
  BY <1>1, ProgressType
<1>6. Drops(n)
  BY <1>4, <1>5, <1>w DEF WholeStep, NodeStep
<1>7. CancelCompute
  <2>1. Finished(n) /\ cur'[n] # cur[n] /\ cur'[n].phase = "lost"
    BY <1>1, <1>6 DEF Drops, Finished
  <2>2. QED
    <3>1. CASE CancelCompute
      BY <3>1
    <3>2. CASE ~CancelCompute
      <4>1. cur'[n] = cur[n] \/ cur'[n] = None \/ cur'[n].phase \in {"run", "done"}
        <5>. USE <1>2
        <5>c. ASSUME NEW S, NEW curs, curs[n] = cur[n] \/ curs[n] = None \/ curs[n].phase = "run",
                     NEW reqs, cur' = CurWith(curs, S, reqs)
              PROVE  cur'[n] = cur[n] \/ cur'[n] = None \/ cur'[n].phase = "run"
          BY <5>c DEF CurWith, Begin
        <5>d. ASSUME NEW k \in Nodes
              PROVE  \/ CurAfterPoll(k)[n] = cur[n] \/ CurAfterPoll(k)[n] = None
                     \/ CurAfterPoll(k)[n].phase = "run"
          BY DEF CurAfterPoll, Begin, Typed
        <5>1. ASSUME NEW k \in use.nodes,
                     \/ EditWidget(k) \/ EditFile(k) \/ UpdateNode(k)
                     \/ ComputeIfReady(k) \/ ComputeRoots(k)
                     \/ RecomputeSelected(k) \/ SendMessage(k)
              PROVE  cur'[n] = cur[n] \/ cur'[n] = None \/ cur'[n].phase = "run"
          BY <5>1, <5>c DEF EditWidget, EditFile, UpdateNode, ComputeIfReady, ComputeRoots,
             RecomputeSelected, SendMessage, ComputeNodes
        <5>2. ASSUME ComputeAll
              PROVE  cur'[n] = cur[n] \/ cur'[n] = None \/ cur'[n].phase = "run"
          BY <5>2, <5>c DEF ComputeAll, ComputeNodes
        <5>3. ASSUME NEW k \in Nodes, Flush(k)
              PROVE  cur'[n] = cur[n] \/ cur'[n].phase = "run"
          BY <5>3 DEF Flush, Begin, Typed
        <5>4. ASSUME NEW k \in Nodes, NEW m \in Imports[k], ReadLibrary(k, m)
              PROVE  cur'[n] = cur[n] \/ cur'[n].phase = "run"
          BY <5>4, <2>1 DEF ReadLibrary, Running, Finished, Typed
        <5>5. ASSUME NEW k \in Nodes, Finish(k)
              PROVE  cur'[n] = cur[n]
          BY <5>5, <2>1 DEF Finish, Running, Finished, Typed
        <5>6. ASSUME NEW k \in Nodes, PollError(k)
              PROVE  cur'[n] = cur[n] \/ cur'[n] = None \/ cur'[n].phase = "run"
          BY <5>6, <5>d DEF PollError
        <5>7. ASSUME NEW k \in Nodes, PollComputed(k)
              PROVE  cur'[n] = cur[n] \/ cur'[n] = None \/ cur'[n].phase = "run"
          BY <5>7, <5>c, <5>d DEF PollComputed
        <5>8. CASE UNCHANGED vars
          BY <5>8 DEF vars
        <5>9. QED
          BY <3>2, <5>1, <5>2, <5>3, <5>4, <5>5, <5>6, <5>7, <5>8
             DEF Next, UserActs, LoopActs, Evaluating, Polling
      <4>2. QED
        BY <1>1, <2>1, <4>1
    <3>3. QED
      BY <3>1, <3>2
<1>8. QED
  BY <1>6, <1>7 DEF Drops

\* Where nothing is cancelled, pending nodes are in flight and no result is lost.
NothingIsLost ==
  /\ \A n \in pending : InFlight(n)
  /\ "cancel" \notin use.ops => \A n \in Nodes : Kept(n)

\* A node that is pending is in flight or has a request that waits, unless its
\* evaluation was cancelled (compute_if_ready and propagate_downstream skip the
\* nodes that are pending).
THEOREM PendingIsAlwaysComputed == Spec => []PendingIsComputed
<1>1. Init => NothingIsLost
  BY DEF Init, NothingIsLost, Kept
<1>2. Base /\ NothingIsLost /\ [Next]_vars => NothingIsLost'
  <2>1. SUFFICES ASSUME Base, NothingIsLost, [Next]_vars PROVE NothingIsLost'
    OBVIOUS
  <2>2. WholeStep
    BY <2>1, StepOfTheLoop
  <2>3. ASSUME NEW n \in pending' PROVE InFlight(n)'
    BY <2>1, <2>2, <2>3, PendingStep DEF NothingIsLost, WholeStep
  <2>4. ASSUME "cancel" \notin use'.ops, NEW n \in Nodes PROVE Kept(n)'
    <3>1. "cancel" \notin use.ops
      BY <2>2, <2>4 DEF WholeStep
    <3>2. Kept(n) /\ ~CancelCompute
      BY <2>1, <3>1 DEF NothingIsLost, CancelCompute, MayAct
    <3>3. QED
      BY <2>1, <3>2, KeptStep
  <2>5. QED
    BY <2>3, <2>4 DEF NothingIsLost
<1>3. Base /\ NothingIsLost => PendingIsComputed
  <2>1. SUFFICES ASSUME Base, NothingIsLost, "cancel" \notin use.ops, NEW n \in pending
                 PROVE  waiting[n] # None \/ Running(n) \/ Finished(n)
    BY DEF PendingIsComputed
  <2>2. n \in Nodes /\ cur[n] \in Evaluation \cup {None}
    BY <2>1 DEF Base, Typed
  <2>3. InFlight(n) /\ Kept(n)
    BY <2>1, <2>2 DEF NothingIsLost
  <2>4. cur[n] # None => cur[n].phase \in {"run", "done", "lost"}
    BY <2>2, FieldsOfEvaluation
  <2>5. QED
    BY <2>3, <2>4 DEF InFlight, Kept, Running, Finished
<1>4. QED
  BY <1>1, <1>2, <1>3, BaseHolds, PTL DEF Spec

-----------------------------------------------------------------------------
(***************************************************************************)
(* Canvases that settle                                                    *)
(***************************************************************************)

\* m's result makes the loop ask for n: n imports m, or m sends it messages.
Feeds(u, m, n) == m \in u.imports[n] \/ n \in u.sends[m]

\* A canvas on which every node is fed by one node at most, never by itself in
\* the end, and whose users ask for one node at a time.
IsTree(u) ==
  /\ u.ops \cap {"start", "roots"} = {}
  /\ \A n, k, m \in Nodes : Feeds(u, k, n) /\ Feeds(u, m, n) => k = m
  /\ \E rank \in [Nodes -> Nat] : \A m, n \in Nodes : Feeds(u, m, n) => rank[m] < rank[n]

\* a's results never lead to b: a is in a set of nodes without b that nothing
\* leads out of.
Closed(S) == \A m \in S, n \in Nodes : Feeds(use, m, n) => n \in S
Apart(a, b) == \E S \in SUBSET Nodes : a \in S /\ b \notin S /\ Closed(S)

\* What n shows, or is asked to make, is made of what its import m shows.
FreshFrom(n, m) ==
  /\ ~InFlight(n) => n \in failed \/ out[n].from[m] = rev[m]
  /\ cur[n] # None => cur[n].req.from[m] \in {Unread, rev[m]}
  /\ waiting[n] # None => waiting[n].from[m] \in {Unread, rev[m]}

\* The message for t will be read: its sender's result is not applied yet, or t
\* is in flight and has not passed its mailbox; else t failed.
WillRead(t) ==
  \/ \E k \in Nodes : t \in Sends[k] /\ Finished(k) /\ ~cur[k].req.broken
  \/ InFlight(t) /\ (Finished(t) => cur[t].req.broken)
  \/ ~InFlight(t) /\ t \in failed

\* A canvas edited at rest, on its way to rest: the nodes in flight do not lead
\* to one another.
Settling ==
  /\ started
  /\ \A n \in pending : InFlight(n)
  /\ \A n \in Nodes : Kept(n) /\ (cur[n] = None \/ waiting[n] = None)
  /\ \A a, b \in Nodes : a # b /\ InFlight(a) /\ InFlight(b) => Apart(a, b)
  /\ \A n \in Nodes : \A m \in Imports[n] : FreshFrom(n, m)
  /\ \A t \in mail : WillRead(t)

CalmIsSettling == use.calm => Settling

\* What a user does on a canvas at rest: one node n is asked for, or none.
LEMMA UserStep ==
  ASSUME Base, use.calm, IsTree(use), started, Quiet, pending = {}, UserActs
  PROVE  /\ out' = out /\ rev' = rev /\ failed' = failed /\ started'
         /\ \/ /\ \A k \in Nodes : cur'[k] = None /\ waiting'[k] = None
               /\ mail' = mail
            \/ \E n \in Nodes :
                 /\ \A k \in Nodes \ {n} : cur'[k] = None /\ waiting'[k] = None
                 /\ \/ cur'[n] \in {None, Begin(Asked(n))} /\ waiting'[n] = None
                    \/ cur'[n] = None /\ waiting'[n] = Asked(n)
                 /\ mail' = mail \/ (mail' = mail \cup {n} /\ cur'[n] = Begin(Asked(n)))
<1>. USE DEF Base
<1>q. \A k \in Nodes : cur[k] = None /\ waiting[k] = None
  BY DEF Quiet
<1>u. /\ use.nodes \subseteq Nodes
      /\ cur \in [Nodes -> Evaluation \cup {None}]
      /\ waiting \in [Nodes -> Request \cup {None}]
  BY UseFacts DEF Typed
<1>c. ASSUME NEW n \in Nodes, NEW S, S \in {{n}, {}}, ComputeNodes(S),
             ver' = ver, broken' = broken, rev' = rev, use' = use
      PROVE  /\ \A k \in Nodes \ {n} : cur'[k] = None /\ waiting'[k] = None
             /\ cur'[n] \in {None, Begin(Asked(n))} /\ waiting'[n] = None
             /\ n \in S => cur'[n] = Begin(Asked(n))
  <2>1. RequestsNow[n] = Asked(n)
    BY <1>c DEF RequestsNow, Asked, RequestOf, Imports, Snapshot
  <2>2. QED
    BY <1>c, <1>q, <2>1 DEF ComputeNodes, CurWith, WaitingWith
<1>1. ASSUME NEW n \in use.nodes, EditWidget(n)
      PROVE  /\ \A k \in Nodes \ {n} : cur'[k] = None /\ waiting'[k] = None
             /\ cur'[n] = None /\ waiting'[n] = Asked(n)
             /\ out' = out /\ rev' = rev /\ failed' = failed /\ started' /\ mail' = mail
  <2>1. /\ waiting' = [waiting EXCEPT ![n] = RequestOf(n, ver[n] + 1, n \in broken, rev)]
        /\ cur' = cur /\ n \in Nodes /\ ver' = [ver EXCEPT ![n] = @ + 1]
        /\ UNCHANGED <<use, started, broken, out, rev, failed, mail>>
    BY <1>1, <1>u DEF EditWidget, EditSkips
  <2>2. RequestOf(n, ver[n] + 1, n \in broken, rev) = Asked(n)
    BY <2>1 DEF Asked, RequestOf, Imports, Snapshot, Typed
  <2>3. QED
    BY <1>q, <1>u, <2>1, <2>2
<1>2. ASSUME NEW n \in use.nodes, EditFile(n)
      PROVE  /\ \A k \in Nodes \ {n} : cur'[k] = None /\ waiting'[k] = None
             /\ cur'[n] = Begin(Asked(n)) /\ waiting'[n] = None
             /\ out' = out /\ rev' = rev /\ failed' = failed /\ started' /\ mail' = mail
  <2>1. /\ n \in Nodes /\ ver' = [ver EXCEPT ![n] = @ + 1]
        /\ UNCHANGED <<use, started, out, rev, failed, mail>>
    BY <1>2, <1>u DEF EditFile
  <2>2. PICK bad \in BOOLEAN :
          /\ broken' = IF bad THEN broken \cup {n} ELSE broken \ {n}
          /\ cur' = CurWith(cur, {n}, [i \in Nodes |-> RequestOf(n, ver[n] + 1, bad, rev)])
          /\ waiting' = WaitingWith(cur, waiting, {n},
                          [i \in Nodes |-> RequestOf(n, ver[n] + 1, bad, rev)])
    BY <1>2 DEF EditFile
  <2>3. (n \in broken') = bad /\ ver'[n] = ver[n] + 1
    BY <2>1, <2>2 DEF Typed
  <2>4. RequestOf(n, ver[n] + 1, bad, rev) = Asked(n)
    BY <2>1, <2>3 DEF Asked, RequestOf, Imports, Snapshot
  <2>5. QED
    BY <1>q, <2>1, <2>2, <2>4 DEF CurWith, WaitingWith
<1>3. ASSUME NEW n \in use.nodes, UpdateNode(n)
      PROVE  /\ cur' = cur /\ waiting' = waiting
             /\ out' = out /\ rev' = rev /\ failed' = failed /\ started' /\ mail' = mail
  BY <1>3 DEF UpdateNode
<1>4. ASSUME NEW n \in use.nodes, ComputeIfReady(n) \/ RecomputeSelected(n)
      PROVE  /\ \A k \in Nodes \ {n} : cur'[k] = None /\ waiting'[k] = None
             /\ cur'[n] \in {None, Begin(Asked(n))} /\ waiting'[n] = None
             /\ out' = out /\ rev' = rev /\ failed' = failed /\ started' /\ mail' = mail
  BY <1>4, <1>c, <1>u DEF ComputeIfReady, RecomputeSelected
<1>5. ASSUME NEW n \in use.nodes, SendMessage(n)
      PROVE  /\ \A k \in Nodes \ {n} : cur'[k] = None /\ waiting'[k] = None
             /\ cur'[n] = Begin(Asked(n)) /\ waiting'[n] = None
             /\ out' = out /\ rev' = rev /\ failed' = failed /\ started'
             /\ mail' = mail \cup {n}
  <2>1. Ready({n}) = {n} /\ n \in Nodes
    BY <1>u DEF Ready
  <2>2. QED
    BY <1>5, <1>c, <2>1 DEF SendMessage
<1>6. ASSUME CancelCompute
      PROVE  /\ \A k \in Nodes : cur'[k] = None /\ waiting'[k] = None
             /\ out' = out /\ rev' = rev /\ failed' = failed /\ started' /\ mail' = mail
  BY <1>6, <1>q DEF CancelCompute
<1>7. ~ComputeAll /\ \A n \in use.nodes : ~ComputeRoots(n)
  BY DEF ComputeAll, ComputeRoots, MayAct, IsTree
<1>9. CASE \E n \in use.nodes : EditWidget(n) \/ EditFile(n) \/ ComputeIfReady(n)
                                \/ RecomputeSelected(n) \/ SendMessage(n)
  <2>1. PICK n \in use.nodes : EditWidget(n) \/ EditFile(n) \/ ComputeIfReady(n)
                                \/ RecomputeSelected(n) \/ SendMessage(n)
    BY <1>9
  <2>2. n \in Nodes
    BY <1>u
  <2>3. CASE EditWidget(n)
    BY <1>1, <2>2, <2>3
  <2>4. CASE EditFile(n)
    BY <1>2, <2>2, <2>4
  <2>5. CASE ComputeIfReady(n) \/ RecomputeSelected(n)
    BY <1>4, <2>2, <2>5
  <2>6. CASE SendMessage(n)
    BY <1>5, <2>2, <2>6
  <2>7. QED
    BY <2>1, <2>3, <2>4, <2>5, <2>6
<1>10. CASE \E n \in use.nodes : UpdateNode(n)
  BY <1>3, <1>10, <1>q
<1>11. CASE CancelCompute
  BY <1>6, <1>11
<1>12. QED
  BY <1>7, <1>9, <1>10, <1>11 DEF UserActs

\* What Asked carries of an import.
LEMMA AskedFrom ==
  ASSUME NEW n \in Nodes, NEW m \in Imports[n], m \in Nodes
  PROVE  Asked(n).from[m] \in {Unread, rev'[m]}
BY DEF Asked, RequestOf

\* A user's act leaves a canvas at rest on its way to rest again.
LEMMA UserSettles ==
  ASSUME Base, use.calm, IsTree(use), Settling, UserActs
  PROVE  Settling'
<1>. USE DEF Base
<1>x. Next
  BY DEF Next
<1>w. WholeStep /\ Base'
  BY <1>x, StepOfTheLoop, BaseStep
<1>b. \A req : Begin(req).req = req /\ Begin(req).phase = "run"
  BY DEF Begin
<1>u. /\ use' = use /\ Imports' = Imports /\ Sends' = Sends
      /\ Imports \in [Nodes -> SUBSET Nodes]
      /\ pending \subseteq Nodes /\ pending' \subseteq Nodes /\ mail' \subseteq Nodes
      /\ mail \subseteq Nodes
  BY <1>w, UseFacts DEF WholeStep, Imports, Sends, Typed
<1>q. Quiet /\ pending = {}
  <2>1. Quiet
    BY DEF UserActs, EditWidget, EditFile, UpdateNode, ComputeIfReady, ComputeRoots,
       RecomputeSelected, SendMessage, CancelCompute, ComputeAll, MayAct, Settling
  <2>2. \A n \in Nodes : ~InFlight(n)
    BY <2>1 DEF Quiet, InFlight
  <2>3. QED
    BY <1>u, <2>1, <2>2 DEF Settling
<1>1. /\ out' = out /\ rev' = rev /\ failed' = failed /\ started'
      /\ \/ /\ \A k \in Nodes : cur'[k] = None /\ waiting'[k] = None
            /\ mail' = mail
         \/ \E n \in Nodes :
              /\ \A k \in Nodes \ {n} : cur'[k] = None /\ waiting'[k] = None
              /\ \/ cur'[n] \in {None, Begin(Asked(n))} /\ waiting'[n] = None
                 \/ cur'[n] = None /\ waiting'[n] = Asked(n)
              /\ mail' = mail \/ (mail' = mail \cup {n} /\ cur'[n] = Begin(Asked(n)))
  BY <1>q, UserStep DEF Settling
<1>2. ASSUME NEW n \in Nodes
      PROVE  n \in pending' => InFlight(n)'
  BY <1>q, PendingStep DEF Next
<1>3. ASSUME NEW k \in Nodes
      PROVE  /\ cur'[k] # None => cur'[k] = Begin(Asked(k))
             /\ waiting'[k] # None => waiting'[k] = Asked(k)
             /\ cur'[k] = None \/ waiting'[k] = None
  BY <1>1
<1>4. \A a, b \in Nodes : InFlight(a)' /\ InFlight(b)' => a = b
  BY <1>1 DEF InFlight
<1>5. \A k \in Nodes : Kept(k)' /\ ~Finished(k)'
  BY <1>3, <1>b DEF Kept, Finished
<1>6. ASSUME NEW k \in Nodes, NEW m \in Imports[k]
      PROVE  FreshFrom(k, m)'
  <2>1. m \in Nodes
    BY <1>u
  <2>2. /\ cur'[k] # None => cur'[k].req.from[m] \in {Unread, rev'[m]}
        /\ waiting'[k] # None => waiting'[k].from[m] \in {Unread, rev'[m]}
    BY <1>3, <1>b, <2>1, AskedFrom
  <2>3. k \in failed \/ out[k].from[m] = rev[m]
    BY <1>q DEF Settling, FreshFrom, Quiet, InFlight
  <2>4. QED
    BY <1>1, <2>2, <2>3 DEF FreshFrom
<1>7. ASSUME NEW t \in mail'
      PROVE  WillRead(t)'
  <2>1. t \in Nodes
    BY <1>u
  <2>2. CASE InFlight(t)'
    BY <1>5, <2>1, <2>2 DEF WillRead
  <2>3. CASE ~InFlight(t)'
    <3>1. t \in mail
      <4>1. \A n \in Nodes : cur'[n] = Begin(Asked(n)) => InFlight(n)'
        BY <1>w, AskedType DEF InFlight
      <4>2. QED
        BY <1>1, <2>3, <4>1
    <3>2. t \in failed
      BY <1>q, <2>1, <3>1 DEF Settling, WillRead, InFlight, Finished, Quiet
    <3>3. QED
      BY <1>1, <2>3, <3>2 DEF WillRead
  <2>4. QED
    BY <2>2, <2>3
<1>8. QED
  BY <1>1, <1>2, <1>3, <1>4, <1>5, <1>6, <1>7, <1>u DEF Settling

\* Nodes stay apart while no more of them come into flight.
LEMMA ApartStays ==
  ASSUME Settling, use' = use, \A n \in Nodes : InFlight(n)' => InFlight(n)
  PROVE  \A a, b \in Nodes : a # b /\ InFlight(a)' /\ InFlight(b)' => Apart(a, b)'
<1>1. \A a, b : Apart(a, b) => Apart(a, b)'
  BY DEF Apart, Closed
<1>2. QED
  BY <1>1 DEF Settling

\* Timers, evaluations and errors keep it on its way.
LEMMA LoopSettles ==
  ASSUME Base, use.calm, IsTree(use), Settling, NEW n \in Nodes,
         Flush(n) \/ Evaluating(n) \/ PollError(n)
  PROVE  Settling'
<1>. USE DEF Base
<1>x. Next
  BY DEF Next, LoopActs, Polling
<1>w. WholeStep /\ Base'
  BY <1>x, StepOfTheLoop, BaseStep
<1>u. /\ use' = use /\ Imports' = Imports /\ Sends' = Sends
      /\ Imports \in [Nodes -> SUBSET Nodes] /\ Sends \in [Nodes -> SUBSET Nodes]
      /\ pending' \subseteq Nodes /\ mail' \subseteq Nodes /\ mail \subseteq Nodes
      /\ cur \in [Nodes -> Evaluation \cup {None}]
      /\ waiting \in [Nodes -> Request \cup {None}]
  BY <1>w, UseFacts DEF WholeStep, Imports, Sends, Typed
<1>b. \A req : Begin(req).req = req /\ Begin(req).phase = "run"
  BY DEF Begin
<1>p. \A k \in Nodes : k \in pending' => InFlight(k)'
  BY <1>x, PendingStep DEF Settling
<1>k. \A k \in Nodes : Kept(k)'
  <2>1. ~CancelCompute \/ \A k \in Nodes : ~Finished(k)
    <3>1. CancelCompute => Quiet
      BY DEF CancelCompute, MayAct
    <3>2. QED
      BY <3>1 DEF Quiet, Finished
  <2>2. QED
    BY <1>x, <2>1, KeptStep DEF Settling
<1>f. out' = out /\ rev' = rev /\ failed \subseteq failed' /\ started' = started
  BY DEF Flush, Evaluating, ReadLibrary, Finish, PollError
<1>o. \A k \in Nodes \ {n} : cur'[k] = cur[k] /\ waiting'[k] = waiting[k]
  BY <1>u DEF Flush, Evaluating, ReadLibrary, Finish, PollError, CurAfterPoll, WaitingAfterPoll
<1>1. CASE Flush(n)
  <2>1. /\ cur[n] = None /\ waiting[n] # None /\ cur'[n] = Begin(waiting[n])
        /\ waiting'[n] = None /\ mail' = mail /\ failed' = failed
    BY <1>1, <1>u DEF Flush
  <2>2. \A k \in Nodes : InFlight(k)' => InFlight(k)
    BY <1>o, <2>1 DEF InFlight
  <2>3. \A k \in Nodes : cur'[k] = None \/ waiting'[k] = None
    BY <1>o, <2>1 DEF Settling
  <2>4. \A k \in Nodes : \A m \in Imports[k] : FreshFrom(k, m)'
    <3>1. TAKE k \in Nodes
    <3>m. TAKE m \in Imports[k]
    <3>2. FreshFrom(k, m)
      BY DEF Settling
    <3>3. CASE k = n
      <4>1. cur'[k] # None
        <5>1. Begin(waiting[n]) \in Evaluation
          BY <1>u, <2>1 DEF Begin, Evaluation
        <5>2. QED
          BY <2>1, <3>3, <5>1, NoneAssumption
      <4>2. QED
        BY <1>b, <1>f, <2>1, <3>2, <3>3, <4>1 DEF FreshFrom, InFlight
    <3>4. CASE k # n
      BY <1>f, <1>o, <2>1, <3>2, <3>4 DEF FreshFrom, InFlight
    <3>5. QED
      BY <3>3, <3>4
  <2>5. \A t \in mail' : WillRead(t)'
    <3>1. TAKE t \in mail'
    <3>2. WillRead(t) /\ t \in Nodes
      BY <1>u, <2>1 DEF Settling
    <3>3. \A k \in Nodes : Finished(k) => Finished(k)' /\ cur'[k] = cur[k]
      BY <1>o, <2>1 DEF Finished
    <3>4. CASE t = n
      <4>1. ~Finished(t)' /\ InFlight(t)'
        <5>1. Begin(waiting[n]) \in Evaluation
          BY <1>u, <2>1 DEF Begin, Evaluation
        <5>2. QED
          BY <1>b, <2>1, <3>4, <5>1, NoneAssumption DEF InFlight, Finished
      <4>2. QED
        BY <4>1 DEF WillRead
    <3>5. CASE t # n
      BY <1>o, <1>u, <2>1, <3>2, <3>3, <3>5 DEF WillRead, InFlight, Finished
    <3>6. QED
      BY <3>4, <3>5
  <2>6. \A a, b \in Nodes : a # b /\ InFlight(a)' /\ InFlight(b)' => Apart(a, b)'
    BY <1>u, <2>2, ApartStays
  <2>7. QED
    BY <1>f, <1>k, <1>p, <1>u, <2>3, <2>4, <2>5, <2>6 DEF Settling
<1>2. CASE Evaluating(n)
  <2>1. Reads(n) \/ (Ends(n) /\ Finish(n))
    BY <1>2, <1>u DEF Evaluating, ReadLibrary, Finish, Reads, Ends, UnreadImports
  <2>2. /\ cur[n] \in Evaluation /\ cur[n] # None
        /\ cur'[n] \in Evaluation /\ cur'[n] # None
        /\ waiting'[n] = waiting[n] /\ failed' = failed
        /\ cur[n].phase = "run"
    BY <1>2, <2>1, ProgressType DEF Reads, Ends, Evaluating, ReadLibrary, Finish, Running
  <2>3. \A k \in Nodes : InFlight(k)' <=> InFlight(k)
    BY <1>o, <2>2 DEF InFlight
  <2>4. \A k \in Nodes : cur'[k] = None \/ waiting'[k] = None
    BY <1>o, <2>2 DEF Settling
  <2>5. \A k \in Nodes : \A m \in Imports[k] : FreshFrom(k, m)'
    <3>1. TAKE k \in Nodes
    <3>m. TAKE m \in Imports[k]
    <3>2. FreshFrom(k, m) /\ m \in Nodes
      BY <1>u DEF Settling
    <3>3. CASE k # n
      BY <1>f, <1>o, <2>2, <3>2, <3>3 DEF FreshFrom, InFlight
    <3>4. CASE k = n /\ Ends(n)
      BY <1>f, <2>2, <2>3, <3>2, <3>4, ProgressType DEF FreshFrom
    <3>5. CASE k = n /\ Reads(n)
      <4>1. PICK i \in Nodes : cur'[n].req.from = [cur[n].req.from EXCEPT ![i] = rev[i]]
        BY <3>5, ProgressType
      <4>2. cur'[n].req.from[m] \in {cur[n].req.from[m], rev[m]}
        BY <2>2, <3>2, <4>1, FieldsOfEvaluation
      <4>3. QED
        BY <1>f, <2>2, <2>3, <3>2, <3>5, <4>2 DEF FreshFrom
    <3>6. QED
      BY <2>1, <3>3, <3>4, <3>5
  <2>6. \A t \in mail' : WillRead(t)'
    <3>1. TAKE t \in mail'
    <3>2. t \in Nodes
      BY <1>u
    <3>3. CASE Reads(n)
      <4>1. mail' = mail /\ ~Finished(n)' /\ ~Finished(n)
        <5>1. cur'[n].phase = "run"
          BY <3>3, ProgressType
        <5>2. ~Finish(n)
          BY <3>3 DEF Finish, Reads, UnreadImports
        <5>3. QED
          BY <1>2, <2>2, <5>1, <5>2 DEF Evaluating, ReadLibrary, Finished
      <4>2. WillRead(t)
        BY <4>1 DEF Settling
      <4>3. \A k \in Nodes : /\ Finished(k)' <=> Finished(k)
                             /\ Finished(k) => cur'[k] = cur[k]
        BY <1>o, <4>1 DEF Finished
      <4>4. QED
        BY <1>u, <2>2, <2>3, <3>2, <4>2, <4>3 DEF WillRead
    <3>4. CASE Ends(n) /\ Finish(n)
      <4>1. /\ mail' = IF cur[n].req.broken THEN mail ELSE (mail \ {n}) \cup Sends[n]
            /\ Finished(n)' /\ ~Finished(n) /\ cur'[n].req = cur[n].req
        BY <2>2, <3>4, ProgressType DEF Finish, Finished
      <4>2. \A k \in Nodes \ {n} : (Finished(k)' <=> Finished(k)) /\ cur'[k] = cur[k]
        BY <1>o DEF Finished
      <4>3. CASE ~cur[n].req.broken /\ t \in Sends[n]
        <5>1. t \in Sends'[n] /\ Finished(n)' /\ ~cur'[n].req.broken
          BY <1>u, <4>1, <4>3
        <5>2. QED
          BY <5>1 DEF WillRead
      <4>4. CASE t = n /\ cur[n].req.broken
        <5>1. InFlight(n)' /\ cur'[n].req.broken
          BY <2>2, <4>1, <4>4 DEF InFlight
        <5>2. QED
          BY <4>4, <5>1 DEF WillRead
      <4>5. CASE t # n /\ t \in mail
        <5>1. WillRead(t)
          BY <4>5 DEF Settling
        <5>2. (InFlight(t)' <=> InFlight(t)) /\ (Finished(t)' <=> Finished(t)) /\ cur'[t] = cur[t]
          BY <2>3, <3>2, <4>2, <4>5
        <5>3. \A k \in Nodes : t \in Sends[k] /\ Finished(k) /\ ~cur[k].req.broken =>
                  t \in Sends'[k] /\ Finished(k)' /\ ~cur'[k].req.broken
          BY <1>u, <4>1, <4>2
        <5>4. QED
          BY <2>2, <5>1, <5>2, <5>3 DEF WillRead
      <4>6. QED
        BY <3>1, <4>1, <4>3, <4>4, <4>5
    <3>5. QED
      BY <2>1, <3>3, <3>4
  <2>7. \A a, b \in Nodes : a # b /\ InFlight(a)' /\ InFlight(b)' => Apart(a, b)'
    BY <1>u, <2>3, ApartStays
  <2>8. QED
    BY <1>f, <1>k, <1>p, <1>u, <2>4, <2>5, <2>6, <2>7 DEF Settling
<1>3. CASE PollError(n)
  <2>1. /\ cur[n] # None /\ cur[n].phase = "done" /\ cur[n].req.broken
        /\ failed' = failed \cup {n} /\ mail' = mail
        /\ cur' = CurAfterPoll(n) /\ waiting' = WaitingAfterPoll(n)
    BY <1>3 DEF PollError, Finished
  <2>2. waiting[n] = None
    BY <2>1 DEF Settling
  <2>3. cur'[n] = None /\ waiting'[n] = None
    BY <1>u, <2>1, <2>2 DEF CurAfterPoll, WaitingAfterPoll
  <2>4. \A k \in Nodes : InFlight(k)' => InFlight(k)
    BY <1>o, <2>3 DEF InFlight
  <2>5. \A k \in Nodes : cur'[k] = None \/ waiting'[k] = None
    BY <1>o, <2>3 DEF Settling
  <2>6. \A k \in Nodes : \A m \in Imports[k] : FreshFrom(k, m)'
    <3>1. TAKE k \in Nodes
    <3>m. TAKE m \in Imports[k]
    <3>2. FreshFrom(k, m)
      BY DEF Settling
    <3>3. CASE k = n
      BY <2>1, <2>3, <3>3 DEF FreshFrom, InFlight
    <3>4. CASE k # n
      BY <1>f, <1>o, <2>1, <3>2, <3>4 DEF FreshFrom, InFlight
    <3>5. QED
      BY <3>3, <3>4
  <2>7. \A t \in mail' : WillRead(t)'
    <3>1. TAKE t \in mail'
    <3>2. WillRead(t) /\ t \in Nodes
      BY <1>u, <2>1 DEF Settling
    <3>3. CASE t = n
      BY <2>1, <2>3, <3>3 DEF WillRead, InFlight
    <3>4. CASE t # n
      <4>1. \A k \in Nodes : Finished(k) /\ ~cur[k].req.broken => Finished(k)' /\ cur'[k] = cur[k]
        BY <1>o, <2>1 DEF Finished
      <4>2. (InFlight(t)' <=> InFlight(t)) /\ (Finished(t)' <=> Finished(t)) /\ cur'[t] = cur[t]
        BY <1>o, <3>2, <3>4 DEF InFlight, Finished
      <4>3. QED
        BY <1>u, <2>1, <3>2, <4>1, <4>2 DEF WillRead
    <3>5. QED
      BY <3>3, <3>4
  <2>8. \A a, b \in Nodes : a # b /\ InFlight(a)' /\ InFlight(b)' => Apart(a, b)'
    BY <1>u, <2>4, ApartStays
  <2>9. QED
    BY <1>f, <1>k, <1>p, <1>u, <2>5, <2>6, <2>7, <2>8 DEF Settling
<1>4. QED
  BY <1>1, <1>2, <1>3

\* A result of a tree's node n goes to the nodes n feeds, none of which is in
\* flight; n itself comes to rest.
LEMMA ResultGoes ==
  ASSUME Base, IsTree(use), Settling, NEW n \in Nodes, PollComputed(n)
  PROVE  /\ Finished(n) /\ ~cur[n].req.broken
         /\ cur'[n] = None /\ waiting'[n] = None
         /\ out'[n] = [ver |-> cur[n].req.ver, from |-> cur[n].req.from]
         /\ \A k \in Nodes \ {n} :
              /\ rev'[k] = rev[k] /\ out'[k] = out[k] /\ (k \in failed' <=> k \in failed)
              /\ ~Feeds(use, n, k) => cur'[k] = cur[k] /\ waiting'[k] = waiting[k]
              /\ Feeds(use, n, k) => /\ ~InFlight(k)
                                     /\ cur'[k] = Begin(Asked(k)) /\ waiting'[k] = None
         /\ ~Feeds(use, n, n)
         /\ n \notin failed' /\ mail' = mail /\ use' = use /\ started' = started
<1>. USE DEF Base
<1>. DEFINE now   == [ver |-> cur[n].req.ver, from |-> cur[n].req.from]
            revs  == [rev EXCEPT ![n] = IF now = out[n] THEN @ ELSE @ + 1]
            left  == PendingAfter(n)
            woken == Woken(n, left)
            asked == woken \cup Propagated(n, left \cup woken)
            reqs  == [m \in Nodes |-> RequestOf(m, ver[m], m \in broken, revs)]
<1>1. /\ UNCHANGED <<use, started, ver, broken, mail>>
      /\ Finished(n) /\ failed' = failed \ {n} /\ ~cur[n].req.broken
      /\ out' = [out EXCEPT ![n] = now]
      /\ rev' = revs
      /\ cur' = CurWith(CurAfterPoll(n), asked, reqs)
      /\ waiting' = WaitingWith(CurAfterPoll(n), WaitingAfterPoll(n), asked, reqs)
  BY DEF PollComputed
<1>t. /\ cur \in [Nodes -> Evaluation \cup {None}]
      /\ waiting \in [Nodes -> Request \cup {None}]
      /\ out \in [Nodes -> [ver : Nat, from : [Nodes -> Nat]]] /\ rev \in [Nodes -> Nat]
      /\ Imports \in [Nodes -> SUBSET Nodes] /\ Sends \in [Nodes -> SUBSET Nodes]
  BY UseFacts DEF Typed
<1>2. \A k \in Nodes : reqs[k] = Asked(k)
  BY <1>1 DEF Asked, RequestOf, Imports, Snapshot
<1>3. ~Feeds(use, n, n)
  <2>1. PICK rank \in [Nodes -> Nat] : \A m, k \in Nodes : Feeds(use, m, k) => rank[m] < rank[k]
    BY DEF IsTree
  <2>2. ~(rank[n] < rank[n])
    BY <2>1
  <2>3. QED
    BY <2>1, <2>2
<1>4. ASSUME NEW k \in Nodes \ {n}, Feeds(use, n, k)
      PROVE  ~InFlight(k) /\ k \notin left
  <2>1. ~Apart(n, k)
    BY <1>4 DEF Apart, Closed
  <2>2. InFlight(n)
    BY <1>1 DEF InFlight, Finished
  <2>3. ~InFlight(k)
    BY <1>4, <2>1, <2>2 DEF Settling
  <2>4. QED
    BY <2>3 DEF Settling, PendingAfter
<1>5. ASSUME NEW k \in Nodes
      PROVE  k \in asked <=> Feeds(use, n, k) /\ k \notin left
  BY DEF Woken, Propagated, Downstream, Feeds, Imports, Sends
<1>6. n \notin asked
  BY <1>3, <1>5
<1>7. waiting[n] = None
  BY <1>1 DEF Settling, Finished
<1>8. /\ CurAfterPoll(n)[n] = None /\ WaitingAfterPoll(n)[n] = None
      /\ \A k \in Nodes \ {n} : /\ CurAfterPoll(n)[k] = cur[k]
                                /\ WaitingAfterPoll(n)[k] = waiting[k]
  BY <1>t, <1>7 DEF CurAfterPoll, WaitingAfterPoll
<1>9. /\ out'[n] = now
      /\ \A k \in Nodes \ {n} : /\ rev'[k] = rev[k] /\ out'[k] = out[k]
                                /\ (k \in failed' <=> k \in failed)
  BY <1>1, <1>t
<1>. HIDE DEF asked, reqs, left, revs
<1>10. cur'[n] = None /\ waiting'[n] = None
  BY <1>1, <1>6, <1>8 DEF CurWith, WaitingWith
<1>11. ASSUME NEW k \in Nodes \ {n}, ~Feeds(use, n, k)
       PROVE  cur'[k] = cur[k] /\ waiting'[k] = waiting[k]
  <2>1. k \notin asked
    BY <1>5, <1>11
  <2>2. QED
    BY <1>1, <1>8, <2>1 DEF CurWith, WaitingWith
<1>12. ASSUME NEW k \in Nodes \ {n}, Feeds(use, n, k)
       PROVE  ~InFlight(k) /\ cur'[k] = Begin(Asked(k)) /\ waiting'[k] = None
  <2>1. k \in asked /\ ~InFlight(k)
    BY <1>4, <1>5, <1>12
  <2>2. CurAfterPoll(n)[k] = None
    BY <1>8, <2>1 DEF InFlight
  <2>3. QED
    BY <1>1, <1>2, <2>1, <2>2 DEF CurWith, WaitingWith
<1>13. QED
  BY <1>1, <1>3, <1>9, <1>10, <1>11, <1>12

\* A result keeps a canvas on its way to rest.
LEMMA ResultSettles ==
  ASSUME Base, use.calm, IsTree(use), Settling, NEW n \in Nodes, PollComputed(n)
  PROVE  Settling'
<1>. USE DEF Base
<1>x. Next
  BY DEF Next, LoopActs, Polling
<1>w. WholeStep /\ Base'
  BY <1>x, StepOfTheLoop, BaseStep
<1>u. /\ Imports' = Imports /\ Sends' = Sends
      /\ Imports \in [Nodes -> SUBSET Nodes] /\ Sends \in [Nodes -> SUBSET Nodes]
      /\ pending' \subseteq Nodes /\ mail \subseteq Nodes
  BY <1>w, UseFacts DEF WholeStep, Imports, Sends, Typed
<1>b. \A req : Begin(req).req = req /\ Begin(req).phase = "run"
  BY DEF Begin
<1>a. \A k \in Nodes : Begin(Asked(k)) # None
  BY <1>w, AskedType
<1>r. /\ Finished(n) /\ ~cur[n].req.broken
      /\ cur'[n] = None /\ waiting'[n] = None
      /\ out'[n] = [ver |-> cur[n].req.ver, from |-> cur[n].req.from]
      /\ \A k \in Nodes \ {n} :
           /\ rev'[k] = rev[k] /\ out'[k] = out[k] /\ (k \in failed' <=> k \in failed)
           /\ ~Feeds(use, n, k) => cur'[k] = cur[k] /\ waiting'[k] = waiting[k]
           /\ Feeds(use, n, k) => /\ ~InFlight(k)
                                  /\ cur'[k] = Begin(Asked(k)) /\ waiting'[k] = None
      /\ ~Feeds(use, n, n)
      /\ n \notin failed' /\ mail' = mail /\ use' = use /\ started' = started
  BY ResultGoes
<1>p. \A k \in Nodes : k \in pending' => InFlight(k)'
  BY <1>x, PendingStep DEF Settling
<1>i. InFlight(n) /\ ~InFlight(n)'
  BY <1>r DEF InFlight, Finished
<1>1. ASSUME NEW k \in Nodes
      PROVE  Kept(k)' /\ (cur'[k] = None \/ waiting'[k] = None)
  <2>1. CASE k = n
    BY <1>r, <2>1 DEF Kept
  <2>2. CASE k # n /\ Feeds(use, n, k)
    <3>1. cur'[k] = Begin(Asked(k)) /\ waiting'[k] = None
      BY <1>r, <2>2
    <3>2. QED
      BY <1>b, <3>1 DEF Kept
  <2>3. CASE k # n /\ ~Feeds(use, n, k)
    <3>1. cur'[k] = cur[k] /\ waiting'[k] = waiting[k]
      BY <1>r, <2>3
    <3>2. QED
      BY <3>1 DEF Settling, Kept
  <2>4. QED
    BY <2>1, <2>2, <2>3
<1>2. ASSUME NEW a \in Nodes, NEW b \in Nodes, a # b, InFlight(a)', InFlight(b)'
      PROVE  Apart(a, b)'
  <2>1. a # n /\ b # n
    BY <1>2, <1>i
  <2>2. /\ InFlight(a) <=> ~Feeds(use, n, a)
        /\ InFlight(b) <=> ~Feeds(use, n, b)
    BY <1>2, <1>r, <2>1 DEF InFlight
  <2>3. PICK rank \in [Nodes -> Nat] : \A m, k \in Nodes : Feeds(use, m, k) => rank[m] < rank[k]
    BY DEF IsTree
  <2>4. \A m \in Nodes : Feeds(use, m, b) /\ Feeds(use, n, b) => m = n
    BY DEF IsTree
  <2>5. Apart(a, b) => Apart(a, b)'
    BY <1>r DEF Apart, Closed
  <2>6. CASE ~Feeds(use, n, a) /\ ~Feeds(use, n, b)
    BY <1>2, <2>2, <2>5, <2>6 DEF Settling
  <2>7. CASE Feeds(use, n, a) /\ ~Feeds(use, n, b)
    <3>1. Apart(n, b)
      BY <1>i, <2>1, <2>2, <2>7 DEF Settling
    <3>2. Apart(a, b)
      BY <2>7, <3>1 DEF Apart, Closed
    <3>3. QED
      BY <2>5, <3>2
  <2>8. CASE ~Feeds(use, n, a) /\ Feeds(use, n, b)
    <3>1. Apart(a, n)
      BY <1>i, <2>1, <2>2, <2>8 DEF Settling
    <3>2. PICK S \in SUBSET Nodes : a \in S /\ n \notin S /\ Closed(S)
      BY <3>1 DEF Apart
    <3>3. a \in S \ {b} /\ b \notin S \ {b} /\ Closed(S \ {b}) /\ S \ {b} \in SUBSET Nodes
      BY <1>2, <2>4, <2>8, <3>2 DEF Closed
    <3>4. QED
      BY <2>5, <3>3 DEF Apart
  <2>9. CASE Feeds(use, n, a) /\ Feeds(use, n, b)
    <3>. DEFINE S == {x \in Nodes : rank[x] >= rank[a] /\ x # b}
    <3>1. a \in S /\ b \notin S /\ S \in SUBSET Nodes
      BY <1>2, <2>3
    <3>2. n \notin S
      <4>1. rank[n] < rank[a] /\ rank[n] \in Nat /\ rank[a] \in Nat
        BY <2>3, <2>9
      <4>2. QED
        BY <4>1
    <3>3. Closed(S)
      <4>1. SUFFICES ASSUME NEW m \in S, NEW k \in Nodes, Feeds(use, m, k)
                     PROVE  k \in S
        BY DEF Closed
      <4>2. rank[m] < rank[k] /\ rank[m] \in Nat /\ rank[k] \in Nat /\ rank[a] \in Nat
        BY <2>3, <4>1
      <4>3. rank[k] >= rank[a]
        BY <4>1, <4>2
      <4>4. k # b
        BY <2>4, <2>9, <3>2, <4>1
      <4>5. QED
        BY <4>3, <4>4
    <3>4. QED
      BY <2>5, <3>1, <3>3 DEF Apart
  <2>10. QED
    BY <2>6, <2>7, <2>8, <2>9
<1>3. ASSUME NEW k \in Nodes, NEW m \in Imports[k]
      PROVE  FreshFrom(k, m)'
  <2>1. m \in Nodes /\ FreshFrom(k, m) /\ Feeds(use, m, k)
    BY <1>u DEF Settling, Feeds, Imports
  <2>2. CASE k = n
    <3>1. m # n
      BY <1>r, <2>1, <2>2
    <3>2. cur[n].req.from[m] = rev[m]
      <4>1. cur[n].req.from[m] # Unread
        BY <1>r, <2>1 DEF RequestsShaped
      <4>2. QED
        BY <1>r, <2>1, <2>2, <4>1 DEF FreshFrom, Finished
    <3>3. out'[n].from[m] = rev'[m]
      BY <1>r, <2>1, <3>1, <3>2
    <3>4. QED
      BY <1>i, <1>r, <2>2, <3>3 DEF FreshFrom
  <2>3. CASE k # n /\ Feeds(use, n, k)
    <3>1. cur'[k] = Begin(Asked(k)) /\ waiting'[k] = None
      BY <1>r, <2>3
    <3>2. Asked(k).from[m] \in {Unread, rev'[m]}
      BY <2>1, AskedFrom
    <3>3. InFlight(k)'
      BY <1>a, <3>1 DEF InFlight
    <3>4. QED
      BY <1>b, <3>1, <3>2, <3>3 DEF FreshFrom
  <2>4. CASE k # n /\ ~Feeds(use, n, k)
    <3>1. m # n
      BY <2>1, <2>4
    <3>2. /\ cur'[k] = cur[k] /\ waiting'[k] = waiting[k] /\ rev'[m] = rev[m]
          /\ out'[k] = out[k] /\ (k \in failed' <=> k \in failed)
      BY <1>r, <2>1, <2>4, <3>1
    <3>3. QED
      BY <2>1, <3>2 DEF FreshFrom, InFlight
  <2>5. QED
    BY <2>2, <2>3, <2>4
<1>4. ASSUME NEW t \in mail'
      PROVE  WillRead(t)'
  <2>1. WillRead(t) /\ t \in Nodes
    BY <1>r, <1>u DEF Settling
  <2>2. CASE t = n
    <3>1. PICK k \in Nodes : t \in Sends[k] /\ Finished(k) /\ ~cur[k].req.broken
      BY <1>i, <1>r, <2>1, <2>2 DEF WillRead
    <3>2. Feeds(use, k, n) /\ InFlight(k)
      BY <2>2, <3>1 DEF Feeds, Sends, InFlight, Finished
    <3>3. k # n /\ ~Apart(k, n)
      BY <1>r, <3>2 DEF Apart, Closed
    <3>4. QED
      BY <1>i, <3>2, <3>3 DEF Settling
  <2>3. CASE t # n /\ Feeds(use, n, t)
    <3>1. cur'[t] = Begin(Asked(t))
      BY <1>r, <2>1, <2>3
    <3>2. InFlight(t)' /\ ~Finished(t)'
      BY <1>a, <1>b, <2>1, <3>1 DEF InFlight, Finished
    <3>3. QED
      BY <3>2 DEF WillRead
  <2>4. CASE t # n /\ ~Feeds(use, n, t)
    <3>1. cur'[t] = cur[t] /\ waiting'[t] = waiting[t] /\ (t \in failed' <=> t \in failed)
      BY <1>r, <2>1, <2>4
    <3>2. (InFlight(t)' <=> InFlight(t)) /\ (Finished(t)' <=> Finished(t))
      BY <3>1 DEF InFlight, Finished
    <3>3. ASSUME NEW k \in Nodes, t \in Sends[k], Finished(k), ~cur[k].req.broken
          PROVE  t \in Sends'[k] /\ Finished(k)' /\ ~cur'[k].req.broken
      <4>1. k # n
        BY <2>4, <3>3 DEF Feeds, Sends
      <4>2. ~Feeds(use, n, k)
        BY <1>r, <3>3, <4>1 DEF InFlight, Finished
      <4>3. cur'[k] = cur[k]
        BY <1>r, <4>1, <4>2
      <4>4. QED
        BY <1>u, <3>3, <4>3 DEF Finished
    <3>4. QED
      BY <2>1, <3>1, <3>2, <3>3 DEF WillRead
  <2>5. QED
    BY <2>2, <2>3, <2>4
<1>5. QED
  BY <1>1, <1>2, <1>3, <1>4, <1>p, <1>r, <1>u DEF Settling

\* On a canvas where every node is fed by one node at most, never by itself in
\* the end, edited at rest and node by node, nothing is stale and no message is
\* unread when nothing is computed (propagate_downstream and recompute_requests,
\* which skip the nodes that are pending, find none there).
THEOREM TreesSettle ==
  ASSUME \A u \in Uses : u.calm => IsTree(u)
  PROVE  Spec => []QuietMeansSettled
<1>1. Init => CalmIsSettling
  <2>1. SUFFICES ASSUME Init, use.calm PROVE Settling
    BY DEF CalmIsSettling
  <2>2. /\ use \in Uses /\ started = ("start" \notin use.ops) /\ pending = {} /\ mail = {}
        /\ \A n \in Nodes : /\ cur[n] = None /\ waiting[n] = None /\ rev[n] = 0
                            /\ \A m \in Nodes : out[n].from[m] = 0
    BY <2>1 DEF Init
  <2>3. started
    BY <2>1, <2>2 DEF IsTree
  <2>4. Imports \in [Nodes -> SUBSET Nodes]
    BY <2>1, BaseInit, UseFacts DEF Base
  <2>5. \A n \in Nodes : \A m \in Imports[n] : FreshFrom(n, m)
    BY <2>2, <2>4 DEF FreshFrom
  <2>6. QED
    BY <2>2, <2>3, <2>5 DEF Settling, Kept, InFlight
<1>2. Base /\ CalmIsSettling /\ [Next]_vars => CalmIsSettling'
  <2>1. SUFFICES ASSUME Base, CalmIsSettling, [Next]_vars, use'.calm
                 PROVE  Settling'
    BY DEF CalmIsSettling
  <2>2. use' = use /\ use.calm /\ use \in Uses
    BY <2>1, StepOfTheLoop DEF WholeStep, Base, Typed
  <2>3. Settling /\ IsTree(use)
    BY <2>1, <2>2 DEF CalmIsSettling
  <2>4. CASE UserActs
    BY <2>1, <2>2, <2>3, <2>4, UserSettles
  <2>5. ASSUME NEW n \in Nodes, Flush(n) \/ Evaluating(n) \/ Polling(n)
        PROVE  Settling'
    BY <2>1, <2>2, <2>3, <2>5, LoopSettles, ResultSettles DEF Polling
  <2>6. CASE UNCHANGED vars
    <3>1. Settling <=> Settling'
      BY <2>6 DEF vars, Settling, InFlight, Kept, Apart, Closed, FreshFrom, WillRead, Finished,
                  Imports, Sends
    <3>2. QED
      BY <2>3, <3>1
  <2>7. QED
    BY <2>1, <2>4, <2>5, <2>6 DEF Next, LoopActs
<1>3. TypeOK /\ CalmIsSettling => QuietMeansSettled
  <2>1. SUFFICES ASSUME TypeOK, CalmIsSettling, use.calm, Quiet
                 PROVE  /\ \A n \in Nodes \ failed : \A m \in Imports[n] : out[n].from[m] = rev[m]
                        /\ mail \subseteq failed
    BY DEF QuietMeansSettled, QuietChainsAreCurrent, QuietMeansCurrent, QuietMeansMailRead
  <2>2. \A n \in Nodes : ~InFlight(n) /\ ~Finished(n)
    BY <2>1 DEF Quiet, InFlight, Finished
  <2>3. Settling /\ mail \subseteq Nodes
    BY <2>1 DEF CalmIsSettling, TypeOK
  <2>4. QED
    BY <2>2, <2>3 DEF Settling, FreshFrom, WillRead
<1>4. QED
  BY <1>1, <1>2, <1>3, BaseHolds, LoopTypeCorrect, PTL DEF Spec
===========================================================================
