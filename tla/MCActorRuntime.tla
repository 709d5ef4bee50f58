--------------------------- MODULE MCActorRuntime ---------------------------
(* ActorRuntime on small instances. *)
EXTENDS ActorRuntime

CONSTANTS n1, n2, c1, blank

\* Requests and messages of each node.
One == [n \in Nodes |-> 1]
Two == [n \in Nodes |-> 2]
TwoThree == [n \in Nodes |-> IF n = n1 THEN 2 ELSE 3]
=============================================================================
