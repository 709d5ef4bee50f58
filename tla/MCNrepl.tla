------------------------------ MODULE MCNrepl ------------------------------
(* Nrepl with two clients. *)
EXTENDS Nrepl

CONSTANTS agent, editor, main, other

Pair(a, i, e, j) == [c \in Clients |->
  IF c = agent THEN [ops |-> a, most |-> i] ELSE [ops |-> e, most |-> j]]

\* Commands of both; commands among reads; sessions; namespaces.
Scenarios == {
  Pair({"create-node", "node-state", "delete-node"}, 2, {"update-node"}, 1),
  Pair({"create-canvas", "create-node"}, 2, {"list-canvases", "ns-list"}, 1),
  Pair({"clone", "close", "eval"}, 3, {"load-file"}, 1),
  Pair({"create-node", "load-file"}, 2, {"switch-ns", "compute", "info", "completions"}, 1)}
=============================================================================
