--------------------------- MODULE MCComputeLoop ---------------------------
(* ComputeLoop on small canvases. *)
EXTENDS ComputeLoop

CONSTANTS n1, n2, n3, n4

NoSends == [n \in Nodes |-> {}]
SendsTo(from, to) == [n \in Nodes |-> IF n = from THEN {to} ELSE {}]

\* n1 <- n2
Pair == [n \in Nodes |-> IF n = n2 THEN {n1} ELSE {}]

\* n1 <- n2 <- n4, and n3 by itself.
ChainAndOne == [n \in Nodes |->
                  CASE n = n2 -> {n1} [] n = n4 -> {n2} [] OTHER -> {}]

\* n2 and n3 import n1; n4 imports both.
Diamond == [n \in Nodes |->
              CASE n \in {n2, n3} -> {n1} [] n = n4 -> {n2, n3} [] OTHER -> {}]

\* n3 imports n1 and n2, which imports n1.
Triangle == [n \in Nodes |->
               CASE n = n2 -> {n1} [] n = n3 -> {n1, n2} [] OTHER -> {}]

\* Every node has one import, n1 sends a message to n3, and edits and messages
\* come at rest.
CalmUse == [nodes |-> Nodes, imports |-> ChainAndOne, snapshot |-> {n4},
            sends |-> SendsTo(n1, n3), ops |-> {"widget", "file", "message"},
            calm |-> TRUE, versions |-> 2]

\* The start of the peer, then edits, commands and cancellation at any time.
BusyUse == [nodes |-> {n1, n2}, imports |-> Pair, snapshot |-> {n2},
            sends |-> NoSends, calm |-> FALSE, versions |-> 3,
            ops |-> {"start", "widget", "file", "update", "compute", "roots",
                     "recompute", "cancel"}]

\* Edits at any time; nothing is cancelled; n2 sends a message to n3.
LiveUse == [nodes |-> {n1, n2, n3}, imports |-> Triangle, snapshot |-> {n2},
            sends |-> SendsTo(n2, n3), ops |-> {"widget", "file"}, calm |-> FALSE,
            versions |-> 2]

CalmOrBusy == {CalmUse, BusyUse}
CalmOrLive == {CalmUse, LiveUse}

\* One edit at rest of a canvas where a node has two imports.
DiamondUses == {[nodes |-> Nodes, imports |-> Diamond, snapshot |-> {},
                 sends |-> NoSends, ops |-> {"widget"}, calm |-> TRUE,
                 versions |-> 2]}
=============================================================================
