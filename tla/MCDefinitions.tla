--------------------------- MODULE MCDefinitions ---------------------------
(* Definitions with two peers, three labels on two canvases. *)
EXTENDS Definitions

CONSTANTS a, b, src, user, far, main, other, x, y, arrow, one, two, used, blank

CanvasesOf == [l \in Labels |-> IF l = far THEN other ELSE main]

\* The body `two` mentions x; with y, or an arrow, instead of it, it is `used`.
Rewrites == [old \in Names |-> [new \in Names |->
  [h \in Hashes |-> IF old = x /\ new # x /\ h = two THEN used ELSE h]]]

Def(n, h) == [name |-> n, hash |-> h, spaced |-> TRUE]
Start(defs, exports, imports, hashes) ==
  [defs |-> defs, exports |-> exports, imports |-> imports, hashes |-> hashes]
Src == Start(<<Def(x, one)>>, {x}, {}, {})
User == Start(<< >>, {}, {src}, {})
NoNodes == [l \in {} |-> Src]

Use(opsA, opsB, most, startA, startB, code, imports, fresh, loss) ==
  [ops |-> [p \in Peers |-> IF p = a THEN opsA ELSE opsB], most |-> most,
   start |-> [p \in Peers |-> IF p = a THEN startA ELSE startB],
   code |-> code, imports |-> imports, fresh |-> fresh, loss |-> loss]

Code(defs) == [l \in Labels |-> IF l = src THEN {Start(d, {x, y}, {}, {}) : d \in defs} ELSE {}]
OneNode == [l \in {src} |-> Src]
TwoNodes == [l \in {src, user} |-> IF l = src THEN Src ELSE User]
Importer == [l \in {user} |-> Start(<< >>, {}, {},
               {[hash |-> one, name |-> x], [hash |-> blank, name |-> y]})]
Callers == [l \in {src, user} |-> IF l = src THEN Src
            ELSE Start(<<Def(y, two)>>, {y}, {}, {[hash |-> one, name |-> x]})]
Supplier == [l \in {src, far} |-> IF l = src THEN Src ELSE Start(<<Def(y, blank)>>, {y}, {}, {})]

\* Edits of one program; imports; nodes that come and go; a rename that rewrites the
\* program of another node; two peers.
Scenarios == {
  Use({"update", "compute"}, {}, 5, OneNode, NoNodes,
      Code({<<Def(x, two)>>, <<Def(x, two), Def(x, one)>>}), {}, FALSE, FALSE),
  Use({"migrate", "import", "update", "restart"}, {}, 3, TwoNodes, NoNodes, Code({<<Def(y, one)>>}),
      {[hash |-> one, name |-> y], [hash |-> two, name |-> arrow]}, FALSE, FALSE),
  Use({"create", "delete", "rename", "restart"}, {}, 5, OneNode, NoNodes,
      Code({<<Def(x, two), Def(y, one)>>}), {}, TRUE, FALSE),
  Use({"rename", "compute", "restart"}, {}, 2, Callers, NoNodes, Code({}), {}, FALSE, FALSE),
  Use({"restart"}, {"restart"}, 1, Supplier, Importer, Code({}), {}, TRUE, TRUE)}

\* A definition whose name is followed by a line break.
BrokenLine == {Use({"rename"}, {}, 1,
  [l \in {src} |-> Start(<<[Def(x, one) EXCEPT !.spaced = FALSE]>>, {x}, {}, {})], NoNodes,
  Code({}), {}, TRUE, FALSE)}
=============================================================================
