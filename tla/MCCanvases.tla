----------------------------- MODULE MCCanvases -----------------------------
(* Canvases with a few nodes. *)
EXTENDS Canvases

CONSTANTS sketch, work

\* Two canvases, opened by the GUI and by the peer in turn: two nodes and everything
\* that may be done, or three nodes that are made, replaced and kept over starts.
GuiAndPeer(most, ops) == [apps |-> {"gui", "peer"}, births |-> most, ops |-> ops]
Edits == {"add", "new", "switch", "import", "canvas", "create", "drop", "stop"}
EditUse == GuiAndPeer(3, {"add", "new", "import", "canvas", "create", "stop", "close"})

\* The GUI alone undoes what it did with three nodes.
UndoUse == [apps |-> {"gui"}, births |-> 3, ops |-> {"add", "delete", "new", "undo"}]

\* One canvas without undo and import, where results come late.
LateUse == [apps |-> {"gui"}, births |-> 3,
            ops |-> {"add", "delete", "key", "deliver", "lost", "compute", "save", "stop"}]

\* The GUI alone imports files that have a database beside them.
DatabaseUse == [apps |-> {"gui"}, births |-> 1,
                ops |-> {"new", "switch", "close", "import", "importdb", "undo", "stop"}]
EditOrLate == {GuiAndPeer(2, Edits \cup {"close", "undo"}), EditUse, UndoUse, LateUse,
               DatabaseUse}

\* Two canvases that get nodes after the start.
Grow == {[apps |-> {"gui"}, births |-> 2, ops |-> {"add", "new", "switch"}]}
=============================================================================
