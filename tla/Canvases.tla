------------------------------ MODULE Canvases ------------------------------
(***************************************************************************)
(* The canvases of one process and the identity of their nodes: node       *)
(* numbers across canvases, the start from the database, undo, import,     *)
(* phantom nodes, and the results that find their node by its number       *)
(* (src/src/app.rs, src/src/graph_runtime.rs, src/src/types.rs,            *)
(* src/src/persistence.rs).                                                *)
(*                                                                         *)
(* A node is told apart from every other node that ever got the same       *)
(* number by its birth, which the program does not keep: births only       *)
(* appear in the state to say whose results a node shows.                  *)
(***************************************************************************)
EXTENDS Naturals, Sequences, FiniteSets, Functions

CONSTANTS
  Names,     \* names of canvases
  Default,   \* the canvas made when there is none ("default")
  Uses,      \* what may happen in a behaviour, one of these: the programs that
             \* are started on the database ("gui", "peer"), what users, tools
             \* and peers do, and (bound) how many nodes are made
  MaxUndo,   \* undo states kept (10 in the code)
  None

\* ("importdb": imported files may have a database beside them.)
GuiOps == {"add", "delete", "key", "new", "switch", "close", "import", "importdb", "undo",
           "lost", "save"}
PeerOps == {"canvas", "create", "drop"}
BothOps == {"deliver", "compute", "stop"}

ASSUME ConstantsAssumption ==
  /\ Default \in Names
  /\ Uses \subseteq [apps : SUBSET {"gui", "peer"},
                     ops : SUBSET (GuiOps \cup PeerOps \cup BothOps),
                     births : Nat]
  /\ MaxUndo \in Nat \ {0}
  /\ None \notin Nat

VARIABLES
  use,      \* which of Uses this behaviour is
  app,      \* the program that runs: the GUI, the headless peer, or "none"
  graphs,   \* all_graphs
  current,  \* current_canvas, whose graph the GUI shows
  list,     \* canvas_list
  undo,     \* undo_history: the states pushed and the number of them in use
  evals,    \* evaluations in flight: the node's number, the node's birth
  db,       \* the canvases saved in the database
  disk,     \* the database file
  births    \* nodes made so far

vars == <<use, app, graphs, current, list, undo, evals, db, disk, births>>

\* A node: which one it is, whether a delivery made it, whether it is marked
\* as phantom, and the birth of the node whose result it shows.
Node == [birth : 1 .. use.births, remote : BOOLEAN, phantom : BOOLEAN,
         shows : (1 .. use.births) \cup {None}]

Newborn(remote) ==
  [birth |-> births + 1, remote |-> remote, phantom |-> remote, shows |-> None]

NoNodes == [id \in {} |-> None]

\* A graph: its nodes by number, and next_node_id.
NewGraph(next) == [nodes |-> NoNodes, next |-> next]
Ids(g) == DOMAIN g.nodes

IdsOf(gs) == UNION {Ids(gs[c]) : c \in DOMAIN gs}

\* The largest member of a set of numbers, 0 if there is none.
MaxOf(S) == IF S = {} THEN 0 ELSE CHOOSE n \in S : \A k \in S : k <= n

\* Mutant: a number is the first one that is free.
FirstFree(g) == CHOOSE id \in 1 .. MaxOf(Ids(g)) + 1 :
                  id \notin Ids(g) /\ \A k \in 1 .. id - 1 : k \in Ids(g)
NextId(g) == g.next

\* (Mutant: next_node_id is not advanced.)
WithKept(g, node) ==
  [g EXCEPT !.nodes = [id \in Ids(g) \cup {g.next} |->
                         IF id = g.next THEN node ELSE g.nodes[id]]]
\* A new node gets next_node_id.
With(g, node) ==
  [nodes |-> [id \in Ids(g) \cup {NextId(g)} |->
                IF id = NextId(g) THEN node ELSE g.nodes[id]],
   next |-> NextId(g) + 1]
Without(g, ids) == [g EXCEPT !.nodes = Restrict(g.nodes, Ids(g) \ ids)]
Phantoms(g) == {id \in Ids(g) : g.nodes[id].phantom}

\* save_canvas_to_db: phantoms are left out, outputs are not written.
Saved(g) ==
  LET kept == Without(g, Phantoms(g)) IN
  [kept EXCEPT !.nodes = [id \in Ids(kept) |-> [kept.nodes[id] EXCEPT !.shows = None]]]

\* A graph out of the undo history: serde skips the phantom flag.
Unpacked(g) ==
  [g EXCEPT !.nodes = [id \in Ids(g) |-> [g.nodes[id] EXCEPT !.phantom = FALSE]]]

NoGraphs == [c \in {} |-> NewGraph(1)]

NoUndo == [states |-> << >>, at |-> 0]

Init ==
  /\ use \in Uses
  /\ app = "none"
  /\ graphs = NoGraphs
  /\ current = Default
  /\ list = {}
  /\ undo = NoUndo
  /\ evals = {}
  /\ db = NoGraphs
  /\ disk = NoGraphs
  /\ births = 0

-----------------------------------------------------------------------------
(***************************************************************************)
(* The start and the end of the process                                    *)
(***************************************************************************)

\* The orders in which list_canvases may return the names S.
Orders(S) ==
  {o \in [1 .. Cardinality(S) -> S] : \A i, j \in DOMAIN o : o[i] = o[j] => i = j}

\* Mutant: new numbers start above those of the canvas alone.
TopOfCanvas(gs, c) == MaxOf(Ids(gs[c]))
\* New numbers start above all numbers of the canvases (global_max).
Top(gs, c) == MaxOf(IdsOf(gs))

\* The numbers of canvas o[i] that an earlier canvas uses (used_ids).
Clashes(gs, o, i) == Ids(gs[o[i]]) \cap UNION {Ids(gs[o[j]]) : j \in 1 .. i - 1}

\* remap_conflicting_ids over the canvases in the order o: each clash takes the
\* next number.  (Within a canvas the code takes them in hash order.)
Remapped(gs, o) ==
  LET taken(i) == UNION {{j} \X Clashes(gs, o, j) : j \in 1 .. i - 1}
      new(i, id) == IF id \in Clashes(gs, o, i)
                    THEN Top(gs, o[i]) + Cardinality(taken(i))
                         + Cardinality({k \in Clashes(gs, o, i) : k <= id})
                    ELSE id
      graph(i) ==
        LET g == gs[o[i]]
            ids == {new(i, id) : id \in Ids(g)}
        IN [nodes |-> [id \in ids |-> g.nodes[CHOOSE old \in Ids(g) : new(i, old) = id]],
            next |-> MaxOf(ids) + 1]
  IN [c \in DOMAIN gs |-> graph(CHOOSE i \in DOMAIN o : o[i] = c)]

\* WasmCanvasApp::new: the database is read; without a canvas, an empty one is
\* made and saved; the first of the list is shown.
StartGui ==
  /\ app = "none"
  /\ app' = "gui"
  /\ app' \in use.apps
  /\ db' = IF DOMAIN disk = {} THEN [c \in {Default} |-> NewGraph(1)] ELSE disk
  /\ list' = DOMAIN db'
  /\ \E o \in Orders(list') :
       /\ current' = o[1]
       /\ graphs' = Remapped(db', o)
       /\ undo' = [states |-> <<graphs'[o[1]]>>, at |-> 1]
  /\ evals' = {}
  /\ UNCHANGED <<use, disk, births>>

\* The peer's main: the graphs are taken as they were saved.
StartPeer ==
  /\ app = "none"
  /\ app' = "peer"
  /\ app' \in use.apps
  /\ db' = disk
  /\ list' = DOMAIN disk
  /\ graphs' = IF DOMAIN disk = {} THEN [c \in {Default} |-> NewGraph(1)] ELSE disk
  /\ evals' = {}
  /\ UNCHANGED <<use, current, undo, disk, births>>

MayAct(op) ==
  /\ op \in use.ops
  /\ \/ app = "gui" /\ op \in GuiOps \cup BothOps
     \/ app = "peer" /\ op \in PeerOps \cup BothOps

\* The shown canvas is open.  Where it is not, the next frame ends the process when it
\* draws the canvas ("current canvas missing from all_graphs"), if no undo comes first.
Open == current \in DOMAIN graphs

DbWithAll == [c \in DOMAIN db \cup DOMAIN graphs |->
                IF c \in DOMAIN graphs THEN Saved(graphs[c]) ELSE db[c]]

SaveGraph ==
  /\ MayAct("save") /\ Open
  /\ db' = DbWithAll
  /\ disk' = DbWithAll
  /\ UNCHANGED <<use, app, graphs, current, list, undo, evals, births>>

\* The process ends.  on_exit of the GUI saves; a crash and the peer do not.
Stop ==
  /\ MayAct("stop")
  /\ disk' \in {disk} \cup (IF app = "gui" THEN {DbWithAll} ELSE {})
  /\ app' = "none"
  /\ graphs' = NoGraphs
  /\ current' = Default
  /\ list' = {}
  /\ undo' = NoUndo
  /\ evals' = {}
  /\ db' = NoGraphs
  /\ UNCHANGED <<use, births>>

-----------------------------------------------------------------------------
(***************************************************************************)
(* The GUI                                                                 *)
(***************************************************************************)

\* UndoHistory::push of the graph g: what was undone is forgotten, then the
\* oldest state if there are too many.
Pushed(g) ==
  LET states == Append(SubSeq(undo.states, 1, undo.at), g)
      kept == IF Len(states) > MaxUndo THEN Tail(states) ELSE states
  IN [states |-> kept, at |-> Len(kept)]

\* The shown graph becomes g, and that is pushed.
Show(g) == graphs' = [graphs EXCEPT ![current] = g]
ShowAndPush(g) == Show(g) /\ undo' = Pushed(g)

\* PanelAction::AddNode and InsertFavorite.
AddNode ==
  /\ MayAct("add") /\ Open
  /\ births < use.births
  /\ births' = births + 1
  /\ ShowAndPush(With(graphs[current], Newborn(FALSE)))
  /\ UNCHANGED <<use, app, current, list, evals, db, disk>>

\* PanelAction::DeleteNode.  What the runtime evaluates goes on.
DeleteNode(id) ==
  /\ MayAct("delete") /\ Open
  /\ id \in Ids(graphs[current])
  /\ ShowAndPush(Without(graphs[current], {id}))
  /\ UNCHANGED <<use, app, current, list, evals, db, disk, births>>

\* The delete key on the canvas: remove_node, nothing else.
DeleteByKey(id) ==
  /\ MayAct("key") /\ Open
  /\ id \in Ids(graphs[current])
  /\ Show(Without(graphs[current], {id}))
  /\ UNCHANGED <<use, app, current, list, undo, evals, db, disk, births>>

\* PanelAction::NewCanvas, also under a name in use: it is replaced.
NewCanvas(c) ==
  /\ MayAct("new") /\ Open
  /\ LET g == NewGraph(MaxOf(IdsOf(graphs)) + 1) IN
     /\ graphs' = [d \in DOMAIN graphs \cup {c} |-> IF d = c THEN g ELSE graphs[d]]
     /\ db' = [d \in DOMAIN db \cup {c} |-> IF d = c THEN g ELSE db[d]]
  /\ current' = c
  /\ list' = DOMAIN db'
  /\ UNCHANGED <<use, app, undo, evals, disk, births>>

SwitchCanvas(c) ==
  /\ MayAct("switch") /\ Open
  /\ c \in list \ {current}
  /\ current' = c
  /\ UNCHANGED <<use, app, graphs, list, undo, evals, db, disk, births>>

ListAfter(saved) == DOMAIN saved

\* PanelAction::DeleteCanvas: the first of the others in the database is shown, open or
\* not; "default" if there is none.
DeleteCanvas(c) ==
  /\ MayAct("close") /\ Open
  /\ c \in list
  /\ Cardinality(list) > 1
  /\ db' = Restrict(db, DOMAIN db \ {c})
  /\ graphs' = Restrict(graphs, DOMAIN graphs \ {c})
  /\ list' = ListAfter(db')
  /\ IF c # current THEN UNCHANGED current
     ELSE current' \in IF list' = {} THEN {Default} ELSE list'
  /\ disk' = db'
  /\ UNCHANGED <<use, app, undo, evals, births>>

\* The database beside an imported file: canvases without nodes, or with the node of
\* the file.  Db::import replaces the rows of all canvases by its rows.
Beside(g) ==
  IF "importdb" \in use.ops
  THEN UNION {[canvases -> {NewGraph(1), Saved(g)}] :
                 canvases \in {S \in SUBSET Names : IsFiniteSet(S)}}
  ELSE {}

\* The rows with those of canvas c, which save_canvas_to_db writes.
WithRows(rows, c, g) ==
  [d \in DOMAIN rows \cup {c} |-> IF d = c THEN Saved(g) ELSE rows[d]]

\* PanelAction::ImportScm of a file with one node, number id, and of the database
\* beside it if there is one: the node replaces the shown graph and starts a new undo
\* history.  The list of canvases is not read again.
ImportScm(id) ==
  /\ MayAct("import") /\ Open
  /\ births < use.births
  /\ births' = births + 1
  /\ LET g == [nodes |-> [k \in {id} |-> Newborn(FALSE)], next |-> id + 1] IN
     /\ Show(g)
     /\ \E rows \in {db} \cup Beside(g) : db' = WithRows(rows, current, g)
     /\ undo' = [states |-> <<g>>, at |-> 1]
  /\ UNCHANGED <<use, app, current, list, evals, disk>>

\* Ctrl-Z and Ctrl-Y: the state goes to the shown canvas, open or not.
Insert(g) ==
  graphs' = [d \in DOMAIN graphs \cup {current} |-> IF d = current THEN g ELSE graphs[d]]

Undo ==
  /\ MayAct("undo")
  /\ undo.at > 1
  /\ undo' = [undo EXCEPT !.at = @ - 1]
  /\ Insert(Unpacked(undo.states[undo.at - 1]))
  /\ UNCHANGED <<use, app, current, list, evals, db, disk, births>>

Redo ==
  /\ MayAct("undo")
  /\ undo.at < Len(undo.states)
  /\ undo' = [undo EXCEPT !.at = @ + 1]
  /\ Insert(Unpacked(undo.states[undo.at + 1]))
  /\ UNCHANGED <<use, app, current, list, evals, db, disk, births>>

\* NetEvent::PeerLost: the phantoms that name the peer leave the shown canvas.
PeerLost(ids) ==
  /\ MayAct("lost") /\ Open
  /\ ids \subseteq Phantoms(graphs[current])
  /\ ids # {}
  /\ Show(Without(graphs[current], ids))
  /\ UNCHANGED <<use, app, current, list, undo, evals, db, disk, births>>

-----------------------------------------------------------------------------
(***************************************************************************)
(* The peer's commands, deliveries and results                             *)
(***************************************************************************)

\* NreplCommand::CreateCanvas
CreateCanvas(c) ==
  /\ MayAct("canvas")
  /\ c \notin DOMAIN graphs
  /\ graphs' = [d \in DOMAIN graphs \cup {c} |->
                  IF d = c THEN NewGraph(1) ELSE graphs[d]]
  /\ UNCHANGED <<use, app, current, list, undo, evals, db, disk, births>>

\* cmd_create_node ("create"), and deliver_values of a module that has no
\* phantom on the canvas yet ("deliver").
MakeNode(c, op) ==
  /\ MayAct(op)
  /\ op \in {"create", "deliver"}
  /\ births < use.births
  /\ births' = births + 1
  /\ graphs' = [graphs EXCEPT ![c] = With(@, Newborn(op = "deliver"))]
  /\ UNCHANGED <<use, app, current, list, undo, evals, db, disk>>

\* cmd_delete_node
DropNode(c, id) ==
  /\ MayAct("drop")
  /\ id \in Ids(graphs[c]) \ Phantoms(graphs[c])
  /\ graphs' = [graphs EXCEPT ![c] = Without(@, {id})]
  /\ UNCHANGED <<use, app, current, list, undo, evals, db, disk, births>>

\* compute_if_ready of number id finds it on canvas c, the first with that
\* number in hash order.
ComputeNode(c, id) ==
  /\ MayAct("compute")
  /\ id \in Ids(graphs[c]) \ Phantoms(graphs[c])
  /\ \A e \in evals : e.id # id
  /\ evals' = evals \cup {[id |-> id, birth |-> graphs[c].nodes[id].birth]}
  /\ UNCHANGED <<use, app, graphs, current, list, undo, db, disk, births>>

Holders(id) == {c \in DOMAIN graphs : id \in Ids(graphs[c])}

\* apply_compute_result: the node that has the number now shows the result.
ApplyResult(e) ==
  /\ app # "none"
  /\ evals' = evals \ {e}
  /\ IF Holders(e.id) = {} THEN UNCHANGED graphs
     ELSE \E c \in Holders(e.id) :
            graphs' = [graphs EXCEPT ![c].nodes[e.id].shows = e.birth]
  /\ UNCHANGED <<use, app, current, list, undo, db, disk, births>>

OnCanvas(c) ==
  \/ \E op \in {"create", "deliver"} : MakeNode(c, op)
  \/ \E id \in Ids(graphs[c]) : DropNode(c, id) \/ ComputeNode(c, id)

Shown ==
  \/ AddNode
  \/ \E id \in Ids(graphs[current]) : DeleteNode(id) \/ DeleteByKey(id)
  \/ \E id \in 1 .. 2 : ImportScm(id)
  \/ \E ids \in SUBSET Phantoms(graphs[current]) : PeerLost(ids)

Next ==
  \/ StartGui \/ StartPeer \/ SaveGraph \/ Stop
  \/ app = "gui" /\ Open /\ Shown
  \/ Undo \/ Redo
  \/ \E c \in Names : NewCanvas(c) \/ SwitchCanvas(c) \/ DeleteCanvas(c) \/ CreateCanvas(c)
  \/ \E c \in DOMAIN graphs : OnCanvas(c)
  \/ \E e \in evals : ApplyResult(e)

Spec == Init /\ [][Next]_vars

-----------------------------------------------------------------------------
(***************************************************************************)
(* Properties                                                              *)
(***************************************************************************)

GraphOK(g) ==
  /\ Ids(g) \subseteq Nat \ {0}
  /\ g.nodes \in [Ids(g) -> Node]
  /\ g.next \in Nat \ {0}

GraphsOK(gs) == DOMAIN gs \subseteq Names /\ \A c \in DOMAIN gs : GraphOK(gs[c])

\* Type invariant; the history never holds more than MaxUndo states, and the
\* state in use is one of them.
TypeOK ==
  /\ app \in use.apps \cup {"none"}
  /\ GraphsOK(graphs) /\ GraphsOK(db) /\ GraphsOK(disk)
  /\ current \in Names
  /\ list \subseteq Names
  /\ \A i \in DOMAIN undo.states : GraphOK(undo.states[i])
  /\ Len(undo.states) <= MaxUndo
  /\ undo.at \in 0 .. Len(undo.states)
  /\ evals \subseteq [id : Nat \ {0}, birth : 1 .. use.births]
  /\ births \in 0 .. use.births

\* A canvas that can be chosen is open, and so is the one that is shown (the
\* code's expect: "current canvas missing from all_graphs"), whatever is created,
\* deleted, imported and restarted, as long as no imported file has a database beside it.
\* Such a database may name canvases that are not open; the list has them after the next
\* canvas is made or deleted.
ShownIsOpen ==
  app = "gui" /\ "importdb" \notin use.ops => Open /\ list \subseteq DOMAIN graphs

\* The next number of a canvas is above those of its nodes, in memory, in the
\* undo history and on disk; so a new node never replaces another one.
Fresh(g) == \A id \in Ids(g) : id < g.next
NextIsFresh ==
  /\ \A c \in DOMAIN graphs : Fresh(graphs[c])
  /\ \A i \in DOMAIN undo.states : Fresh(undo.states[i])
  /\ \A c \in DOMAIN disk : Fresh(disk[c])

\* Node numbers are unique across canvases (src/src/app.rs: "Ensure globally
\* unique node IDs across all canvases"), which find_node relies on.
IdsUnique == \A c, d \in DOMAIN graphs : c # d => Ids(graphs[c]) \cap Ids(graphs[d]) = {}

Births(g) == {g.nodes[id].birth : id \in Ids(g)}

\* The start of the GUI makes node numbers unique whatever was saved, and loses
\* no node.
StartGivesEachItsOwn ==
  [][app = "none" /\ app' = "gui" =>
       /\ IdsUnique'
       /\ \A c \in DOMAIN disk : Births(graphs'[c]) = Births(disk[c])]_vars

\* On one canvas without undo and import a node shows its own results, never
\* those of a node that had its number before.
Steady == use.ops \cap {"undo", "import", "new", "canvas"} = {}
ResultsReachTheirNode ==
  Steady => \A c \in DOMAIN graphs : \A id \in Ids(graphs[c]) :
    LET node == graphs[c].nodes[id] IN node.shows \in {None, node.birth}

\* Without undo, no node made by a delivery is saved (persistence.rs,
\* test_db_graph_phantom_not_saved).
PhantomsNotSaved ==
  Steady => \A c \in DOMAIN disk : \A id \in Ids(disk[c]) : ~disk[c].nodes[id].remote

\* Whatever is created, deleted, undone, saved and started again, there is a canvas
\* to show and a new node gets a number of its own there.
CanvasesAreSound == TypeOK /\ ShownIsOpen /\ NextIsFresh /\ PhantomsNotSaved
=============================================================================
