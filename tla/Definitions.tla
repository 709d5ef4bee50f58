----------------------------- MODULE Definitions -----------------------------
(***************************************************************************)
(* Content-addressed definitions of headless peers: the rows of the name   *)
(* database (src/db.rs), the definition files and node files on disk       *)
(* (src/persistence.rs), the commands that change them and the exchange of *)
(* definitions with other peers (src/graph_runtime.rs), and the watcher    *)
(* that reads node files back (src/file_watcher.rs).                       *)
(*                                                                         *)
(* A definition's hash is its canonical body, so a body stands for its own *)
(* hash and for the value it evaluates to.  The bodies of Bare hold no     *)
(* expression: they are hashed as they are, and stored as Nothing.  A      *)
(* label belongs to one canvas and to at most one node of a peer.  The     *)
(* headless peer never writes its database, so rows live in memory only.   *)
(***************************************************************************)
EXTENDS Naturals, FiniteSets, Sequences, SequencesExt

CONSTANTS
  Peers, Labels, Canvases, Names, Bodies, Bare,
  CanvasOf,  \* the canvas of each label
  Unreadable, \* names that the parser of a node file does not take for one
  Rewritten, \* Rewritten[old][new]: each body with one identifier for another
  Nothing,   \* the body of a file without an expression
  Network,   \* "__network__" of canvas "__remote__"
  None,
  Uses       \* what happens in a behaviour, and (bound) how much

Hashes == Bodies \cup Bare

\* A definition of a program; `spaced` says that a space follows its name.
Defs == [name : Names, hash : Hashes, spaced : BOOLEAN]
HashImports == [hash : Hashes, name : Names]

\* start: the nodes in the database when a peer starts, and their files;
\* ops, most: the commands, and how many; code: the programs given to
\* create-node and update-node; fresh: a rename takes a name that is not in
\* use; loss, restarts: whether messages are lost and peers restart.
Programs == [defs : Seq(Defs), exports : SUBSET Names, imports : SUBSET Labels,
             hashes : SUBSET HashImports]
ASSUME ConstantsAssumption ==
  /\ CanvasOf \in [Labels -> Canvases] /\ Unreadable \subseteq Names
  /\ Rewritten \in [Names -> [Names -> [Hashes -> Hashes]]]
  /\ Nothing \notin Hashes /\ None \notin Names \cup Labels /\ Network \notin Labels
  /\ \A u \in Uses :
       /\ u.most \in Nat /\ DOMAIN u.ops = Peers /\ DOMAIN u.start = Peers
       /\ \A p \in Peers : /\ DOMAIN u.start[p] \subseteq Labels
                           /\ \A l \in DOMAIN u.start[p] : u.start[p][l] \in Programs
       /\ \A l \in Labels : u.code[l] \subseteq Programs
       /\ u.imports \subseteq HashImports

VARIABLES
  use,      \* what happens in this behaviour
  spent,    \* commands and restarts so far (bound: use.most)
  nodes,    \* all_graphs of each peer: the nodes by label
  rows,     \* the def_names table of each peer
  store,    \* the files of defs/: content by hash
  files,    \* the node files
  touched,  \* node files written since the watcher last read them
  events,   \* what the watcher has read and the owner has not
  inbox,    \* messages on __def/request and __def/response
  lost      \* has a message been lost?

memory == <<nodes, rows>>
disk   == <<store, files>>
watch  == <<touched, events>>
net    == <<inbox, lost>>
vars   == <<use, spent, memory, disk, watch, net>>

-----------------------------------------------------------------------------
(***************************************************************************)
(* Nodes and their files                                                   *)
(***************************************************************************)

\* A program is its definitions and the import pragmas in its text; `out`
\* holds the output values, `run` the program that is being computed, and
\* `made` says that the program there is now has been computed.
NewNode(n) == [defs |-> n.defs, pragmas |-> {}, exports |-> n.exports, imports |-> n.imports,
               hashes |-> {}, out |-> [x \in {} |-> None], made |-> FALSE, run |-> None]
Program(n) == [defs |-> n.defs, exports |-> n.exports]
Running(n) == [n EXCEPT !.run = Program(n)]

\* write_hash_import_pragmas in front of the program.
FileOf(n) == [defs |-> n.defs, pragmas |-> n.hashes \cup n.pragmas]

\* parse_hash_import_pragmas: a line that does not name what a program could is skipped.
Readable(pragmas) == {i \in pragmas : i.name \notin Unreadable}

\* load_canvas_from_db and load_node_file: exports and imports from the
\* database, the rest from the file, if there is one.
Loaded(row, file) ==
  [NewNode(row) EXCEPT !.defs = file.defs, !.hashes = Readable(file.pragmas)]

\* compute_all
Started(p, onDisk) ==
  [l \in DOMAIN use.start[p] |->
     LET n == IF l \in DOMAIN onDisk THEN Loaded(use.start[p][l], onDisk[l])
              ELSE [NewNode(use.start[p][l]) EXCEPT !.defs = << >>]
     IN  Running(n)]

\* f, and g where f has nothing.
Over(f, g) == [x \in DOMAIN f \cup DOMAIN g |-> IF x \in DOMAIN f THEN f[x] ELSE g[x]]
Without(f, l) == [x \in DOMAIN f \ {l} |-> f[x]]
With(f, l, v) == [x \in DOMAIN f \cup {l} |-> IF x = l THEN v ELSE f[x]]

\* Mutant: the file is written before the node is changed.
SaveFileBefore(p, l, n) ==
  /\ files' = [files EXCEPT ![p] = With(@, l, FileOf(IF l \in DOMAIN nodes[p] THEN nodes[p][l] ELSE n))]
  /\ touched' = [touched EXCEPT ![p] = @ \cup {l}]
SaveFile(p, l, n) ==
  /\ files' = [files EXCEPT ![p] = With(@, l, FileOf(n))]
  /\ touched' = [touched EXCEPT ![p] = @ \cup {l}]

-----------------------------------------------------------------------------
(***************************************************************************)
(* The name database and the definition files                              *)
(***************************************************************************)

Place(label) == IF label = Network THEN Network ELSE CanvasOf[label]
Row(d, label, old) == [hash |-> d.hash, name |-> d.name, label |-> label, old |-> old]
Current(table) == {r \in table : ~r.old}

\* lookup_by_hash: record ids are random, so any row may come first.
RowsOf(table, h) == {r \in Current(table) : r.hash = h}

\* register_def
Registered(table, label, d) ==
  {IF r.label = label /\ r.name = d.name THEN [r EXCEPT !.old = TRUE] ELSE r : r \in table}
    \cup {Row(d, label, FALSE)}

\* Mutants: old rows are not marked; old rows are deleted.
NodeAdded(table, label, defs) ==
  table \cup {Row(defs[i], label, FALSE) : i \in DOMAIN defs}
NodeReplaced(table, label, defs) ==
  {r \in table : r.label # label} \cup {Row(defs[i], label, FALSE) : i \in DOMAIN defs}
\* clear_node_defs, and register_def for one definition after the other: of
\* two with the same name the later stays current.
NodeRegistered(table, label, defs) ==
  {IF r.label = label THEN [r EXCEPT !.old = TRUE] ELSE r : r \in table}
    \cup {Row(defs[i], label, \E j \in DOMAIN defs : j > i /\ defs[j].name = defs[i].name) :
            i \in DOMAIN defs}

\* What is written for a body, and which hash a file's content has.
ContentOf(h) == IF h \in Bare THEN Nothing ELSE h

\* save_definition: a file that exists is left alone.
Saved(stored, contents) == Over(stored, contents)

\* Mutant: only the first definition of a program is saved.
FirstBodySaved(stored, defs) ==
  Saved(stored, [h \in {defs[i].hash : i \in DOMAIN defs \cap {1}} |-> ContentOf(h)])
\* save_node_def_bodies
BodiesSaved(stored, defs) ==
  Saved(stored, [h \in {defs[i].hash : i \in DOMAIN defs} |-> ContentOf(h)])

\* save_node_definitions
SaveDefinitions(p, l, defs) ==
  /\ rows' = [rows EXCEPT ![p] = NodeRegistered(@, l, defs)]
  /\ store' = [store EXCEPT ![p] = BodiesSaved(@, defs)]

\* rename_def of the database, on one canvas.
RowsRenamed(table, h, old, new, canvas) ==
  {IF ~r.old /\ r.hash = h /\ r.name = old /\ Place(r.label) = canvas
   THEN [r EXCEPT !.name = new] ELSE r : r \in table}

\* resolve_hash_imports: what the first row may lead to.
Resolve(p, h) ==
  {IF r.label \in DOMAIN nodes[p] /\ r.name \in DOMAIN nodes[p][r.label].out
   THEN nodes[p][r.label].out[r.name] ELSE None : r \in RowsOf(rows[p], h)}

\* The nREPL's defs, def-source and def-history.
ListDefs(p, canvas) == {r \in Current(rows[p]) : Place(r.label) = canvas}
HasSource(p, h) == h \in DOMAIN store[p]
History(table, name, canvas) == {r \in table : r.name = name /\ Place(r.label) = canvas}

\* unresolved_hash_imports over all nodes
Unresolved(graph, table) ==
  {i.hash : i \in {j \in UNION {graph[l].hashes : l \in DOMAIN graph} : RowsOf(table, j.hash) = {}}}

-----------------------------------------------------------------------------
(***************************************************************************)
(* The network                                                             *)
(***************************************************************************)

Ask(h) == [kind |-> "request", hash |-> h]
\* Mutant: a response that leaves the name out.
TellUnnamed(h, body, name) == [kind |-> "response", hash |-> h, body |-> body, name |-> None]
Tell(h, body, name) == [kind |-> "response", hash |-> h, body |-> body, name |-> name]

\* NetCommand::Publish: to every other peer.
Publish(p, boxes, msgs) == [q \in Peers |-> IF q = p THEN boxes[q] ELSE boxes[q] \cup msgs]

\* request_missing_defs, at the start and when a peer is discovered.
Requests(graph, table) == {Ask(h) : h \in Unresolved(graph, table)}

RequestMissing(p) ==
  /\ inbox' = Publish(p, inbox, Requests(nodes[p], rows[p]))
  /\ UNCHANGED <<use, spent, memory, disk, watch, lost>>

\* handle_def_network_message, a request: served from the files, under the
\* name of the first row, or without a name.
Serve(p, m) ==
  /\ m \in inbox[p] /\ m.kind = "request"
  /\ LET rest == [inbox EXCEPT ![p] = @ \ {m}]
         known == {r.name : r \in RowsOf(rows[p], m.hash)}
     IN  IF m.hash \in DOMAIN store[p]
         THEN \E name \in IF known = {} THEN {None} ELSE known :
                inbox' = Publish(p, rest, {Tell(m.hash, store[p][m.hash], name)})
         ELSE inbox' = rest
  /\ UNCHANGED <<use, spent, memory, disk, watch, lost>>

\* The hash of the body is the one claimed.
Verified(m) == m.body = m.hash

\* handle_def_network_message, a response.
Receive(p, m) ==
  /\ m \in inbox[p] /\ m.kind = "response"
  /\ inbox' = [inbox EXCEPT ![p] = @ \ {m}]
  /\ IF Verified(m)
     THEN /\ store' = [store EXCEPT ![p] = Saved(@, [h \in {m.hash} |-> m.body])]
          /\ rows' = [rows EXCEPT ![p] = IF m.name = None THEN @ ELSE Registered(@, Network, m)]
     ELSE UNCHANGED <<store, rows>>
  /\ UNCHANGED <<use, spent, nodes, files, watch, lost>>

Lose(p, m) ==
  /\ use.loss /\ m \in inbox[p]
  /\ inbox' = [inbox EXCEPT ![p] = @ \ {m}]
  /\ lost' = TRUE
  /\ UNCHANGED <<use, spent, memory, disk, watch>>

-----------------------------------------------------------------------------
(***************************************************************************)
(* Commands of the nREPL, run by the owner                                 *)
(***************************************************************************)

Command(p, op) ==
  /\ op \in use.ops[p] /\ spent < use.most
  /\ spent' = spent + 1
  /\ UNCHANGED <<use, events, net>>

SetNode(p, l, n) == nodes' = [nodes EXCEPT ![p] = With(@, l, n)]

\* cmd_create_node
Create(p, l, n) ==
  /\ Command(p, "create") /\ l \notin DOMAIN nodes[p]
  /\ SetNode(p, l, NewNode(n))
  /\ SaveFile(p, l, NewNode(n))
  /\ SaveDefinitions(p, l, n.defs)

\* cmd_update_node; what it does to exports and imports is in Nrepl.
Update(p, l, n) ==
  /\ Command(p, "update") /\ l \in DOMAIN nodes[p]
  /\ LET new == [nodes[p][l] EXCEPT !.defs = n.defs, !.pragmas = {}, !.made = FALSE]
     IN  SetNode(p, l, new) /\ SaveFile(p, l, new) /\ SaveDefinitions(p, l, n.defs)

\* cmd_delete_node: the file goes, the rows stay.
Delete(p, l) ==
  /\ Command(p, "delete") /\ l \in DOMAIN nodes[p]
  /\ nodes' = [nodes EXCEPT ![p] = Without(@, l)]
  /\ files' = [files EXCEPT ![p] = Without(@, l)]
  /\ UNCHANGED <<rows, store, touched>>

\* cmd_compute_node and compute_if_ready
Compute(p, l) ==
  /\ Command(p, "compute") /\ l \in DOMAIN nodes[p]
  /\ IF nodes[p][l].run = None
     THEN SetNode(p, l, Running(nodes[p][l]))
     ELSE UNCHANGED nodes
  /\ UNCHANGED <<rows, disk, touched>>

\* cmd_add_hash_import
AddHashImport(p, l, i) ==
  /\ Command(p, "import") /\ l \in DOMAIN nodes[p]
  /\ LET n == [nodes[p][l] EXCEPT !.hashes = {j \in @ : j.hash # i.hash} \cup {i}]
     IN  SetNode(p, l, n) /\ SaveFile(p, l, n)
  /\ UNCHANGED <<rows, store>>

\* cmd_migrate_imports: a hash import for each exported definition of the
\* modules, whatever rows there are; of two names of one hash the first met.
Exported(p, l) == UNION {
  {d \in Range(nodes[p][m].defs) : d.name \in nodes[p][m].exports} :
    m \in {k \in nodes[p][l].imports \cap DOMAIN nodes[p] : CanvasOf[k] = CanvasOf[l]}}
Migrate(p, l) ==
  /\ Command(p, "migrate") /\ l \in DOMAIN nodes[p]
  /\ LET found == {d.hash : d \in Exported(p, l)} \ {i.hash : i \in nodes[p][l].hashes}
     IN  \E name \in [found -> Names] :
           /\ \A h \in found : \E d \in Exported(p, l) : d.hash = h /\ d.name = name[h]
           /\ LET n == [nodes[p][l] EXCEPT !.imports = {},
                          !.hashes = @ \cup {[hash |-> h, name |-> name[h]] : h \in found}]
              IN  SetNode(p, l, n) /\ SaveFile(p, l, n)
  /\ UNCHANGED <<rows, store>>

\* cmd_rename_def, on the source: the text is changed where the old name is
\* followed by a space.
DefRenamed(d, old, new) == IF d.name = old /\ d.spaced THEN [d EXCEPT !.name = new] ELSE d
OutRenamed(out, old, new) ==
  IF old \in DOMAIN out THEN With(Without(out, old), new, out[old]) ELSE out
SourceRenamed(n, old, new) ==
  [n EXCEPT !.defs = [i \in DOMAIN @ |-> DefRenamed(@[i], old, new)],
            !.exports = {IF x = old THEN new ELSE x : x \in @},
            !.out = OutRenamed(@, old, new), !.made = FALSE]
\* rename_identifier_in_code: all identifiers of a program, those defined among them.
CodeRewritten(defs, old, new) ==
  [i \in DOMAIN defs |->
     [defs[i] EXCEPT !.name = IF @ = old THEN new ELSE @, !.hash = Rewritten[old][new][@]]]
\* ... and on a node that imports it: its program changes with the import, but is
\* neither registered nor computed.
ImportRenamed(n, h, old, new) ==
  IF [hash |-> h, name |-> old] \notin n.hashes THEN n
  ELSE LET code == CodeRewritten(n.defs, old, new)
       IN  [n EXCEPT !.hashes = (@ \ {[hash |-> h, name |-> old]}) \cup {[hash |-> h, name |-> new]},
                     !.defs = code, !.made = @ /\ code = n.defs]

NamesOn(p, canvas) == {r.name : r \in {s \in Current(rows[p]) : Place(s.label) = canvas}}
Rename(p, r, new) ==
  /\ Command(p, "rename")
  /\ r \in Current(rows[p]) /\ r.label # Network /\ new # r.name
  /\ use.fresh => new \notin NamesOn(p, CanvasOf[r.label])
  /\ LET canvas == CanvasOf[r.label]
         here == {l \in DOMAIN nodes[p] : CanvasOf[l] = canvas}
         renamed == RowsRenamed(rows[p], r.hash, r.name, new, canvas)
         source == [nodes[p] EXCEPT ![r.label] = SourceRenamed(@, r.name, new)]
         before == IF r.label \in here THEN source ELSE nodes[p]
         after == [l \in DOMAIN nodes[p] |->
                     IF l \in here THEN ImportRenamed(before[l], r.hash, r.name, new) ELSE before[l]]
         written == (here \cap {r.label}) \cup {l \in here : after[l] # before[l]}
     IN  /\ nodes' = [nodes EXCEPT ![p] = after]
         /\ files' = [files EXCEPT ![p] =
              [l \in DOMAIN @ \cup written |-> IF l \in written THEN FileOf(after[l]) ELSE @[l]]]
         /\ touched' = [touched EXCEPT ![p] = @ \cup written]
         /\ IF r.label \in here
            THEN /\ rows' = [rows EXCEPT ![p] = NodeRegistered(renamed, r.label, after[r.label].defs)]
                 /\ store' = [store EXCEPT ![p] = BodiesSaved(@, after[r.label].defs)]
            ELSE rows' = [rows EXCEPT ![p] = renamed] /\ UNCHANGED store

-----------------------------------------------------------------------------
(***************************************************************************)
(* Results, the file watcher, restarts                                     *)
(***************************************************************************)

\* The exported values of a program, the last definition of a name last.
Value(defs, x) ==
  defs[CHOOSE i \in DOMAIN defs :
         defs[i].name = x /\ \A j \in DOMAIN defs : defs[j].name = x => j <= i].hash
Values(defs, exports) ==
  [x \in {defs[i].name : i \in DOMAIN defs} \cap exports |-> Value(defs, x)]

\* A result: output values are added to those there are, and the node's
\* definitions of now are registered (register_node_libraries).
Result(p, l) ==
  /\ l \in DOMAIN nodes[p] /\ nodes[p][l].run # None
  /\ LET n == nodes[p][l]
     IN  /\ SetNode(p, l, [n EXCEPT !.out = Over(Values(n.run.defs, n.run.exports), @),
                                 !.made = (n.run = Program(n)), !.run = None])
         /\ SaveDefinitions(p, l, n.defs)
  /\ UNCHANGED <<use, spent, files, watch, net>>

\* ActorResult::Error, as for an import that is not resolved.
Fails(p, l) ==
  /\ l \in DOMAIN nodes[p] /\ nodes[p][l].run # None
  /\ SetNode(p, l, [nodes[p][l] EXCEPT !.run = None])
  /\ UNCHANGED <<use, spent, rows, disk, watch, net>>

\* path_to_event: a file that is gone gives none.
Notice(p, l) ==
  /\ l \in touched[p]
  /\ touched' = [touched EXCEPT ![p] = @ \ {l}]
  /\ events' = IF l \in DOMAIN files[p]
               THEN [events EXCEPT ![p] = Append(@, [label |-> l, text |-> files[p][l]])]
               ELSE events
  /\ UNCHANGED <<use, spent, memory, disk, net>>

\* apply_file_events: the whole text of the file, with the pragmas, becomes
\* the program, unless it is that already.
Reload(p) ==
  /\ events[p] # << >>
  /\ LET e == Head(events[p])
     IN  IF e.label \in DOMAIN nodes[p]
         THEN LET n == nodes[p][e.label]
                  new == [n EXCEPT !.defs = e.text.defs, !.pragmas = e.text.pragmas]
              IN  SetNode(p, e.label, IF new = n THEN n ELSE Running([new EXCEPT !.made = FALSE]))
         ELSE UNCHANGED nodes
  /\ events' = [events EXCEPT ![p] = Tail(@)]
  /\ UNCHANGED <<use, spent, rows, disk, touched, net>>

\* The process ends and starts again: compute_all, request_missing_defs.
Restart(p) ==
  /\ "restart" \in use.ops[p] /\ spent < use.most
  /\ spent' = spent + 1
  /\ LET graph == Started(p, files[p])
     IN  /\ nodes' = [nodes EXCEPT ![p] = graph]
         /\ inbox' = [Publish(p, inbox, Requests(graph, {})) EXCEPT ![p] = {}]
  /\ rows' = [rows EXCEPT ![p] = {}]
  /\ touched' = [touched EXCEPT ![p] = {}]
  /\ events' = [events EXCEPT ![p] = << >>]
  /\ UNCHANGED <<use, disk, lost>>

Init ==
  /\ use \in Uses
  /\ spent = 0
  /\ files = [p \in Peers |-> [l \in DOMAIN use.start[p] |->
                [defs |-> use.start[p][l].defs, pragmas |-> use.start[p][l].hashes]]]
  /\ nodes = [p \in Peers |-> Started(p, files[p])]
  /\ rows = [p \in Peers |-> {}]
  /\ store = [p \in Peers |-> [h \in {} |-> None]]
  /\ touched = [p \in Peers |-> {}]
  /\ events = [p \in Peers |-> << >>]
  /\ inbox = [p \in Peers |-> UNION {Requests(nodes[q], {}) : q \in Peers \ {p}}]
  /\ lost = FALSE

Commands(p) ==
  \/ \E l \in Labels :
       \/ \E n \in use.code[l] : Create(p, l, n) \/ Update(p, l, n)
       \/ Delete(p, l)
       \/ Compute(p, l)
       \/ \E i \in use.imports : AddHashImport(p, l, i)
       \/ Migrate(p, l)
  \/ \E r \in rows[p], new \in Names : Rename(p, r, new)

Own(p) ==
  \/ \E l \in Labels : Result(p, l) \/ Fails(p, l) \/ Notice(p, l)
  \/ Reload(p)

Messages(p) == \E m \in inbox[p] : Serve(p, m) \/ Receive(p, m)

Next == \E p \in Peers :
  \/ Commands(p) \/ Own(p) \/ Messages(p)
  \/ RequestMissing(p)
  \/ Restart(p)
  \/ \E m \in inbox[p] : Lose(p, m)

Spec == Init /\ [][Next]_vars

\* The owner loop goes on polling the network.
FairSpec == Spec /\ \A p \in Peers, h \in Hashes :
  /\ WF_vars(Serve(p, Ask(h)))
  /\ WF_vars(\E m \in inbox[p] : m.hash = h /\ Receive(p, m))

-----------------------------------------------------------------------------
(***************************************************************************)
(* Properties                                                              *)
(***************************************************************************)

Texts == [defs : Seq(Defs), pragmas : SUBSET HashImports]

\* Every part of the state has its type; a name is current once at a label,
\* and a file of defs/ holds the body of its hash or no expression.
TypeOK ==
  /\ spent \in 0 .. use.most /\ lost \in BOOLEAN
  /\ \A p \in Peers :
       /\ DOMAIN nodes[p] \subseteq Labels /\ DOMAIN files[p] \subseteq Labels
       /\ \A l \in DOMAIN files[p] : files[p][l] \in Texts
       /\ \A l \in DOMAIN nodes[p] :
            /\ FileOf(nodes[p][l]) \in Texts
            /\ nodes[p][l].exports \subseteq Names /\ nodes[p][l].imports \subseteq Labels
            /\ DOMAIN nodes[p][l].out \subseteq Names
       /\ rows[p] \subseteq [hash : Hashes, name : Names, label : Labels \cup {Network}, old : BOOLEAN]
       /\ \A r, s \in Current(rows[p]) : r.label = s.label /\ r.name = s.name => r = s
       /\ \A h \in DOMAIN store[p] : store[p][h] = ContentOf(h)
       /\ touched[p] \subseteq Labels /\ events[p] \in Seq([label : Labels, text : Texts])

\* db.rs register_def, graph_runtime.rs resolve_hash_imports: a hash never
\* leads to the value of another body, once the program at its label has been
\* computed, however commands, late results and reloads from files mix.
ImportGetsItsBody == \A p \in Peers : \A r \in Current(rows[p]) :
  r.label \in DOMAIN nodes[p] =>
    LET n == nodes[p][r.label]
    IN  n.made /\ r.name \in n.exports \cap DOMAIN n.out => n.out[r.name] = r.hash

\* graph_runtime.rs handle_def_network_message "Verify hash matches body": a
\* definition taken from the network is on disk with the body of its hash.
RemoteIsGenuine == \A p \in Peers : \A r \in Current(rows[p]) :
  r.label = Network => r.hash \in DOMAIN store[p] /\ store[p][r.hash] = r.hash

\* persistence.rs save_node_definitions: what defs lists def-source can show,
\* and a request for it can be served, own or from the network.
CurrentIsServed == \A p \in Peers : \A canvas \in Canvases \cup {Network} :
  \A r \in ListDefs(p, canvas) : HasSource(p, r.hash)

\* Every definition in use, own or remote, has its body on disk.
DefinitionsHaveBodies == TypeOK /\ RemoteIsGenuine /\ CurrentIsServed

\* file_watcher.rs, persistence.rs: when the watcher has nothing to report, a
\* start from a node's file gives its definitions, and at least its imports whose
\* names the parser takes (persistence.rs:161); of the others it keeps none.
FileIsNode == \A p \in Peers : \A l \in DOMAIN nodes[p] :
  l \notin touched[p] /\ (\A i \in DOMAIN events[p] : events[p][i].label # l) =>
    IF l \in DOMAIN files[p]
    THEN LET back == Loaded(nodes[p][l], files[p][l])
         IN  back.defs = nodes[p][l].defs /\ Readable(nodes[p][l].hashes) \subseteq back.hashes
    ELSE nodes[p][l].defs = << >> /\ nodes[p][l].hashes = {}

\* db.rs "Old entries ... are marked superseded (not deleted)": while a peer
\* runs, def-history loses nothing: what was superseded keeps its name, and a
\* current definition at most changes it.
HistoryKept == [][\A p \in Peers, name \in Names, canvas \in Canvases :
  rows'[p] # {} => \A r \in History(rows[p], name, canvas) :
    \E s \in rows'[p] : s.hash = r.hash /\ s.label = r.label /\ (r.old => s = r)]_vars

\* graph_runtime.rs request_missing_defs: a request that reaches a peer that
\* knows the definition makes it known to the one who asked, unless the peer
\* forgets it before or a message is lost.
Serves(p, h) == h \in DOMAIN store[p] /\ store[p][h] = h /\ RowsOf(rows[p], h) # {}
AskedIsAnswered == \A p, q \in Peers, h \in Hashes : p # q =>
  ((Ask(h) \in inbox[q] /\ Serves(q, h)) ~>
     (RowsOf(rows[p], h) # {} \/ ~Serves(q, h) \/ lost))

\* graph_runtime.rs cmd_rename_def: a rename to a new name leaves every import
\* that had a value with one.
RenameKeepsImports == [][\A p \in Peers, new \in Names : \A r \in rows[p] :
  Rename(p, r, new) => \A h \in Hashes :
    Resolve(p, h) # {} /\ None \notin Resolve(p, h) =>
      Resolve(p, h)' # {} /\ None \notin Resolve(p, h)']_vars
=============================================================================
