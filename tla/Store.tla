------------------------------- MODULE Store -------------------------------
(***************************************************************************)
(* The database and the files beside it: the key-value table that scripts, *)
(* widgets and settings share (src/src/db.rs, bridge.rs, panels.rs), the   *)
(* rows of the canvases, the programs of the nodes, and db.json            *)
(* (src/src/persistence.rs, app.rs).                                       *)
(*                                                                         *)
(* The database is in memory and takes one statement at a time from any    *)
(* thread; nothing holds two statements together.  Rows of a table come in *)
(* the order of their random record ids.                                   *)
(***************************************************************************)
EXTENDS Naturals, Sequences, FiniteSets

CONSTANTS
  Threads,     \* the pool's threads and the owner
  Gui,         \* the owner
  Keys,
  Writers,     \* Writers[k]: who writes the key
  Shapes,      \* nodes of the canvas
  Files,       \* .scm files of the canvas: the label of a node gives its file
  Absent,      \* what is not there
  MaxWritten,  \* bound: values written
  MaxDbImports, MaxCrashes, MaxSaves  \* bounds

ASSUME StoreAssumption ==
  /\ Gui \in Threads /\ IsFiniteSet(Threads)
  /\ Writers \in [Keys -> SUBSET Threads]
  /\ Absent \notin Shapes \cup Files
  /\ {MaxWritten, MaxDbImports, MaxCrashes, MaxSaves} \subseteq Nat

VARIABLES
  up,         \* the program runs
  kv,         \* the rows of each key; a value is a sequence of numbers
  job,        \* the statements a thread has still to run
  importing,  \* rows that import has still to create
  shapes,     \* the nodes in memory: of each that is there, the file its label gives
  shapeRows,  \* the nodes in graph_nodes, likewise
  shapeFiles, \* of each .scm file that is there, the node whose program it holds
  unsaved,    \* what write is about to put into db.json
  dbFile,     \* db.json
  written, dbImports, crashes, saves,  \* counters
  latest,     \* (history) the value last set
  met,        \* (history) nodes, with their files, there since db.json agreed with them
  doomed,     \* (history) files deleted, moved or moved onto since then
  fresh       \* (history) nothing happened since the start

storeVars == <<up, kv, job, importing, shapes, shapeRows, shapeFiles, unsaved, dbFile,
               written, dbImports, crashes, saves, latest, met, doomed, fresh>>

Nothing == <<0>>
NoJob == [key |-> Nothing]
NoRows == [k \in Keys |-> << >>]
NoShapes == [n \in Shapes |-> Absent]
NoDump == [state |-> "none", kv |-> NoRows, shapes |-> NoShapes, sure |-> {}]
Sole(k) == Cardinality(Writers[k]) = 1
Resting(t) == job[t] = NoJob
OwnerFree == up /\ Resting(Gui) /\ importing = NoRows /\ unsaved = NoDump

StoreInit ==
  /\ up = TRUE
  /\ kv = [k \in Keys |-> << >>]
  /\ job = [t \in Threads |-> NoJob]
  /\ importing = NoRows
  /\ shapes = NoShapes /\ shapeRows = NoShapes /\ shapeFiles = [f \in Files |-> Absent]
  /\ unsaved = NoDump /\ dbFile = NoDump
  /\ written = 0 /\ dbImports = 0 /\ crashes = 0 /\ saves = 0
  /\ latest = [k \in Keys |-> Nothing]
  /\ met = {} /\ doomed = {}
  /\ fresh = FALSE

\* kv_get: the first row, if any; an empty list otherwise.
KvGet(k) == IF kv[k] = << >> THEN << >> ELSE kv[k][1]

\* A thread runs scripts, or draws widgets; the owner also saves and dbImports.
MayWrite(t, k) == up /\ t \in Writers[k] /\ Resting(t) /\ (t = Gui => OwnerFree)

\* kv_set of a value from now on, and what the thread means the key to have (history).
Setting(k, value, want) == [key |-> k, value |-> value, want |-> want, step |-> "delete"]

\* store-set!
StoreSet(t, k) ==
  /\ MayWrite(t, k) /\ written < MaxWritten
  /\ written' = written + 1
  /\ job' = [job EXCEPT ![t] = Setting(k, <<written + 1>>, <<written + 1>>)]
  /\ fresh' = FALSE
  /\ UNCHANGED <<up, kv, importing, shapes, shapeRows, shapeFiles, unsaved, dbFile,
                 dbImports, crashes, saves, latest, met, doomed>>

\* Mutant: the list is read when the old row is gone.
AppendLate(k) == << >>
Appended(k) == KvGet(k)

\* store-append!, and the button that appends: the list is read, then set.
StoreAppend(t, k) ==
  /\ MayWrite(t, k) /\ written < MaxWritten
  /\ written' = written + 1
  /\ job' = [job EXCEPT ![t] =
       Setting(k, Append(Appended(k), written + 1),
               Append(IF latest[k] = Nothing THEN << >> ELSE latest[k], written + 1))]
  /\ fresh' = FALSE
  /\ UNCHANGED <<up, kv, importing, shapes, shapeRows, shapeFiles, unsaved, dbFile,
                 dbImports, crashes, saves, latest, met, doomed>>

\* The editable list and the splice button: an item is taken out of what was read.
StoreSplice(k, i) ==
  /\ MayWrite(Gui, k)
  /\ i \in 1 .. Len(KvGet(k))
  /\ LET rest == SubSeq(KvGet(k), 1, i - 1) \o SubSeq(KvGet(k), i + 1, Len(KvGet(k))) IN
     job' = [job EXCEPT ![Gui] = Setting(k, rest, rest)]
  /\ fresh' = FALSE
  /\ UNCHANGED <<up, kv, importing, shapes, shapeRows, shapeFiles, unsaved, dbFile,
                 written, dbImports, crashes, saves, latest, met, doomed>>

\* store-delete!: one statement.
StoreDelete(t, k) ==
  /\ MayWrite(t, k) /\ kv[k] # << >>
  /\ kv' = [kv EXCEPT ![k] = << >>]
  /\ latest' = [latest EXCEPT ![k] = Nothing]
  /\ fresh' = FALSE
  /\ UNCHANGED <<up, job, importing, shapes, shapeRows, shapeFiles, unsaved, dbFile,
                 written, dbImports, crashes, saves, met, doomed>>

Erased(k) == << >>

\* kv_set: DELETE FROM kv WHERE key = ...
EraseRows(t) ==
  /\ up /\ ~Resting(t) /\ job[t].step = "delete"
  /\ kv' = [kv EXCEPT ![job[t].key] = Erased(job[t].key)]
  /\ job' = [job EXCEPT ![t].step = "create"]
  /\ UNCHANGED <<up, importing, shapes, shapeRows, shapeFiles, unsaved, dbFile,
                 written, dbImports, crashes, saves, latest, met, doomed, fresh>>

\* Widgets drawn from a script's blocks: buttons, check boxes, fields, sliders and
\* the editable list.
UseWidget(k) ==
  StoreSet(Gui, k) \/ StoreAppend(Gui, k) \/ StoreDelete(Gui, k) \/ \E i \in 1 .. MaxWritten : StoreSplice(k, i)

\* Favorites, in a table of their own: the same two statements, or the first alone.
ChangeFavorite(k) == StoreSet(Gui, k) \/ StoreDelete(Gui, k)

\* Saved relays, user name, trusted peers: the owner keeps the list and sets it.
ChangeSetting(k) == StoreSet(Gui, k)

\* A row more, at a place its id decides.
WithRow(rows, i, value) == SubSeq(rows, 1, i) \o <<value>> \o SubSeq(rows, i + 1, Len(rows))

\* kv_set: CREATE kv SET key = ..., value = ...
CreateRow(t) ==
  /\ up /\ ~Resting(t) /\ job[t].step = "create"
  /\ \E i \in 0 .. Len(kv[job[t].key]) :
       kv' = [kv EXCEPT ![job[t].key] = WithRow(@, i, job[t].value)]
  /\ latest' = [latest EXCEPT ![job[t].key] = job[t].want]
  /\ job' = [job EXCEPT ![t] = NoJob]
  /\ UNCHANGED <<up, importing, shapes, shapeRows, shapeFiles, unsaved, dbFile,
                 written, dbImports, crashes, saves, met, doomed, fresh>>

-----------------------------------------------------------------------------
(* The owner: nodes, saving, importing.                                    *)

\* save_node_file writes the file that the label gives, whose ever it is.
Written(n, f) == [shapeFiles EXCEPT ![f] = n]

\* AddNode writes the file of the node: nodes of one template have one label, those
\* that a command makes any.
AddShape(n, f) ==
  /\ OwnerFree /\ shapes[n] = Absent
  /\ shapes' = [shapes EXCEPT ![n] = f]
  /\ shapeFiles' = Written(n, f)
  /\ met' = met \cup {<<n, f>>}
  /\ fresh' = FALSE
  /\ UNCHANGED <<up, kv, job, importing, shapeRows, unsaved, dbFile,
                 written, dbImports, crashes, saves, latest, doomed>>

\* Every edit of its program writes it too.
EditShape(n) ==
  /\ OwnerFree /\ shapes[n] # Absent
  /\ shapeFiles' = Written(n, shapes[n])
  /\ fresh' = FALSE
  /\ UNCHANGED <<up, kv, job, importing, shapes, shapeRows, unsaved, dbFile,
                 written, dbImports, crashes, saves, latest, met, doomed>>

\* DeleteNode removes the file at once, the row at the next save.
DeleteShape(n) ==
  /\ OwnerFree /\ shapes[n] # Absent
  /\ shapes' = [shapes EXCEPT ![n] = Absent]
  /\ shapeFiles' = [shapeFiles EXCEPT ![shapes[n]] = Absent]
  /\ doomed' = doomed \cup {shapes[n]}
  /\ fresh' = FALSE
  /\ UNCHANGED <<up, kv, job, importing, shapeRows, unsaved, dbFile,
                 written, dbImports, crashes, saves, latest, met>>

\* A new label in the inspector moves the file, if it is there, onto any other.
RenameShape(n, f) ==
  /\ OwnerFree /\ shapes[n] \notin {Absent, f}
  /\ shapes' = [shapes EXCEPT ![n] = f]
  /\ shapeFiles' = IF shapeFiles[shapes[n]] = Absent THEN shapeFiles
                   ELSE [shapeFiles EXCEPT ![shapes[n]] = Absent, ![f] = shapeFiles[shapes[n]]]
  /\ met' = met \cup {<<n, f>>} /\ doomed' = doomed \cup {shapes[n], f}
  /\ fresh' = FALSE
  /\ UNCHANGED <<up, kv, job, importing, shapeRows, unsaved, dbFile,
                 written, dbImports, crashes, saves, latest>>

\* The delete key, and undo, take a node away and leave the file.
DropShape(n) ==
  /\ OwnerFree /\ shapes[n] # Absent
  /\ shapes' = [shapes EXCEPT ![n] = Absent]
  /\ fresh' = FALSE
  /\ UNCHANGED <<up, kv, job, importing, shapeRows, shapeFiles, unsaved, dbFile,
                 written, dbImports, crashes, saves, latest, met, doomed>>

\* A favorite, and a node that undo brings back, come without their file.
BringShape(n, f) ==
  /\ OwnerFree /\ shapes[n] = Absent
  /\ shapes' = [shapes EXCEPT ![n] = f]
  /\ met' = met \cup {<<n, f>>}
  /\ fresh' = FALSE
  /\ UNCHANGED <<up, kv, job, importing, shapeRows, shapeFiles, unsaved, dbFile,
                 written, dbImports, crashes, saves, latest, doomed>>

\* Mutant: save_canvas_to_db trusts that the files are there.
FilesThere(s) == {shapeFiles}
\* It writes the files of all nodes, in any order: of those that share one, the last
\* one's program stays.
FilesOf(s) ==
  {to \in [Files -> Shapes \cup {Absent}] : \A f \in Files :
     IF \A n \in Shapes : s[n] # f THEN to[f] = shapeFiles[f]
     ELSE to[f] \in Shapes /\ s[to[f]] = f}

\* Mutant: the table is left out.
ExportedCanvases(rows) == [NoDump EXCEPT !.state = "whole", !.shapes = rows, !.sure =
  {<<k, latest[k]>> : k \in {k \in Keys : Sole(k) /\ latest[k] # Nothing /\ dbImports = 0 /\ \A t \in Threads : Resting(t)}}]

\* export: each table is one query; the owner's own rows do not change meanwhile.
\* Kept with it (history): what keys of one writer had that were not being set.
Exported(rows) ==
  [state |-> "whole", kv |-> kv, shapes |-> rows,
   sure |-> {<<k, latest[k]>> : k \in {k \in Keys : Sole(k) /\ latest[k] # Nothing /\ dbImports = 0
                                       /\ \A t \in Threads : Resting(t) \/ job[t].key # k}}]

\* save_graph: save_canvas_to_db of the canvas, and export.
SaveRows ==
  /\ OwnerFree /\ saves < MaxSaves
  /\ saves' = saves + 1
  /\ shapeRows' = shapes
  /\ shapeFiles' \in FilesOf(shapes)
  /\ unsaved' = Exported(shapes)
  /\ fresh' = FALSE
  /\ UNCHANGED <<up, kv, job, importing, shapes, dbFile, written, dbImports, crashes, latest, met, doomed>>

\* DeleteCanvas, of another canvas, exports the rows of this one as they were saved.
SaveBeside ==
  /\ OwnerFree /\ saves < MaxSaves
  /\ saves' = saves + 1
  /\ unsaved' = Exported(shapeRows)
  /\ fresh' = FALSE
  /\ UNCHANGED <<up, kv, job, importing, shapes, shapeRows, shapeFiles, dbFile,
                 written, dbImports, crashes, latest, met, doomed>>

\* db.json and the files give the nodes back as they are.
Agrees(rows) ==
  /\ rows = shapes
  /\ \A n \in Shapes : shapes[n] # Absent =>
       shapeFiles[shapes[n]] # Absent /\ shapes[shapeFiles[shapes[n]]] = shapes[n]

\* save_db: std::fs::write empties the file, then fills it.
WriteDbFile ==
  /\ up /\ unsaved # NoDump
  /\ IF dbFile.state # "torn"
     THEN /\ dbFile' = [NoDump EXCEPT !.state = "torn"]
          /\ UNCHANGED <<unsaved, met, doomed>>
     ELSE /\ dbFile' = unsaved
          /\ unsaved' = NoDump
          /\ IF Agrees(unsaved.shapes)
             THEN /\ met' = {p \in Shapes \X Files : shapes[p[1]] = p[2]}
                  /\ doomed' = {}
             ELSE UNCHANGED <<met, doomed>>
  /\ UNCHANGED <<up, kv, job, importing, shapes, shapeRows, shapeFiles,
                 written, dbImports, crashes, saves, latest, fresh>>

\* ImportScm of a canvas exported with its database: the table is emptied ...  (The
\* nodes it brings are in Canvases.)
ImportDb ==
  /\ OwnerFree /\ dbImports < MaxDbImports /\ dbFile.state = "whole"
  /\ dbImports' = dbImports + 1
  /\ kv' = NoRows
  /\ importing' = dbFile.kv
  /\ fresh' = FALSE
  /\ UNCHANGED <<up, job, shapes, shapeRows, shapeFiles, unsaved, dbFile,
                 written, crashes, saves, latest, met, doomed>>

\* ... and its rows are created one by one.
ImportRow ==
  /\ up
  /\ \E k \in Keys :
       /\ importing[k] # << >>
       /\ \E i \in 0 .. Len(kv[k]) : kv' = [kv EXCEPT ![k] = WithRow(@, i, Head(importing[k]))]
       /\ importing' = [importing EXCEPT ![k] = Tail(@)]
  /\ UNCHANGED <<up, job, shapes, shapeRows, shapeFiles, unsaved, dbFile,
                 written, dbImports, crashes, saves, latest, met, doomed, fresh>>

\* The process is killed, at any time; or the user leaves it after it saved.
Crash ==
  /\ up /\ crashes < MaxCrashes
  /\ up' = FALSE /\ crashes' = crashes + 1
  /\ job' = [t \in Threads |-> NoJob]
  /\ importing' = NoRows /\ unsaved' = NoDump
  /\ UNCHANGED <<kv, shapes, shapeRows, shapeFiles, dbFile, written, dbImports, saves,
                 latest, met, doomed, fresh>>

\* load_db and load_canvas_from_db: what cannot be parsed is left, and the
\* database is empty.
Loaded == IF dbFile.state = "whole" THEN dbFile ELSE NoDump
Restart ==
  /\ ~up
  /\ up' = TRUE
  /\ kv' = Loaded.kv
  /\ shapes' = Loaded.shapes /\ shapeRows' = Loaded.shapes
  /\ latest' = [k \in Keys |-> IF Loaded.kv[k] = << >> THEN Nothing ELSE Loaded.kv[k][1]]
  /\ fresh' = TRUE
  /\ UNCHANGED <<job, importing, shapeFiles, unsaved, dbFile, written, dbImports, crashes,
                 saves, met, doomed>>

StoreNext ==
  \/ \E t \in Threads \ {Gui}, k \in Keys : StoreSet(t, k) \/ StoreAppend(t, k) \/ StoreDelete(t, k)
  \/ \E k \in Keys : UseWidget(k) \/ ChangeFavorite(k) \/ ChangeSetting(k)
  \/ \E t \in Threads : EraseRows(t) \/ CreateRow(t)
  \/ \E n \in Shapes : EditShape(n) \/ DeleteShape(n) \/ DropShape(n)
  \/ \E n \in Shapes, f \in Files : AddShape(n, f) \/ RenameShape(n, f) \/ BringShape(n, f)
  \/ SaveRows \/ SaveBeside \/ WriteDbFile \/ ImportDb \/ ImportRow \/ Crash \/ Restart

-----------------------------------------------------------------------------
(***************************************************************************)
(* Properties                                                              *)
(***************************************************************************)

\* Type invariant; a key has never more rows than it has writers, for each time
\* the table was filled.
StoreTypeOK ==
  /\ \A k \in Keys : Len(kv[k]) <= Cardinality(Writers[k]) * (1 + dbImports)
  /\ shapes \in [Shapes -> Files \cup {Absent}] /\ shapeRows \in [Shapes -> Files \cup {Absent}]
  /\ shapeFiles \in [Files -> Shapes \cup {Absent}]
  /\ met \subseteq Shapes \X Files /\ doomed \subseteq Files
  /\ unsaved # NoDump => dbFile.state # "whole" \/ saves > 0
  /\ dbFile.state = "torn" => saves > 0

\* A key that only one thread writes has the value set last, in one row; while it
\* is being set it may have none (db.rs:148, "DELETE + CREATE: avoids UPSERT
\* record-id issues").  So a list that one node appends to keeps every item.
SoleWriterReadsItsWrites ==
  /\ StoreTypeOK
  /\ \A k \in Keys :
       (up /\ Sole(k) /\ dbImports = 0) =>
         \/ kv[k] = IF latest[k] = Nothing THEN << >> ELSE <<latest[k]>>
         \/ \E t \in Writers[k] : ~Resting(t) /\ job[t].key = k /\ kv[k] = << >>

\* What one thread wrote and nobody was writing when db.json was made is there
\* after a restart, unless the process stopped while it wrote the file.
KeptBySaving ==
  (fresh /\ up) => \A s \in dbFile.sure : KvGet(s[1]) = s[2]

\* A node that comes back after a crash or a restart finds the program it wrote, whatever
\* was added, edited, undone and saved: unless, since db.json last agreed with the nodes,
\* the file of its label was deleted (app.rs:601), moved or moved onto (panels.rs:383), or
\* another node had that label.
NodesFindTheirProgram ==
  fresh /\ up =>
    \A n \in Shapes : shapes[n] # Absent =>
      \/ shapeFiles[shapes[n]] = n
      \/ shapes[n] \in doomed
      \/ \E m \in Shapes \ {n} : <<m, shapes[n]>> \in met
=============================================================================
