# A verification project for wasm-canvas (doomrage)

wasm-canvas is a graph of small programs ("nodes": Scheme scripts, WASM
functions, constants) that feed each other by importing each other's modules,
send each other messages, and are shared between peers over libp2p. This
directory holds TLA+ models of it, the TLC configurations that check them
and TLAPS proofs of their
properties for every value of the constants. File names of the code are given from the
repository's root; `src/` is the crate of the GUI and of the library.

## 1. The system

| Part | Code | State | Operations |
|---|---|---|---|
| Evaluation runtime | `src/actor.rs` | per node: in-flight flag, dirty slot, debounce entry, cached Scheme environment, "has a message handler"; the worker pool and the result channel | compute, compute_debounced, poll (with flush_debounced), cancel_all, remove, has_pending; on worker threads execute_on_thread |
| Compute loop | `src/graph_runtime.rs`, `src/app.rs`, `peer/src/main.rs`, `src/file_watcher.rs` | pending_nodes; every node's code, widget values, outputs, error; tick timers | apply a result, register its library, propagate downstream, wake message targets; widget, file, nREPL edits; Compute, Recompute, Cancel, Delete, undo; compute_all at start |
| Graph and canvases | `src/types.rs`, `src/app.rs` | nodes of a canvas, imports, next node id; the canvases open, the one shown, the undo history | add and remove nodes, import edges, topological sort, ancestors, direct downstream; make, switch, delete and import canvases, undo, redo |
| Mailboxes | `src/bridge.rs`, prelude in `src/scheme_engine.rs` | a queue of messages per node, shared by all threads | send, receive, on-message, drain |
| Peer delivery | `src/graph_runtime.rs`, `src/app.rs` | phantom nodes, net_values, connected peers, libraries | auto_publish_node, deliver_values, ensure_imports, PeerLost |
| Gossip transport | `net/src/transport.rs` | own sequence number, latest sequence number per sender and channel, relay and rendezvous state | publish, receive, peer discovered or lost, request and response |
| OCapN sessions | `net/src/ocapn/`, `src/bridge.rs` | exports by position and by key, slot owners, call results | export, receive, call, send, answer |
| Definition exchange | `src/graph_runtime.rs`, `src/db.rs` | name database, definition files, node files | register, request, serve, accept, rename, migrate, import by hash |
| Database | `src/db.rs` | key-value relation, rows of canvases and definitions | kv_get, kv_set, kv_append, kv_delete, export, import, queries |
| Persistence and undo | `src/persistence.rs` | node files, definition files, db.json, undo history | save, load, delete, migrate, .scm export and import |
| nREPL | `src/nrepl_eval.rs`, `src/nrepl_commands.rs`, `nrepl/` | sessions, environments, command channel, connections | one thread per client; commands run by the owner loop, answered within 5 s or not |
| Code agent | `agent/` | the conversation, one nREPL connection | ask the LLM, run the tools it asks for, send the results |
| Wire formats | `nrepl/src/bencode.rs`, `src/sexp.rs`, `net/src/ocapn/syrup.rs` | none | encode, decode, canonical form, difference |
| GUI panels, rendering, theme | `src/panels.rs`, `src/canvas.rs`, `src/render_ui.rs` | view state | return the user's actions; widgets that write to the database |
| Scheme engine, executor, registry, relay | `src/scheme_engine.rs`, `src/executor.rs`, `src/registry.rs`, `relay/` | libraries; otherwise little or none | run one script, one WASM function; forward connections |

How they interact. One thread, the *owner* (the GUI's frame loop or the
peer's 50 ms loop), owns the graphs and the runtime. It asks the runtime for
evaluations; four pool threads run them and send results down a channel; the owner
polls the channel, applies each result, registers the node's outputs as a Scheme
library, publishes them, and asks for the evaluation of the nodes downstream. The
pool threads share with the owner, under locks or none: the library registry, the
mailboxes, the OCapN tables, the database, the environments handed back and forth.
The network thread talks to the owner over two channels and answers OCapN calls
itself. nREPL threads send the owner commands and wait for replies; some of their
operations read the owner's graphs directly. A file watcher sends the owner what
changed on disk, which the owner's own saves also do.

What is hard about it:

* evaluations overlap with edits, timers, polls and cancellation, and a
  request made meanwhile has to wait somewhere (`dirty`, the debounce queue) or
  is deliberately not made (`pending_nodes`);
* a script reads the libraries of its imports while the owner replaces them;
* a Scheme environment is mutable and moves between cache, pool and channel;
* messages are put into a mailbox at once, but the request that makes the
  target read them is made later;
* deletion and undo change the graph under evaluations in flight, and node numbers
  are given again;
* gossip messages come over several ways and are lost, peers restart;
* a database write is two statements, a save is several files, and a
  process may stop in between;
* a program exists as text in the node, in its file, as rows of the name database
  and as bodies on disk, each changed at another moment;
* a client of the nREPL may give up while its command is still to be run.

What makes each part correct is listed with its module below, and in
`PROJECT.json` under "hazards", at the line where it can go wrong.

## 2. Modules

| Module | Models | Checked by | Proved in |
|---|---|---|---|
| `ActorRuntime`, `NodeExecutor` | the evaluation runtime, and what it promises for one node | `MCActorRuntime` | `ActorRuntimeProofs` |
| `ComputeLoop` | what is asked to be evaluated, on top of `NodeExecutor`'s view of the runtime | `MCComputeLoop` | `ComputeLoopProofs` |
| `Canvases` | canvases, node numbers, undo, start and stop | `MCCanvases`, `MCParts` | `StorageProofs` |
| `ImportGraph` | import edges, sort and plans | `MCParts` | |
| `Delivery` | libraries, phantoms, values from and to peers | `MCPeers` | `PeersProofs` |
| `Gossip` | the transport that carries them | `MCPeers` | `PeersProofs` |
| `Ocapn` | objects and calls between processes, mailboxes | `MCPeers` | `OcapnProofs`, `OcapnAnswersProofs` |
| `Definitions` | content-addressed definitions, node files, their exchange | `MCDefinitions` | `DefinitionsProofs` |
| `Store` | database and files, crashes | `MCParts` | `StorageProofs` |
| `Nrepl` | clients, server threads, command channel, owner | `MCNrepl` | `ServicesProofs` |
| `Agent` | the code agent over one nREPL connection | `MCParts` | `ServicesProofs` |
| `Bencode`, `SExpressions`, `ScmText` | messages, programs and canvases as text | `MCParts` | |

`MCPeers` and `MCParts` put several modules into one run: in each behaviour one
*part* moves and the others rest in an initial state, so the run explores the sum of
their state spaces and not the product. A property of a part is checked in all
states of the run. Invariants named in a cfg begin with the type invariant of their
module where they are conjunctions of named parts (`CanvasesAreSound ==
TypeOK /\ ShownIsOpen /\ ...`).

Operators commented with "Mutant" are not part of a model: they are plausible
mistakes in the definition behind them, and each property is violated when one of
them takes that definition's place.

### ActorRuntime (`src/actor.rs`)

State: `inFlight` and `dirty` are `node_states`, `debounce` is `debounce_queue`
with `expired` for the entries whose 50 ms are over, `envCache` is `env_cache`,
`handlers` is `handler_nodes`, `jobs` the closures in the pool, `results` the mpsc
channel, `mail` the length of each mailbox. `asked` and `emitted` number the
requests and the results returned to the owner; requests are identified by
their number, which stands for the inputs, imports and database handle
the code copies without looking at them.

Actions: `Compute` and `ComputeDebounced` (`enqueue`), `DebounceExpires`
(the clock), `PollFlush` and `PollResult` (`poll` with an empty and a non-empty
channel, both with `flush_debounced`), `Evaluate` (a worker:
`execute_on_thread` and the send), `CancelAll`, `Remove`, `SendMessage` (anyone who
fills a mailbox).

Abstractions. A script's text is a member of `Codes`, compared where the code
compares hashes. An evaluation succeeds or fails, registers a handler or not
and takes messages out of its mailbox as it likes. An evaluation and its send
are one step; since a job may take that step at any time and jobs of different
nodes take it in any order, this loses no interleaving that the owner can see.
The size of the pool is left out for the same reason. WASM, Const and Output
nodes behave like scripts that never register a handler. Which nodes have
imports is fixed in a run (`Importers`).

`NodeExecutor` is what the runtime promises for each node: at most one request is
evaluated, at most one waits and it is the latest, results come in order.
`NodesAreExecutors` is the refinement: for each node, a mapping from the
runtime's slots, jobs and results to the abstract "waiting" and "current".

### ComputeLoop (`src/graph_runtime.rs`, `src/app.rs`, `peer/src/main.rs`)

State: `use` is the canvas and what may happen on it; `pending` is `pending_nodes`;
`started` says that the program runs; `cur` and `waiting` are the runtime, in
the form NodeExecutor gives it; `ver` and `broken` are a node's program; `out`
records what a node's outputs were computed from; `rev` is their revision, which is
also what the node's library holds; `mail` says whose mailbox is not empty.

Actions: `EditWidget` (handle_update_widget, debounced, never skipped),
`EditFile` (apply_file_events, at once, never skipped), `UpdateNode` and
`ComputeIfReady` (nREPL; ticks use the same call), `ComputeRoots`
(PanelAction::ComputeNode), `RecomputeSelected`, `SendMessage`,
`CancelCompute`, `ComputeAll` (start of the peer), `Flush` (timer), `ReadLibrary` (a
script imports one library), `Finish`, `PollError`, `PollComputed`. The last one is
the whole handler of a result: apply, register, wake message targets,
propagate downstream.

Abstractions. One canvas, no phantom nodes, a fixed import relation without
self-imports. Scripts are deterministic, so that outputs computed from the same
program and the same revisions are the same revision. `Snapshot` nodes
(WASM, Output) take their inputs from the request, the others read libraries
when they run. A result of `cancel_all`'s making is kept: a node whose finished
evaluation is thrown away stays in flight ("lost"), as ActorRuntime shows.

### Canvases (`src/app.rs`, `src/types.rs`, `src/persistence.rs`, `src/graph_runtime.rs`)

State: `app` is the program that runs on the database, the GUI or the headless
peer; `graphs` is `all_graphs` (nodes by number, and `next_node_id`), `current` and
`list` the GUI's `current_canvas` and `canvas_list`, `undo` the undo history with
the number of states in use, `evals` the evaluations that still have to come
back, `db` the canvases in the relation and `disk` those in the file. A node is
followed through all this by its *birth*, which the program does not keep: a
number may be given to several nodes, a birth is not.

Actions: `StartGui` (with `remap_conflicting_ids`, over any order in which the
canvases are listed), `StartPeer`, `SaveGraph`, `Stop` (with or without
`on_exit`'s save); `AddNode`, `DeleteNode`, `DeleteByKey`, `NewCanvas`,
`SwitchCanvas`, `DeleteCanvas`, `ImportScm`, `Undo`, `Redo`, `PeerLost`; the peer's
`CreateCanvas`, `MakeNode`, `DropNode`; `MakeNode` also for deliveries;
`ComputeNode` and `ApplyResult`, which find a node by its number. `ImportScm` takes
the database beside the file too, if there is one: `Db::import` replaces the rows of
*all* canvases, while `all_graphs` and `canvas_list` stay. The rows may then name canvases
that are not open; the list has them after the next canvas is made or deleted, and
showing one of them ends the program at its next frame (`expect`), so that no action but
the end follows.

Abstractions. A node has a number, a mark as phantom and the result it
shows. A result may come at any time after its request. Node files, favourites,
the demo canvas and the formats are left out; the database file is written at
once. Nodes whose numbers clash get new ones in the order of the old, where the code
goes through a canvas in hash order.

### ImportGraph (`src/types.rs`)

State: `label` and `imports` of each node; `found` is what
`find_node_by_import_label` gives (several nodes may have one label, the hash map
decides once); `inDegree`, `ready` (the queue) and `order` of `topological_sort`;
`needed` and `stack` of `ancestors_sorted` or `descendants_sorted`.

Actions: `Walk` (one node taken off the walk's stack) and `TakeReady` (one node taken
off the sort's queue, from its end as in the code). The graph rests while it is
sorted, as it does in the code. `Plans` is what the callers compute: the sorted
nodes, or in any order when the canvas has a cycle anywhere.

### Delivery (`src/graph_runtime.rs`, `src/app.rs`)

State: `local` says which modules each canvas has, `out` their `output_values` and `widget`
their `widget_values`, `phantom` the phantom nodes with `remote_peer` and their values,
`lib` what each Scheme library `(canvas module)` was registered with, `net` is
`net_values`, `pending` is `pending_nodes`, `behind` the nodes with a request that waits
behind the one they are pending for, `connected` is `connected_peers`.

Values go by name (`Names`), and a module exports some names and has widgets of some,
the same ones or others. The code makes three different sets of them, and so does the
model: the outputs alone (`register_node_libraries`, after a result and after a setting),
the outputs under what the widgets are set to *now* (`Published`: what `auto_publish_node`
publishes and loops back, and what `ensure_imports` takes), and the exports alone, 0.0
where there is no output (`Stub`: `register_stub_libraries`, when a canvas is shown).

Actions: `ComputeNode` (compute_if_ready and the user's Recompute, with ensure_imports),
`ApplyResult` (the whole handler: register, publish, loop back to the other canvases, ask
downstream), `ApplyError`, `UpdateWidget` (before, while and after the node is
evaluated), `CreateNode`, `DeleteNode`, `SwitchCanvas`, `PeerDiscovered`,
`ValuesReceived`, `PeerLost`.

Abstractions. A module is its label. A value is the number of the result, setting or
message that brought it and where it comes from. Which canvas is first in hash order is
left open. Undo is in Canvases. The source text and the name of the peer that travel
with the values are left out.

### Gossip (`net/src/transport.rs`)

State: `seq` is the publisher's counter, `latest` is `latest_seq`, `shown` what was
handed to the owner; `queue` and `seen` are the library's links and its memory of
messages. `newest` and `owed` only serve the property: the last message of a
channel and who must come to show it.

Actions: `Publish`, `Receive` (the library delivers a message once and forwards it,
then run_swarm filters it), `Restart`.

Abstractions. The library is external: it delivers each message once per process,
on the link where it comes first, over links that are first-in first-out.
Restarted processes have a new identity. Peer discovery, requests and the relay
are left out.

### Ocapn (`src/bridge.rs`, `net/src/ocapn/session.rs`, `net/src/transport.rs`, `src/app.rs`)

State: `slots` is `Session.exports`, each slot with all the values it has had,
`byKey` is `export_by_key`, `owners` is `ocapn_slot_owners`, `mail` the mailboxes,
`pendingNodes`, `asked`, `running` (with the `ActorContext`: export counter and
queued messages) and `finished` the evaluation of each node, `wire` the requests and
responses under way, `events` the owner's `NetEvent`s, `results` is
`ocapn_call_results`, `view` the canvas each process shows. `missed` serves the property:
the nodes that were not computed, or not with success, for something that came.

Actions: a script's `Export`, `ExportNode`, `ReceiveSlot`, `TakeMail`, `Request`
(`ocapn-call`, `ocapn-send`), `ReadResult`, and `Evaluate` and `Finish` around them; the
owner's `Apply`, `TakeDelivery`, `NoticeCall`, `TakeResult`; the transport thread's
`ServeCall` and `HandOver`; `EditScript` and `ShowCanvas` of the user; `RestartPeer`.
`Recompute` is `recompute_by_marker`: of the nodes whose scripts mention what came
(`Concerned`) it finds those on the *shown* canvas (`Marked`). The others are not asked,
also not when their canvas is shown later. The owner of a slot is asked wherever it is.

Abstractions. What a script does is a set of kinds (`Does`): one that reads its mail does so
until there is none, any other never takes a message. Objects are numbers, answered by "get" and "set". A locator is a
position in a table of one life of a process, which stands for a random swiss number:
after a restart it finds nothing. The number of a call is one that no call had before
(`Unused`), which stands for 64 random bits; a float keeps `Precision` bits of it. A
display that shows no result has the number -1, which is no call's.
The libraries imported, values published and the rest of an applied result are in the
other modules. A request or a response may be delayed for ever, which is
how a loss looks to the caller.

### Definitions (`src/db.rs`, `src/persistence.rs`, `src/graph_runtime.rs`, `src/file_watcher.rs`)

State, of each headless peer: `nodes`, the graphs; `rows`, the `def_names` table,
superseded rows included; `store`, the files of `defs/`; `files`, the node files with
their hash-import pragmas; `touched` and `events`, what the watcher has still to read
and the owner to apply; `inbox`, the messages on the two definition channels.

Actions: the commands `Create`, `Update`, `Delete`, `Compute`, `AddHashImport`, `Migrate`,
`Rename`; the owner's `Result` (which registers the node's definitions as they are *now*)
and `Fails`; `Notice` and `Reload` of the watcher; `RequestMissing`, `Serve`, `Receive`,
`Lose`; `Restart`.

Abstractions. A body stands for its own hash and its own value; a body without any
expression (`Bare`) is hashed as it is, but stored as nothing, as in the code. A
program is a sequence of definitions; one bit says whether a space follows the name,
which `rename` depends on. A file is read back as the parser reads it: an import whose local
name has characters that the parser does not take (`Unreadable`, such as `a->b`, which the
commands accept) is lost. A rename rewrites the identifiers in the programs of the nodes
that import the definition, those they define themselves among them; the hash a body
then has is a constant of the model (`Rewritten`). A program whose own text
begins with a line like a pragma is not modelled. The peer never saves its database, so a restart loses
`rows`. Scripts run the program they were given; their order among each other is in
ComputeLoop.

### Store (`src/db.rs`, `src/bridge.rs`, `src/panels.rs`, `src/persistence.rs`, `src/app.rs`)

State: `kv`, the rows of each key, in the order of their random ids; `job`, the
statements a thread has still to run; `importing`; nodes in memory (`shapes`), in the
`graph_nodes` table and as files; `unsaved` and `dbFile`, db.json before and after it
is written; `latest`, `deleted`, `doomed` and `fresh` serve the properties.

Actions: `StoreSet`, `StoreAppend`, `StoreDelete`, `StoreSplice`, `UseWidget`,
`ChangeFavorite`, `ChangeSetting`; `EraseRows` and `CreateRow`, the two statements of
`kv_set`, between which anybody else may run; of a node `AddShape`, `EditShape`,
`DeleteShape`, `RenameShape`, `DropShape` (the delete key and undo, which leave the file),
`BringShape` (favourites and redo, which write none); `SaveRows`, `SaveBeside` (DeleteCanvas
exports the rows as last saved), `WriteDbFile` (which empties the file, then fills it),
`ImportDb`, `ImportRow`; `Crash` at any point and `Restart`.

A program is in a file that the canvas and the *label* of its node give (`Files`), and
nodes of one label share it: each writes it over, deleting one removes it for all, renaming
one moves it away, onto whatever the new label has. `save_canvas_to_db` writes the files
of all nodes in hash order, so that of those with one label any one's program stays.

Abstractions. A value is a list of numbers. A file holds the program of a node, whichever
version: how a file is read is in Definitions. The nodes of an imported file are in
Canvases. The database takes one statement at
a time, which is how the embedded engine is used.

### Nrepl (`nrepl/`, `src/nrepl_eval.rs`, `src/nrepl_commands.rs`, `src/graph_runtime.rs`)

State: of the clients `sent`, `waiting`, `got`, `gone`; of the server threads `read` and
`serving`; `answers` on each connection; `channel`, `owner` (the command being run),
`reply`; `graphs` and `pending`; sessions `open`, `given`, and `envs`.

Actions: `Send`, `TakeAnswer`, `GiveUp`, `Leave` of a client; of a server thread
`ReadRequest`, the session operations `Clone`, `Close`, `Eval`, `SwitchNs`, `LoadFile`, the
reads of the graphs in two steps (`StartReading`, then `NsList` or `LookUp`, "torn" if the
owner moved meanwhile), `SendCommand`, `TakeReply`, `CommandTimeout`; of the owner
`PollCommand` and one action for each command.

Abstractions. What a request asks for is chosen when it is read. A torn read answers
anything: it is undefined behaviour in the code. Node code is the number of the
request that brought it.

### Agent (`agent/src/`)

State: `talk`, the conversation; `todo`, `awaited`, `responses`, of the batch of calls
being run; `requested`, `served`, `inbox`, the nREPL connection; `late`, has a read timed
out.

Actions: `Start` (settings, port file, connection), `LlmAnswers`, `LlmFails`,
`SendRequest`, `CannotSend`, `ReadMessage`, `ReadTimesOut`; `ServerAnswers`. The LLM
answers anything; the server answers in turn, which Nrepl's `AnswersInTurn` says.

### Bencode, SExpressions, ScmText (`nrepl/src/bencode.rs`, `src/sexp.rs`, `src/types.rs`, `src/persistence.rs`)

Pure algorithms, as operators over sequences of symbols, with the little
state that enumerates their inputs: bytes that arrive one after the other; a user who
types one symbol at a time, or an editor that changes a list; canvases that are
exported and imported again. Bencode has the encoder and the incremental decoder;
SExpressions the tokenizer, the parser, the canonical form that is hashed, the
scanner that finds definitions, and the difference of two expressions; ScmText the
writer and the reader of `.scm` files, with the blocks of inputs, widgets, exports and imports, and programs. They
use RECURSIVE
operators, so nothing in them is proved.

## 3. Runs

| Run | Instance | Question and answer |
|---|---|---|
| `actor` | 2 nodes with 2 and 3 requests, 1 message each, cancel, one node deleted and restored | one evaluation of a node at a time, results in order, each node a NodeExecutor (for the node that is not deleted); slots agree, an environment has one holder and fits its text (for both): holds |
| `actor_live` | 2 nodes with 2 and 3 requests, one with imports, fair | `has_pending` is exact; every request is answered: holds |
| `actor_cancel_pending` | 1 node, 2 requests, cancel | `has_pending` exact? No: Cancel drains a result and leaves the node in flight for ever |
| `loop` | a chain of 3 nodes and one more that gets messages, edited at rest; or 2 nodes, 3 versions, all operations from the start of the peer on | at rest every node with one import shows it as it is now and all mail is read; what a node shows never goes back: holds |
| `loop_live` | the chain edited at rest, or a triangle of 3 nodes edited at any time; fair | pending nodes are heard of, edits are computed, the loop comes to rest: holds |
| `loop_diamond` | 4 nodes, one edit | current at rest? No: the second of two imports is not propagated |
| `canvas_ids` | 2 canvases, 2 nodes | numbers unique across canvases? No: not for nodes added after the start |
| `nrepl` | an agent and an editor with 1 to 3 requests, in four scenarios; both may give up; fair server | every request is answered once and in turn, a command runs once and in the client's order, success is what the owner did: holds |
| `definitions` | 2 peers, 3 nodes on 2 canvases, in five scenarios of 1 to 5 commands, with restarts, one with loss, one import under a name no file gives back; fair network | a hash leads to its own body, bodies in use are on disk, files are the nodes, history is kept, questions are answered: holds |
| `def_rename` | one rename | imports of the renamed definition keep their value? No: not if its name ends the line |
| `peers` | *delivery*: 3 canvases, 2 modules with 2 names, one of them a widget's, 1 peer, 2 results, settings or messages. *gossip*: 3 processes on a cycle, one behind it that restarts, 3 messages of one publisher on 2 channels. *exports, calls, restart*: 2 machines, 3 nodes on 2 canvases, up to 3 values and 2 requests, scripts that fail | libraries hold own results or settings and phantoms agree with them; once the links are empty all show the newest values; answers of calls are fresh, locators stable, and all that came in has been read at rest by the nodes that were asked: holds |
| `parts` | *canvases*: 2 canvases, GUI and peer in turn with 2 nodes and everything but late results, or with 3 nodes that are made, replaced and kept over starts; the GUI alone with 3 nodes and 2 undo states; or 1 canvas, 3 nodes, results that come late, deliveries, restarts. *store*: 2 keys, 2 threads, 2 values, 1 import, 1 crash, 2 saves, values or 2 nodes with 2 labels. *agent*: 2 answers of 2 calls. *text*: texts of up to 4 symbols, and 5 more behind the beginning of a definition; lists of 4 items. *wire*: 2 messages, values nested twice. *scm*: programs of 4 symbols, 2 exports. *graph*: 3 nodes, 2 imports each | one property or two for each part, listed below: holds |

The properties of `parts`, and what each would catch:

* `CanvasesAreSound`: the shown canvas is open (where no imported file has a database
  beside it), the next number is free in memory,
  undo states and file, and what a peer delivered is not saved as own (without undo).
* `StartGivesEachItsOwn`: the start separates clashing numbers and loses no node.
* `ResultsReachTheirNode`: a late result is not shown by a node that came later.
* `SoleWriterReadsItsWrites`: `kv_set`'s two statements, against imports and restarts.
* `KeptBySaving`, `NodesFindTheirProgram`: what is there after a crash, in
  the database and beside it; the file of a label that two nodes had, or that was
  deleted or renamed since the last save, is left out, since the code loses it.
* `ConversationIsSound`: every call of the LLM is answered once, by its own answer
  unless a read timed out, and afterwards never by an earlier one than before.
* `ReadersAgree`: the parser that hashes programs and the scanner that looks for
  definitions see the same forms; layout changes no hash.
* `DifferenceIsFaithful`: a difference shows both versions whole.
* `MessagesArriveWhole`: the decoder never returns early, late or shifted.
* `ImportGivesBackNodes`: what is exported is imported again.
* `OrdersAreRight`: the sort and the plans, against reachability.

Bounds. Requests and versions are bounded because nothing else bounds them. Three
requests of a node are what it takes to have one evaluated, one waiting and
one that replaces it; two are enough for a deleted node to be evaluated
twice. Two nodes show the interleaving of different
nodes in the channel; nothing in the runtime relates three. In ComputeLoop
staleness needs a node with two imports or a chain of two, and both are present;
one mailbox entry is enough, since handlers drain the whole mailbox. In Canvases a
number is given twice as soon as two canvases have a node each; the third node
is the one that comes after a restart, and two undo states are the least where one
is dropped. In Delivery three canvases are needed for a module that two of them
have and the third takes from either; two values for an old and a new one, or for a
result and the setting that overtakes it. One node there has requests that wait and
settings, the canvas of the other one is not shown. In Gossip
a message overtakes another one only around a cycle, so three processes know each
other, and a fourth hears of everything from one of
them; each channel has its own numbers to compare, but one counter gives them, which two
channels of one publisher and a third message show. In Ocapn an export that is
replaced, one from afar and one read between them make three values; two calls make an
answer known before another; the receiver is on a canvas of its own, shown or not where
the *restart* part begins anew, shown otherwise not; scripts fail in *exports*, and the
receiver's in *restart*; a number of 3 bits does not fit a float of 2. In
Definitions a program, its successor and a return to the first take two commands, one
more races with the file watcher; the scenarios keep commands apart that change nothing
of each other's. In Nrepl a client that gives up once is one answer behind; the third
request shows that it stays so. In Store two values set one after the other, by two
threads on the shared key, bring every order of the four statements; the crash falls
anywhere in the two saves; two nodes and two labels let a file be shared, removed and moved; what keys and nodes share is db.json, which saves both as one,
so a behaviour changes either values or nodes. In Agent a second turn is what a late answer leaks into. The
texts contain all pairs and triples of the symbols the scanners treat specially.

Deadlock is not checked (`CHECK_DEADLOCK FALSE`): with the bounded requests used
up and everything collected a run has nothing left to do, and the program is
idle.

Fairness. The owner polls on every frame and asks for another frame while
`pending_nodes` or `has_pending` says so (`src/app.rs`, update; the peer loops every
50 ms): weak fairness of the poll actions. The pool runs what it was given and
scripts are assumed to end: weak fairness of each node's evaluation. Timers run out:
weak fairness of `DebounceExpires` and `Flush`. A thread of the nREPL server runs, and its
5 s pass: weak fairness of `Serve` for each client, and none of the owner. The owner of a
peer reads the definition channels every time round: weak fairness of serving and of
receiving each definition; the run says what it promises only while no message
was lost. No fairness is assumed of users, tools, other peers, messages,
cancellation, deletion or restarts.

### What the code does and no run shows

While the modules were written these were met too. Each is listed under "hazards",
or limits a property in the way its comment says.

* A node that is deleted while it is evaluated and brought back by undo can be
  evaluated twice at a time: `remove` forgets `in_flight` (`src/actor.rs:390`). The
  properties of ActorRuntime that this breaks are stated for the other nodes.
* The mailbox fast path evaluates the expanded text of an earlier request, with the
  imports of that request (`src/actor.rs:538`).
* `compute_if_ready` drops the request that follows a message, a delivery or the
  result of a call while the target is pending, even if the target has already read what
  it was to read (`src/graph_runtime.rs:551`, `src/app.rs:309`). So mail is checked on a
  calm canvas, and Ocapn's nodes of this kind (`missed`) are left out.
* A value, a message or the result of a call wakes the nodes that read it only on the canvas
  that is shown (`src/app.rs:401`); on another canvas they keep what they show, until
  somebody asks for them. They are in `missed` too.
* A file imported with a database beside it replaces the rows of all canvases, and the list
  of canvases may come to name some that are not open; showing one ends the program
  (`src/persistence.rs:544`, `src/db.rs:100`). `ShownIsOpen` is stated without it.
* An import by hash under a name such as `a->b` is accepted and written, but not read back
  (`src/persistence.rs:161`).
* `DeleteNode` leaves the node in `pending_nodes` (`src/app.rs:599`).
* After `compute_all` on a chain of three nodes, one may show what it made of an
  import that was not computed yet (`src/graph_runtime.rs:580`).
* Undo puts a state of one canvas on another, if the canvas was switched in
  between, and takes `next_node_id` back, so a late result may reach a node that
  has the number of a deleted one. A phantom that comes back by undo is an own node
  and is saved (`src/app.rs:835`). `ResultsReachTheirNode` and the part about phantoms
  are stated without undo.
* `PeerLost` compares the peer's id with the source canvas that `deliver_values`
  stores, and removes nothing (`src/app.rs:431`). No property is about the phantoms that stay.
* After a canvas is shown, a library has the exports only: a widget's name that is not
  exported is gone from it until the next result (`src/scheme_engine.rs:480`).
  `LibraryIsNodes` asks for exported names.
* A peer that publishes under the name of an own canvas replaces an own library
  (`src/graph_runtime.rs:463`). In `peers` it has names of its own.
* A publisher that restarts on a cycle of links may be overheard: its new numbers
  are smaller than those a forwarder sent (`net/src/transport.rs:267`). In
  `peers` the process that restarts does not publish.
* `latest_seq` is kept for the peer that forwards a message, not for the one that publishes
  it (same line). In `peers`, and in the theorem of §4, a channel has one publisher: two
  publishers behind one neighbour, whose numbers would be compared with each other, are
  not covered.
* Nor must a *forwarder* restart on a cycle of links. Let `a` publish to `b` and `f`, which
  are linked too. `b` restarts before it has seen message 1 and `f` is slow: `b` passes on
  message 2, which `f` takes first; then `f` takes message 1 from `a`, whose numbers it
  compares with those that came from `a` itself, and shows it. Message 2 comes from `a`
  as well, but the library has delivered it already: the older value stays (same line).
  TLC finds it when `b` is let restart; so in `peers` only a process with one
  link does, and the theorem of §4 says so.
* The display of a node whose script reads a slot, a result or its mail and fails is the one
  before, and no other computation comes (`src/app.rs:337`); what it took from its mailbox is
  gone. Such a node is in `missed` until it is asked again.
* The number of a call, rounded, may be the number of another call of the process, whose
  result the script is then given (`src/bridge.rs:871`). In `peers` it is nobody's number.
* The number of a call is a random 64-bit integer that scripts get as a float; one above
  2^53 comes back rounded and finds no result (`src/bridge.rs:871`).
* Two threads that set one key may leave two rows, and items appended by one
  thread are lost to another that read the list before (`src/db.rs:149`,
  `src/panels.rs:969`).
* db.json is written in place; a crash leaves a part of it, which the next start
  reads as an empty database (`src/persistence.rs:51`).
* Two nodes with one label on one canvas share a node file (`src/persistence.rs:136`), and
  new Script nodes all have the label of the template: deleting one takes the file of the
  others, and a crash before the next save their program (`src/app.rs:601`). Store does what
  the code does; in Definitions a label belongs to one node.
* A hash that a peer served too may be resolved to the network's row, which no
  canvas holds, so that an import has no value although an own node defines it
  (`src/graph_runtime.rs:127`).
* nREPL threads read the owner's graphs through a raw pointer without a lock
  (`src/nrepl_eval.rs:37`); a closed session keeps its environment.
* After one read timeout every tool of the code agent gets the answer to an earlier
  call (`nrepl/src/client.rs:41`).
* `parse_define` takes `(define` and `)` for granted and cuts names at white space only, so
  definitions in irregular forms are named or cut otherwise than the parser would
  (`src/types.rs:138`); an exported program whose parentheses do not balance, or which
  begins with the name of a block, does not come back (`src/persistence.rs:801`, `:922`).

## 4. Proofs

Eight modules hold the proofs: `ActorRuntimeProofs`, `ComputeLoopProofs` and
`DefinitionsProofs` of the module they are named after, `StorageProofs` of Canvases and
Store, `ServicesProofs` of Nrepl and Agent, `PeersProofs` of Delivery and Gossip,
`OcapnProofs` and `OcapnAnswersProofs`, which extends it, of Ocapn. Their theorems
hold for every value of the constants: any nodes, texts, canvases, peers, clients,
threads and keys, and any bounds. They assume what the module itself assumes of its
constants (types, finiteness of what the program enumerates, and that the marks for
"nothing" are no values), and a hypothesis only where this section names one. Each
proof has an inductive invariant: that it holds at first, that every action keeps it, one
lemma for each action that does much, and that it implies the property.

### ActorRuntimeProofs

* `TypeCorrect`: the type invariant.
* `SlotsAlwaysAgree`: for a node in flight nothing waits for a timer and no
  environment is cached; a dirty request waits only behind a node in flight. It is
  inductive as it stands, and holds whatever is cancelled or deleted.
* `NoOverlap`, `SingleEvaluationHolds`: a node is evaluated at most once at a
  time, unless it is itself deleted; what happens to other nodes does not matter.
  The property is not inductive: nothing in
  it says that `in_flight` is set while an evaluation is under way. `InFlightCovers`
  says so, and the induction uses `SlotsAgree` for the nodes that the timer starts.
* `StampsAlwaysOrdered`, `ResultsComeInOrder`: for such a node what is evaluated is newer
  than what was delivered and older than what waits; so what poll returns is in order.
  Delivery order alone is not inductive: it needs the order of everything still on its
  way.
* `RuntimeImplementsExecutors`: the refinement. Each step of the runtime is, seen from a
  node that is not deleted, a step of `NodeExecutor` or none. It takes the three
  invariants before: the one job or result of a node is its "current" request, and the
  debounce entry or the dirty slot its "waiting" one.
* `EnvAlwaysFitsText`: by `TextsFit`, which says of every request, job, result and cached
  environment what the property says of jobs. A handler's environment always has an
  expanded text, which is why the fast path finds one although it was chosen earlier.
* `EnvAlwaysHasOneHolder`: by `EnvsOwned`. An environment is named by the request that
  made it; a request that is still to be evaluated has a stamp of its own, which names
  no environment yet. It holds with cancellation and deletion too: `remove` forgets
  that a node is in flight, but it drops the cached handle.
* `PendingAlwaysMeansWork`: `has_pending` is exact where nothing is cancelled or deleted
  (hypotheses `~AllowCancel` and `Removable = {}`). With cancellation it is false:
  `actor_cancel_pending` shows it.

### ComputeLoopProofs

* `LoopTypeCorrect`; its induction carries `RequestsShaped`: requests have a value or a
  hole for each import, and no hole once they are evaluated.
* `RequestsStayInLine`, `OutputsNeverGoBack`: what a node shows, what is computed for it,
  what waits and what there is now are in one line, by version of the program and by
  revision of each import. What is shown is replaced by what is computed, so it does not go
  back; the library reads of a script are in the line because revisions only grow.
* `PendingIsAlwaysComputed`: a node in `pending_nodes` is in flight or its request waits,
  unless evaluations may be cancelled.
* `TreesSettle`: at rest everything is current and read, *on trees*: each node is fed by one
  node at most (through an import or messages), never by itself in the end, and users of
  calm canvases ask for one node at a time. The hypothesis is no convenience: with two
  imports it is false, which `loop_diamond` shows. The invariant, `Settling`: the nodes
  in flight do not lead to one another, so that no result comes while a node it has to
  be propagated to is pending.

### StorageProofs: Canvases

* `CanvasesAreAlwaysSound`: by `Kept`. It adds to the property that every graph, in
  memory, in the undo states and in the file, has its numbers below `next_node_id`, and
  that for the GUI, as long as no imported file has a database beside it, the listed, the
  open and the saved canvases are the same, without which a deleted canvas could be shown.
  The parts about numbers and phantoms are proved with imported databases too.
* `StartAlwaysGivesEachItsOwn`: the start makes numbers unique. `RemappedIsSound` is the
  lemma about `remap_conflicting_ids`, for any number of canvases in any order: the numbers
  given to clashing nodes are above all those in use on the canvases before.
* `ResultsAlwaysReachTheirNode`: by `SteadyKept`: on one canvas, without undo and import,
  the number of an evaluation under way is not given again.

### PeersProofs: Delivery

* `LibrariesAreAlwaysRight`, under the hypothesis that no peer publishes under the name of
  an own canvas (`Canvas \cap Remote = {}`; otherwise it replaces an own library, as
  §3 says). The invariant, `NodesHaveLibraries`, says of every exported name of a node what
  `net_values` here, the library and the phantoms of the other canvases may hold: the
  output, or what a widget of that name is set to, and the output itself where no widget has
  the name; so whichever of the three sets of values is registered next, the exports are right.

### PeersProofs: Gossip

* `GossipIsReceived`: once the links are empty, every process owed the newest message of
  a channel shows it; on a network of any shape, under
  `SteadyNetwork`: a channel has one publisher, which does not restart (`OnePublisher`,
  `PublishersStay`); those that restart have one neighbour at most (`LeavesRestart`); the
  links connect all processes (`Connected`). The second and the third cannot be
  dropped, as §3 says. The network of `peers` fulfils them.

  The invariant is `GossipKept`. The property says something only of empty links, so it is
  not inductive; what has to be said is what a link holds while it is not empty:
  what one end has seen, the other has seen or has coming (`Handed`), and before a
  message on a link come the earlier ones of its channel that the other end has not
  seen (`Gapless`). So a process that lasts sees messages in order and misses none
  (`NothingIsMissed`), although they come to it over several links; `latest`, which is kept
  for each forwarder, then never refuses the one that is the newest (`LastIsShown`). A leaf
  that restarts begins anew with what comes from then on, in turn (`LeavesInTurn`,
  `NewestIsOwed`).

### OcapnProofs, OcapnAnswersProofs

What they prove needs several invariants, each a conjunction of named parts and each kept by
every action, restarts and failures included:

* `ObjectsKept` (theorem `ObjectsAreKept`): slots, keys, evaluations and queues. A key is that
  of one export, a node has its keys from 0 on, and an evaluation has the keys of what it
  has exported (`KeysAreExports`, `KeysAreCounted`); a node is evaluated or has a
  result waiting, never both (`OneAtATime`).
* `NumbersKept`: a message is in one place, once: queued in an evaluation, on the
  wire, with the owner, or arrived.
* `RequestsCounted`: the calls of a node are as many as the bound says.
* `ValuesKept`: a value is written once, and what an answer or a message holds will not be
  written again (`Spent`), so the order of the values of a slot does not change behind
  the answer.
* `ReadersKept`: while an evaluation holds what it read, or a display shows it, and
  something newer came since, the node is asked to be computed, or missed it (`missed`:
  it was pending then, or not on the shown canvas, or its script failed), or the owner has
  still to notice the call that wrote (`Owes`).

They give

* `LocatorsStayStable`: the k-th export of an evaluation makes a new slot exactly when the
  node has no more than k of them already. By `ObjectsKept`, since the slots a node owns
  are as many as its keys (a bijection between the keys and 0 .. k is counted).
* `AnswersStayFresh`: by `ObjectsKept`, `NumbersKept`, `RequestsCounted`, `ValuesKept`. No
  hypothesis.
* `QuietPeersHaveReceived`: by `ObjectsKept`, `NumbersKept`, `RequestsCounted`,
  `ReadersKept`. Its hypotheses: a rounded number of a call is not another call's number
  (`RoundedAreNew`, without which §3 says what goes wrong), and there are finitely many
  nodes. Any script may fail and any canvas be shown at any time; what the property then
  still promises is in `missed`, which loses a node as soon as it is asked again.

### StorageProofs: Store

* `SoleWritersAlwaysReadTheirWrites`, `SavedValuesAlwaysComeBack`,
  `NodesAlwaysFindTheirProgram` (any nodes under any labels): by one invariant, `StoreKept`. It counts rows: each
  came from a writer's CREATE or from an import, so the threads between DELETE and
  CREATE bound what may still come (`RowsAreCounted`); it says what a dump on its way to
  db.json holds, and that a program that just started has what was in the file.

### ServicesProofs: Nrepl

* `RequestsAreAnsweredInTurn`, `CommandsAlwaysRunInOrder`, `SuccessIsAlwaysTheOwners`: by
  `NreplKept`: answers taken, answers under way and the request at hand add up to the
  requests read; commands in the channel are in the order of their client's requests and
  newer than the one the owner runs and the one it replied to last; a thread that has
  not yet asked the owner has no command there (`NotYetAsked`), so that a reply found is to
  the command at hand.

### ServicesProofs: Agent

* `ConversationsAreAlwaysSound`: by `AgentKept`. Requests are in the order of the calls,
  messages of the server in the order of the requests, and what was given to the LLM
  is behind both; so answers only move forward, even after a timeout. Until one, the server
  has answered all requests but the one awaited (`InStep`), and answers are own.

### DefinitionsProofs

* `FilesAreAlwaysNodes`, `HistoryIsAlwaysKept`: without hypotheses. The first is inductive
  with what the watcher has still to say: the last report of a node's file, if there is one,
  holds the file as it is (`FilesSound`). What a start gives is read from the file by
  `Loaded`, so it speaks of the imports whose names the parser takes.
* `DefinitionsAlwaysHaveBodies`, with `FreshRenames`: renames take names that no
  current definition of the canvas has. The code does not look whether one has; two rows
  of one name would then be told apart by nothing.
* `ImportsAlwaysGetTheirBody`, with `NoTwins`: where a peer renames, no two nodes of one
  canvas can come to define the same body, by an update or by the rewriting of a rename
  elsewhere. The proof found that this is needed: `rename_def`
  (`src/db.rs`) renames the rows of *every* node of the canvas with that hash and name,
  but only one node's program. Let two nodes define the same body as `a`, and let the second
  one also export a value it computed for `b` from another body. After `a` is renamed to
  `b` for the first node, the second has a row that says `b` leads to the body of `a`,
  and a value of `b` that is not that body's. TLC finds this behaviour when such a
  scenario is added to `MCDefinitions`; the scenarios of `definitions` have no twins on a
  canvas.

### What is only model-checked

* Liveness (`EveryRequestAnswered`, `ComesToRest`, `EditsAreComputed`, `AskedIsAnswered`):
  temporal reasoning with fairness and ENABLED is out of TLAPS's reach.
* `ReadersAgree`, `DifferenceIsFaithful`, `MessagesArriveWhole`, `ImportGivesBackNodes`,
  `OrdersAreRight`: their modules define what is computed by recursion over data, about
  which the installed provers cannot use induction. These five are the only safety
  properties of the passing runs without a theorem.
* `QuietMeansSettled` for canvases that are no trees but have one import at most for each
  node, as far as the instances of `loop` go.

## 5. Not modelled, and the plan

Next, in this order:

1. Deletion and undo in ComputeLoop, with `pending_nodes`.
2. The two evaluations of the mailbox fast path as two steps, with the messages the
   first one sent (`src/actor.rs:537`, the one hazard without a property).

Left out for good: drawing, layout and theme (no protocol); the Scheme interpreter,
the conversion of values and wasmtime (external; their effect is in `Evaluate` and
`Finish`); the WASM registry (read at the start); the relay, discovery over mDNS and
dialling (configuration of a library); syrup (another format of the same kind as
bencode, encoded and decoded whole); migration of old layouts (once, before anything
else runs); metrics and logging; the Emacs clients.
