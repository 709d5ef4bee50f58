---------------------------- MODULE ComputeLoop ----------------------------
(***************************************************************************)
(* The owner's loop around the evaluation runtime: which nodes it asks to  *)
(* be evaluated after an edit, a message or another node's result, and     *)
(* when (src/src/graph_runtime.rs, src/src/app.rs, src/peer/src/main.rs).  *)
(*                                                                         *)
(* The runtime of actor.rs appears here as what NodeExecutor promises for  *)
(* each node: one evaluation at a time (cur) and one request that waits    *)
(* (waiting: the dirty slot of a node in flight, else its debounce entry). *)
(*                                                                         *)
(* A value is named by where it comes from.  A node's program (text and    *)
(* widget values) has a version; its outputs have a revision, which grows  *)
(* when an applied result was computed from another version of the program *)
(* or from other revisions of the imports than the outputs before.         *)
(* Scripts are taken to be deterministic.                                  *)
(***************************************************************************)
EXTENDS Naturals, FiniteSets

CONSTANTS
  Nodes,     \* node numbers
  Uses,      \* what a canvas may be and what may happen to it
  MaxVersion,\* bound: versions of one node's program, whatever the use
  None       \* no evaluation, no request

AllOps == {"widget", "file", "update", "compute", "roots", "recompute",
           "message", "cancel", "start"}

\* A canvas and its use: its nodes, none of them phantom; imports[n], the nodes
\* whose module n imports (import_edges); the nodes that take their inputs from
\* the request (WASM, Output), while the others, Scheme scripts, read the
\* libraries of their imports; sends[n], the nodes that n's script sends a
\* message to; what users, tools and peers do; whether they do it only while
\* nothing is computed; and (bound) how many versions a program has.
Use == [nodes : SUBSET Nodes, imports : [Nodes -> SUBSET Nodes],
        snapshot : SUBSET Nodes, sends : [Nodes -> SUBSET Nodes],
        ops : SUBSET AllOps, calm : BOOLEAN, versions : 1 .. MaxVersion]

ASSUME ConstantsAssumption ==
  /\ Uses \subseteq Use
  /\ \A u \in Uses : \A n \in Nodes :
       n \notin u.imports[n] /\ u.imports[n] \cup u.sends[n] \subseteq u.nodes
  /\ MaxVersion \in Nat \ {0}

VARIABLES
  use,      \* the canvas of this behaviour, and its use
  started,  \* compute_all has run (the peer calls it before its loop)
  ver,      \* version of each node's program
  broken,   \* the nodes whose program fails to evaluate
  out,      \* what each node's output_values were computed from
  rev,      \* revision of output_values, which the node's library holds too
  failed,   \* the nodes whose last result was an error
  pending,  \* pending_nodes
  cur,      \* the evaluation in flight of each node
  waiting,  \* the request that waits for each node
  mail      \* the nodes with unread messages in their mailbox

vars == <<use, started, ver, broken, out, rev, failed, pending, cur, waiting, mail>>

Imports  == use.imports
Snapshot == use.snapshot
Sends    == use.sends

\* A revision, or none for a library that was not read yet.
Unread == None
Seen == [Nodes -> Nat \cup {Unread}]

\* What a compute call carries that matters here: the program's version,
\* whether it fails, and the input values resolved for it.
Request == [ver : Nat, broken : BOOLEAN, from : Seen]

\* An evaluation: under way; finished, with its result in the channel; or
\* "lost", when cancel_all threw its result away and the node is still marked
\* as in flight.
Evaluation == [phase : {"run", "done", "lost"}, req : Request]

ASSUME NoneAssumption ==
  /\ None \notin Nat
  /\ None \notin Request
  /\ None \notin Evaluation

\* A canvas was loaded: its outputs were not (version 0 stands for "never").
Init ==
  /\ use \in Uses
  /\ started = ("start" \notin use.ops)
  /\ ver     = [n \in Nodes |-> 1]
  /\ broken  = {}
  /\ out     = [n \in Nodes |-> [ver |-> 0, from |-> [m \in Nodes |-> 0]]]
  /\ rev     = [n \in Nodes |-> 0]
  /\ failed  = {}
  /\ pending = {}
  /\ cur     = [n \in Nodes |-> None]
  /\ waiting = [n \in Nodes |-> None]
  /\ mail    = {}

-----------------------------------------------------------------------------
(***************************************************************************)
(* Asking for evaluations                                                  *)
(***************************************************************************)

\* Nothing is computed and nothing waits.
Quiet == \A n \in Nodes : cur[n] = None /\ waiting[n] = None

\* Users act, on a canvas that is at rest if its use is calm.
MayAct(op) == started /\ op \in use.ops /\ (use.calm => Quiet)

\* The request for n when its program has version v: resolve_node resolves the
\* inputs now; a script will read its libraries when it runs.
RequestOf(n, v, isBroken, revs) ==
  [ver |-> v, broken |-> isBroken,
   from |-> [m \in Nodes |->
               IF m \notin Imports[n] THEN 0
               ELSE IF n \in Snapshot THEN revs[m] ELSE Unread]]

Begin(req) == [phase |-> "run", req |-> req]

\* actor_runtime.compute for every node of S, with the requests reqs: an idle
\* node starts, a node in flight has its waiting request replaced.
CurWith(curs, S, reqs) ==
  [n \in Nodes |-> IF n \in S /\ curs[n] = None THEN Begin(reqs[n]) ELSE curs[n]]
\* (Mutant: the debounce entry of the node that starts is kept.)
WaitingKept(curs, waits, S, reqs) ==
  [n \in Nodes |-> IF n \in S /\ curs[n] # None THEN reqs[n] ELSE waits[n]]
WaitingWith(curs, waits, S, reqs) ==
  [n \in Nodes |-> IF n \notin S THEN waits[n]
                   ELSE IF curs[n] = None THEN None ELSE reqs[n]]

RequestsNow == [n \in Nodes |-> RequestOf(n, ver[n], n \in broken, rev)]

\* compute_if_ready skips the nodes that are pending.
Ready(S) == S \ pending

\* Nodes S are put into pending_nodes and computed.
ComputeNodes(S) ==
  /\ pending' = pending \cup S
  /\ cur' = CurWith(cur, S, RequestsNow)
  /\ waiting' = WaitingWith(cur, waiting, S, RequestsNow)

-----------------------------------------------------------------------------
(***************************************************************************)
(* What users, tools and peers do                                          *)
(***************************************************************************)

\* Mutant: an edit of a node that is pending does not ask again.
PendingSkip(n) == n \in pending
\* handle_update_widget and apply_file_events never skip.
EditSkips(n) == FALSE

\* handle_update_widget: the node's widget value changes and the node is
\* computed after the debounce delay, pending or not.
EditWidget(n) ==
  /\ MayAct("widget")
  /\ ver[n] < use.versions
  /\ ver' = [ver EXCEPT ![n] = @ + 1]
  /\ pending' = pending \cup {n}
  /\ waiting' = IF EditSkips(n) THEN waiting
                ELSE [waiting EXCEPT ![n] =
                        RequestOf(n, ver[n] + 1, n \in broken, rev)]
  /\ UNCHANGED <<use, started, broken, out, rev, failed, cur, mail>>

\* apply_file_events: the node's file was saved with another text, good or bad;
\* it is computed at once, pending or not.
EditFile(n) ==
  /\ MayAct("file")
  /\ ver[n] < use.versions
  /\ ver' = [ver EXCEPT ![n] = @ + 1]
  /\ \E bad \in BOOLEAN :
       LET req == RequestOf(n, ver[n] + 1, bad, rev) IN
       /\ broken' = IF bad THEN broken \cup {n} ELSE broken \ {n}
       /\ cur' = CurWith(cur, {n}, [k \in Nodes |-> req])
       /\ waiting' = WaitingWith(cur, waiting, {n}, [k \in Nodes |-> req])
  /\ pending' = pending \cup {n}
  /\ UNCHANGED <<use, started, out, rev, failed, mail>>

\* nREPL update-node: the text changes and nothing is computed.
UpdateNode(n) ==
  /\ MayAct("update")
  /\ ver[n] < use.versions
  /\ ver' = [ver EXCEPT ![n] = @ + 1]
  /\ broken' \in {broken \cup {n}, broken \ {n}}
  /\ UNCHANGED <<use, started, out, rev, failed, pending, cur, waiting, mail>>

\* nREPL compute and a tick: compute_if_ready.
ComputeIfReady(n) ==
  /\ MayAct("compute")
  /\ n \notin pending
  /\ ComputeNodes({n})
  /\ UNCHANGED <<use, started, ver, broken, out, rev, failed, mail>>

\* ancestors_sorted: n and every node it imports, directly or not.
Ancestors(n) ==
  LET Up[k \in 0 .. Cardinality(Nodes)] ==
        IF k = 0 THEN {n} ELSE Up[k - 1] \cup UNION {Imports[m] : m \in Up[k - 1]}
  IN Up[Cardinality(Nodes)]

\* PanelAction::ComputeNode: n and its ancestors without imports.
Roots(n) == {n} \cup {m \in use.nodes \cap Ancestors(n) : Imports[m] = {}}

ComputeRoots(n) ==
  /\ MayAct("roots")
  /\ Ready(Roots(n)) # {}
  /\ ComputeNodes(Ready(Roots(n)))
  /\ UNCHANGED <<use, started, ver, broken, out, rev, failed, mail>>

\* PanelAction::RecomputeSelected: compute_node, pending or not.
RecomputeSelected(n) ==
  /\ MayAct("recompute")
  /\ ComputeNodes({n})
  /\ UNCHANGED <<use, started, ver, broken, out, rev, failed, mail>>

\* A message of the user or of a peer: it goes to the mailbox, then
\* compute_if_ready.
SendMessage(n) ==
  /\ MayAct("message")
  /\ mail' = mail \cup {n}
  /\ ComputeNodes(Ready({n}))
  /\ UNCHANGED <<use, started, ver, broken, out, rev, failed>>

\* PanelAction::CancelCompute: cancel_all drops the waiting requests and the
\* results not yet collected; pending_nodes is cleared.
CancelCompute ==
  /\ MayAct("cancel")
  /\ pending' = {}
  /\ waiting' = [n \in Nodes |-> None]
  /\ cur' = [n \in Nodes |->
               IF cur[n] # None /\ cur[n].phase = "done"
               THEN [cur[n] EXCEPT !.phase = "lost"] ELSE cur[n]]
  /\ UNCHANGED <<use, started, ver, broken, out, rev, failed, mail>>

\* compute_all: every node in topological order; of a canvas with an import
\* cycle, only the nodes that topological_sort could not place.
OnCycle(n) == \E m \in Imports[n] : n \in Ancestors(m)
Unplaced == {n \in use.nodes : \E m \in Ancestors(n) : OnCycle(m)}

ComputeAll ==
  /\ ~started
  /\ started' = TRUE
  /\ ComputeNodes(IF Unplaced = {} THEN use.nodes ELSE Unplaced)
  /\ UNCHANGED <<use, ver, broken, out, rev, failed, mail>>

-----------------------------------------------------------------------------
(***************************************************************************)
(* What the runtime and the loop do                                        *)
(***************************************************************************)

\* flush_debounced: the timer of a request that waits for an idle node ran out.
Flush(n) ==
  /\ cur[n] = None
  /\ waiting[n] # None
  /\ cur' = [cur EXCEPT ![n] = Begin(waiting[n])]
  /\ waiting' = [waiting EXCEPT ![n] = None]
  /\ UNCHANGED <<use, started, ver, broken, out, rev, failed, pending, mail>>

Running(n) == cur[n] # None /\ cur[n].phase = "run"
Finished(n) == cur[n] # None /\ cur[n].phase = "done"
UnreadImports(n) == {m \in Imports[n] : cur[n].req.from[m] = Unread}

\* A script runs (import (canvas m)): it gets the library's values of now.
ReadLibrary(n, m) ==
  /\ Running(n)
  /\ m \in UnreadImports(n)
  /\ cur' = [cur EXCEPT ![n].req.from[m] = rev[m]]
  /\ UNCHANGED <<use, started, ver, broken, out, rev, failed, pending, waiting, mail>>

\* The evaluation ends: the node's own messages were handled, those it sends
\* are in the mailboxes, and its result is in the channel.
Finish(n) ==
  /\ Running(n)
  /\ UnreadImports(n) = {}
  /\ cur' = [cur EXCEPT ![n].phase = "done"]
  /\ mail' = IF cur[n].req.broken THEN mail ELSE (mail \ {n}) \cup Sends[n]
  /\ UNCHANGED <<use, started, ver, broken, out, rev, failed, pending, waiting>>

\* Mutant: a result goes to the nodes it was made from too.
Neighbours(n) == {m \in Nodes : n \in Imports[m] \/ m \in Imports[n]}
\* direct_downstream
Downstream(n) == {m \in Nodes : n \in Imports[m]}

\* Mutant: a result leaves the downstream nodes alone.
NonePropagated(n, left) == {}
\* propagate_downstream and recompute_requests skip the nodes that are pending.
Propagated(n, left) == Downstream(n) \ left
Woken(n, left) == Sends[n] \ left

\* Mutant: an error leaves the node pending.
PendingUnlessComputed(n) == IF cur[n].req.broken THEN pending ELSE pending \ {n}
PendingAfter(n) == pending \ {n}

\* poll takes n's result: the waiting request of n starts.
CurAfterPoll(n) ==
  [cur EXCEPT ![n] = IF waiting[n] = None THEN None ELSE Begin(waiting[n])]
WaitingAfterPoll(n) == [waiting EXCEPT ![n] = None]

\* ActorResult::Error: the node shows the error and nothing else happens.
PollError(n) ==
  /\ Finished(n)
  /\ cur[n].req.broken
  /\ failed' = failed \cup {n}
  /\ pending' = PendingAfter(n)
  /\ cur' = CurAfterPoll(n)
  /\ waiting' = WaitingAfterPoll(n)
  /\ UNCHANGED <<use, started, ver, broken, out, rev, mail>>

\* ActorResult::Computed: the outputs are applied and the library registered,
\* the targets of the messages sent are computed, then the downstream nodes,
\* each unless it is pending by then.
PollComputed(n) ==
  /\ Finished(n)
  /\ ~cur[n].req.broken
  /\ LET req == cur[n].req
         now == [ver |-> req.ver, from |-> req.from]
         revs == [rev EXCEPT ![n] = IF now = out[n] THEN @ ELSE @ + 1]
         left == PendingAfter(n)
         woken == Woken(n, left)
         asked == woken \cup Propagated(n, left \cup woken)
         reqs == [m \in Nodes |-> RequestOf(m, ver[m], m \in broken, revs)]
     IN
     /\ out' = [out EXCEPT ![n] = now]
     /\ rev' = revs
     /\ failed' = failed \ {n}
     /\ pending' = left \cup asked
     /\ cur' = CurWith(CurAfterPoll(n), asked, reqs)
     /\ waiting' = WaitingWith(CurAfterPoll(n), WaitingAfterPoll(n), asked, reqs)
  /\ UNCHANGED <<use, started, ver, broken, mail>>

UserActs ==
  \/ \E n \in use.nodes : \/ EditWidget(n) \/ EditFile(n) \/ UpdateNode(n)
                      \/ ComputeIfReady(n) \/ ComputeRoots(n)
                      \/ RecomputeSelected(n) \/ SendMessage(n)
  \/ CancelCompute
  \/ ComputeAll

Evaluating(n) == (\E m \in Imports[n] : ReadLibrary(n, m)) \/ Finish(n)
Polling(n) == PollError(n) \/ PollComputed(n)

LoopActs == \E n \in Nodes : Flush(n) \/ Evaluating(n) \/ Polling(n)

Next == UserActs \/ LoopActs

Spec == Init /\ [][Next]_vars

\* The pool runs what it was given, timers run out, and the owner polls on
\* every frame while anything is pending.  Nobody promises to act.
FairSpec ==
  /\ Spec
  /\ WF_vars(ComputeAll)
  /\ \A n \in Nodes : /\ WF_vars(Flush(n))
                      /\ WF_vars(Evaluating(n))
                      /\ WF_vars(Polling(n))

-----------------------------------------------------------------------------
(***************************************************************************)
(* Properties                                                              *)
(***************************************************************************)

\* Type invariant.
TypeOK ==
  /\ use \in Uses
  /\ started \in BOOLEAN
  /\ ver \in [Nodes -> 0 .. MaxVersion]
  /\ broken \subseteq Nodes
  /\ out \in [Nodes -> [ver : 0 .. MaxVersion, from : [Nodes -> Nat]]]
  /\ rev \in [Nodes -> Nat]
  /\ failed \subseteq Nodes
  /\ pending \subseteq Nodes
  /\ cur \in [Nodes -> Evaluation \cup {None}]
  /\ waiting \in [Nodes -> Request \cup {None}]
  /\ mail \subseteq Nodes

\* A node that is pending, which compute_if_ready and propagate_downstream will
\* not ask for again, is in flight or has a request that waits: it will be
\* heard of, unless its evaluation was cancelled.
PendingIsComputed ==
  "cancel" \notin use.ops => \A n \in pending : waiting[n] # None \/ Running(n) \/ Finished(n)

\* When everything is computed, every node that did not fail shows what its
\* program makes of the present outputs of its imports (graph_runtime.rs:
\* "Propagate computation to direct downstream nodes"), whatever the canvas, if
\* it is edited at rest.
QuietMeansCurrent ==
  use.calm /\ Quiet =>
    \A n \in Nodes \ failed : \A m \in Imports[n] : out[n].from[m] = rev[m]

\* So it is on canvases where a node has one import.
QuietChainsAreCurrent ==
  (\A n \in Nodes : Cardinality(Imports[n]) <= 1) => QuietMeansCurrent

\* What a node shows never goes back: not to an older version of its program,
\* nor to older outputs of an import, however requests, timers, library reads
\* and cancellations interleave.
OutputsMoveForward ==
  [][\A n \in Nodes :
       /\ out'[n].ver >= out[n].ver
       /\ \A m \in Nodes : out'[n].from[m] >= out[n].from[m]]_vars

\* No message stays in a mailbox while nothing is computed (actor.rs: "If new
\* data arrived while eval was in-flight, store it here"), except that of a node
\* whose last evaluation failed.
QuietMeansMailRead == use.calm /\ Quiet => mail \subseteq failed

\* When nothing is computed the canvas has settled: what is shown is current, and
\* messages have been read.
QuietMeansSettled == TypeOK /\ QuietChainsAreCurrent /\ QuietMeansMailRead

\* On a canvas without import cycles the loop comes to rest when users stop,
\* which those who only edit do because versions are bounded.
ComesToRest == use.ops \subseteq {"widget", "file"} => <>[]Quiet

\* An edit in the GUI or of a node's file, made at any time, is computed unless it
\* is cancelled: the node comes to show that version or a later one, or an error.
EditsAreComputed ==
  use.ops \cap {"cancel", "update"} = {} =>
  \A n \in Nodes : \A v \in 2 .. MaxVersion :
    ver[n] >= v ~> out[n].ver >= v \/ n \in failed
=============================================================================
