------------------------------ MODULE Delivery ------------------------------
(***************************************************************************)
(* How the values of a module reach the canvases that do not have it: the  *)
(* loopback to the other canvases of the process, the values that peers    *)
(* publish, the imports looked up on other canvases, and the Scheme        *)
(* libraries and phantom nodes that hold them (src/src/graph_runtime.rs,   *)
(* src/src/app.rs).                                                        *)
(*                                                                         *)
(* A module is named by its label, which a canvas has once.  Its values are *)
(* by name: what its script gave to its exports and widgets, and what the   *)
(* user set its widgets to.  A value is a stamp, larger for every result,   *)
(* setting and message, with the peer that it comes from.  Which canvas is  *)
(* first in hash order is left open.  Undo is in Canvases, the cancelling   *)
(* of evaluations in ComputeLoop.                                           *)
(***************************************************************************)
EXTENDS Naturals, FiniteSets

CONSTANTS
  Canvas,    \* the canvases of this process
  Modules,   \* labels
  Names,     \* names of values
  Exports,   \* Exports[m]: the export list of module m
  Widgets,   \* Widgets[m]: the widgets its script declares
  Imports,   \* Imports[m]: the modules that a node labelled m imports
  Local,     \* Local[c]: the modules of canvas c at the start
  Peers,     \* other processes
  Remote,    \* the canvas names that peers publish under
  Edited,    \* the canvases and labels whose nodes are made and deleted
  Ops,       \* what users do in a run
  MaxStamp,  \* bound: results, settings and messages
  Here,      \* this process
  None

AllOps == {"compute", "switch", "widgets"}

ASSUME ConstantsAssumption ==
  /\ Exports \in [Modules -> SUBSET Names]
  /\ Widgets \in [Modules -> SUBSET Names]
  /\ Imports \in [Modules -> SUBSET Modules]
  /\ Local \in [Canvas -> SUBSET Modules]
  /\ Edited \subseteq Canvas \X Modules
  /\ Ops \subseteq AllOps
  /\ MaxStamp \in Nat
  /\ Here \notin Peers

Value == [n : 0 .. MaxStamp, from : Peers \cup {Here}]

ASSUME NoneAssumption == None \notin Value

\* A value for each name that has one.
Values == [Names -> Value \cup {None}]
NoValues == [x \in Names |-> None]
Exporting == {m \in Modules : Exports[m] # {}}

VARIABLES
  local,     \* the canvases' own nodes
  out,       \* output_values of own nodes
  widget,    \* widget_values of own nodes
  phantom,   \* phantom nodes: remote_peer and output_values
  lib,       \* the library (name module): the values it was registered with
  net,       \* net_values: what was published on a channel, None if nothing was
  connected, \* connected_peers
  pending,   \* pending_nodes
  behind,    \* nodes with a request that waits behind the one they are pending for
  current,   \* current_canvas
  stamp      \* values made so far

nodes == <<local, out, widget>>
waits == <<pending, behind>>
vars == <<nodes, phantom, lib, net, connected, waits, current, stamp>>

Sources == Canvas \cup Remote
Channel == Sources \X Modules

\* A phantom node, and its output values.
Phantom == [peer : Sources, val : Values]

\* The value of an export that was not computed: 0.0.
Zero == [n |-> 0, from |-> Here]
Zeros(m) == [x \in Names |-> IF x \in Exports[m] THEN Zero ELSE None]

\* What the widgets of a node may be set to when it is loaded, or made from a favourite.
Saved(m) == [x \in Names |-> IF x \in Widgets[m] THEN Zero ELSE None]

\* One set of values, and another where that has none.
Overlaid(over, under) == [x \in Names |-> IF over[x] # None THEN over[x] ELSE under[x]]

\* register_stub_libraries: the exports only, at 0.0 where there is no output.
Stub(m, v) == [x \in Names |-> IF x \in Exports[m] THEN Overlaid(v, Zeros(m))[x] ELSE None]

Init ==
  /\ local = Local
  /\ out = [c \in Canvas |-> [m \in Modules |-> NoValues]]
  /\ \E saved \in SUBSET Modules :
       widget = [c \in Canvas |-> [m \in Modules |->
                   IF m \in Local[c] \cap saved THEN Saved(m) ELSE NoValues]]
  /\ phantom = [c \in Canvas |-> [m \in Modules |-> None]]
  /\ net = [p \in Peers \cup {Here} |-> [ch \in Channel |-> None]]
  /\ connected = {} /\ pending = {} /\ behind = {}
  /\ current \in Canvas
  /\ lib = [ch \in Channel |->
              IF ch[1] = current /\ ch[2] \in Local[ch[1]] THEN Stub(ch[2], NoValues) ELSE NoValues]
  /\ stamp = 0

NextValue(from) == [n |-> stamp + 1, from |-> from]
Given(names, from) == [x \in Names |-> IF x \in names THEN NextValue(from) ELSE None]

\* register_node_library_named: without values nothing is registered.
Registered(libs, ch, v) == IF v = NoValues THEN libs ELSE [libs EXCEPT ![ch] = v]

Own(c, m) == m \in local[c]

\* deliver_values skips the canvases with an own node of that name.
Takers(T, m) == {c \in T : ~Own(c, m)}

\* Mutant: values from this process do not replace those of a phantom.
PhantomKept(c, src, m, v) ==
  IF phantom[c][m] # None /\ src \in Canvas
  THEN phantom[c][m] ELSE [peer |-> src, val |-> v]
PhantomWith(c, src, m, v) == [peer |-> src, val |-> v]

\* deliver_values of module m of source src to the canvases T: the phantom is
\* made or updated, the library registered, and the nodes that import the
\* module are asked for, unless they are pending.
PhantomsAfter(T, src, m, v) ==
  [c \in Canvas |-> IF c \in Takers(T, m)
                    THEN [phantom[c] EXCEPT ![m] = PhantomWith(c, src, m, v)]
                    ELSE phantom[c]]
LibAfter(libs, T, src, m, v) ==
  IF Takers(T, m) = {} THEN libs ELSE Registered(libs, <<src, m>>, v)
AskedBy(T, m) ==
  {n \in Takers(T, m) \X Modules : Own(n[1], n[2]) /\ m \in Imports[n[2]]}

-----------------------------------------------------------------------------
(***************************************************************************)
(* Own nodes                                                               *)
(***************************************************************************)

\* The imports of module k that no node of canvas c, own or phantom, carries.
Missing(c, k) == {m \in Imports[k] : ~Own(c, m) /\ phantom[c][m] = None}
Elsewhere(c, m) == {d \in Canvas \ {c} : Own(d, m)}
Found(c, k) == {m \in Missing(c, k) : Elsewhere(c, m) # {}}

\* What is published of a node: its outputs, under what its widgets are set to.
Published(o, w) == Overlaid(w, o)

\* What ensure_imports takes from the node of canvas d: the same, or zeros for
\* its exports if there is nothing.
ValuesOf(d, m) ==
  LET v == Published(out[d][m], widget[d][m]) IN IF v = NoValues THEN Zeros(m) ELSE v

\* compute_if_ready of node k on canvas c, or, whether it is pending or not, the
\* user's Recompute: ensure_imports delivers what is missing from another canvas
\* that has it.
ComputeNode(c, k) ==
  /\ "compute" \in Ops
  /\ Own(c, k)
  /\ <<c, k>> \notin pending \/ c = current
  /\ \E from \in [Found(c, k) -> Canvas] :
       /\ \A m \in Found(c, k) : from[m] \in Elsewhere(c, m)
       /\ phantom' = [phantom EXCEPT ![c] =
                        [m \in Modules |->
                           IF m \in Found(c, k)
                           THEN PhantomWith(c, from[m], m, ValuesOf(from[m], m))
                           ELSE @[m]]]
       /\ lib' = [ch \in Channel |->
                    IF /\ ch[2] \in Found(c, k)
                       /\ ch[1] = from[ch[2]]
                       /\ ValuesOf(ch[1], ch[2]) # NoValues
                    THEN ValuesOf(ch[1], ch[2]) ELSE lib[ch]]
  /\ pending' = pending \cup {<<c, k>>}
                        \cup UNION {AskedBy({c}, m) : m \in Found(c, k)}
  /\ behind' = IF <<c, k>> \in pending THEN behind \cup {<<c, k>>} ELSE behind
  /\ UNCHANGED <<nodes, net, connected, current, stamp>>

\* A result of node m of canvas c, of what it is pending for or of a request that
\* waited behind, gives values to some of its exports and widgets.  They are added
\* to its outputs, and those are registered; if the module exports anything they
\* are published with the settings of its widgets, and looped back to the other
\* canvases; the nodes that import it on this canvas are asked for.
OutputsWith(c, m, given) == Overlaid(Given(given, Here), out[c][m])
ApplyResult(c, m, given) ==
  /\ <<c, m>> \in pending \cup behind
  /\ stamp < MaxStamp
  /\ stamp' = stamp + 1
  /\ behind' \in {behind, behind \ {<<c, m>>}}
  /\ LET o == OutputsWith(c, m, given)
         v == Published(o, widget[c][m])
         to == IF m \in Exporting THEN Canvas \ {c} ELSE {}
     IN
     IF ~Own(c, m)
     THEN /\ pending' = pending \ {<<c, m>>}
          /\ UNCHANGED <<out, phantom, lib, net>>
     ELSE /\ out' = [out EXCEPT ![c][m] = o]
          /\ phantom' = PhantomsAfter(to, c, m, v)
          /\ lib' = LibAfter(Registered(lib, <<c, m>>, o), to, c, m, v)
          /\ net' = IF m \in Exporting THEN [net EXCEPT ![Here][<<c, m>>] = v] ELSE net
          /\ pending' = (pending \ {<<c, m>>}) \cup AskedBy(to, m)
                          \cup {<<c, k>> : k \in {k \in local[c] : m \in Imports[k]}}
  /\ UNCHANGED <<local, widget, connected, current>>

ApplyError(c, m) ==
  /\ <<c, m>> \in pending \cup behind
  /\ pending' = pending \ {<<c, m>>}
  /\ behind' \in {behind, behind \ {<<c, m>>}}
  /\ UNCHANGED <<nodes, phantom, lib, net, connected, current, stamp>>

\* handle_update_widget, on the shown canvas or another: the outputs there are, of
\* an earlier setting, are registered, and the node is asked for after a while.
UpdateWidget(c, m, x) ==
  /\ "widgets" \in Ops
  /\ Own(c, m) /\ x \in Widgets[m]
  /\ stamp < MaxStamp
  /\ stamp' = stamp + 1
  /\ widget' = [widget EXCEPT ![c][m][x] = NextValue(Here)]
  /\ lib' = Registered(lib, <<c, m>>, out[c][m])
  /\ pending' = pending \cup {<<c, m>>}
  /\ behind' = IF <<c, m>> \in pending THEN behind \cup {<<c, m>>} ELSE behind
  /\ UNCHANGED <<local, out, phantom, net, connected, current>>

\* A node is made.  It has a number of its own, so what a deleted node of that
\* label was asked for does not reach it.  A phantom of that label stays.
CreateNode(c, m) ==
  /\ <<c, m>> \in Edited
  /\ ~Own(c, m)
  /\ local' = [local EXCEPT ![c] = @ \cup {m}]
  /\ \E set \in {NoValues, Saved(m)} : widget' = [widget EXCEPT ![c][m] = set]
  /\ pending' = pending \ {<<c, m>>} /\ behind' = behind \ {<<c, m>>}
  /\ UNCHANGED <<out, phantom, lib, net, connected, current, stamp>>

DeleteNode(c, m) ==
  /\ <<c, m>> \in Edited
  /\ Own(c, m)
  /\ local' = [local EXCEPT ![c] = @ \ {m}]
  /\ out' = [out EXCEPT ![c][m] = NoValues]
  /\ widget' = [widget EXCEPT ![c][m] = NoValues]
  /\ UNCHANGED <<phantom, lib, net, connected, waits, current, stamp>>

\* The GUI shows another canvas and registers the libraries of its nodes.
SwitchCanvas(c) ==
  /\ "switch" \in Ops
  /\ c # current
  /\ current' = c
  /\ lib' = [ch \in Channel |->
               IF ch[1] = c /\ ch[2] \in local[c] \cap Exporting
               THEN Stub(ch[2], out[c][ch[2]]) ELSE lib[ch]]
  /\ UNCHANGED <<nodes, phantom, net, connected, waits, stamp>>

-----------------------------------------------------------------------------
(***************************************************************************)
(* The network                                                             *)
(***************************************************************************)

PeerDiscovered(p) ==
  /\ p \notin connected
  /\ connected' = connected \cup {p}
  /\ UNCHANGED <<nodes, phantom, lib, net, waits, current, stamp>>

\* NetEvent::ValuesReceived: the values go to every canvas, with the canvas
\* name in the channel as their source.  Peers run other programs: any names.
ValuesReceived(p, name, m, given) ==
  /\ stamp < MaxStamp
  /\ stamp' = stamp + 1
  /\ LET v == Given(given, p) IN
     /\ net' = [net EXCEPT ![p][<<name, m>>] = v]
     /\ phantom' = PhantomsAfter(Canvas, name, m, v)
     /\ lib' = LibAfter(lib, Canvas, name, m, v)
  /\ pending' = pending \cup AskedBy(Canvas, m)
  /\ UNCHANGED <<nodes, behind, connected, current>>

\* NetEvent::PeerLost: what the peer published is dropped, and the phantoms of
\* the shown canvas whose remote_peer is the peer's id.
PeerLost(p) ==
  /\ p \in connected
  /\ connected' = connected \ {p}
  /\ net' = [net EXCEPT ![p] = [ch \in Channel |-> None]]
  /\ phantom' = [phantom EXCEPT ![current] =
                   [m \in Modules |->
                      IF @[m] # None /\ @[m].peer = p THEN None ELSE @[m]]]
  /\ UNCHANGED <<nodes, lib, waits, current, stamp>>

Next ==
  \/ \E c \in Canvas, m \in Modules :
       \/ ComputeNode(c, m)
       \/ \E given \in SUBSET (Exports[m] \cup Widgets[m]) : ApplyResult(c, m, given)
       \/ ApplyError(c, m)
       \/ \E x \in Names : UpdateWidget(c, m, x)
       \/ CreateNode(c, m) \/ DeleteNode(c, m)
  \/ \E c \in Canvas : SwitchCanvas(c)
  \/ \E p \in Peers :
       \/ PeerDiscovered(p) \/ PeerLost(p)
       \/ \E name \in Remote, m \in Modules, given \in SUBSET Names : ValuesReceived(p, name, m, given)

Spec == Init /\ [][Next]_vars

-----------------------------------------------------------------------------
(***************************************************************************)
(* Properties                                                              *)
(***************************************************************************)

\* Type invariant.
TypeOK ==
  /\ local \in [Canvas -> SUBSET Modules]
  /\ out \in [Canvas -> [Modules -> Values]]
  /\ widget \in [Canvas -> [Modules -> Values]]
  /\ phantom \in [Canvas -> [Modules -> Phantom \cup {None}]]
  /\ lib \in [Channel -> Values]
  /\ net \in [Peers \cup {Here} -> [Channel -> Values \cup {None}]]
  /\ connected \subseteq Peers
  /\ pending \subseteq Canvas \X Modules /\ behind \subseteq Canvas \X Modules
  /\ current \in Canvas
  /\ stamp \in 0 .. MaxStamp

\* The library (canvas module) of an own node has every export that the node gave
\* a value, at that value or, for a name that is a widget's too, at what the widget
\* is set to; no other name has a value the node gave earlier (graph_runtime.rs:
\* "Register a node's outputs as an R6RS library (canvas module-name)"), although
\* results, settings, ensure_imports, loopbacks and canvas switches all register
\* it, each with other values.
LibraryIsNodes ==
  \A c \in Canvas : \A m \in local[c] : \A x \in Names :
    LET gave == out[c][m][x]
        has  == lib[<<c, m>>][x]
    IN  gave # None =>
          /\ x \in Exports[m] => has # None
          /\ has \in {gave, widget[c][m][x], None}

\* A phantom, on a canvas without an own node of that label, shows what the exports
\* of its source have been given, but for names of its widgets, and so does the
\* last publication; a phantom of another process shows what its library holds and,
\* as far as net_values has it, what that process published last: scripts get one
\* value whichever way they ask.  (Not where nodes of the label are made and
\* deleted: a canvas that has one takes no deliveries, and shows its old phantom
\* again afterwards.)
PhantomShowsItsLibrary ==
  \A c \in Canvas, m \in Modules \ {e[2] : e \in Edited} :
    LET ph == phantom[c][m] IN
    ph # None /\ ~Own(c, m) =>
      IF ph.peer \in Canvas
      THEN \A x \in Exports[m] :
             LET gave == out[ph.peer][m][x] IN
             gave # None /\ widget[ph.peer][m][x] = None =>
               ph.val[x] = gave /\ lib[<<ph.peer, m>>][x] = gave /\ net[Here][<<ph.peer, m>>][x] = gave
      ELSE ph.val # NoValues =>
             /\ lib[<<ph.peer, m>>] = ph.val
             /\ \A x \in Names : ph.val[x] # None /\ net[ph.val[x].from][<<ph.peer, m>>] # None =>
                  net[ph.val[x].from][<<ph.peer, m>>] = ph.val

\* Scripts get the values of the node they import, whichever of results, settings,
\* deliveries, zeros and canvas switches registered its library last.
LibrariesAreRight == TypeOK /\ LibraryIsNodes /\ PhantomShowsItsLibrary
==============================================================================
