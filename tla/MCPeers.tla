------------------------------ MODULE MCPeers ------------------------------
(* What passes between peers, one part at a time: values and libraries (Delivery),
   the gossip that carries them (Gossip), and objects and calls (Ocapn). *)
EXTENDS Delivery, Gossip, Ocapn

CONSTANTS c1, c2, c3, controls, wave, freq, gain, peer, theirs, a, b, f, tail, x, y, sv, cl, ex, rd, ca, s1, s2

VARIABLE part

(* Delivery: wave imports controls; c1 and c2 have controls, with a widget for the gain,
   c3 a wave, which is made and deleted there. *)
WaveImports == [m \in Modules |-> IF m = wave THEN {controls} ELSE {}]
Twice == [c \in Canvas |->
            CASE c = c3 -> {wave} [] OTHER -> {controls}]
ExportsOf == [m \in Modules |-> IF m = controls THEN {freq, gain} ELSE {freq}]
WidgetsOf == [m \in Modules |-> IF m = controls THEN {gain} ELSE {}]
LastWave == {<<c3, wave>>}

\* Bounds: one node has requests that wait and widgets that are set, c2 is not shown,
\* the peer has no wave.
Delivering ==
  /\ widget'[c2] = widget[c2]
  /\ behind' \subseteq {<<c1, controls>>}
  /\ current' # c2
  /\ net'[peer][<<theirs, wave>>] = None

(* Gossip: a, b and f know each other, as mDNS arranges it on one network; tail only f.
   a publishes on both channels. *)
Known == {<<a, b>>, <<a, f>>, <<b, f>>, <<tail, f>>}
Kite == Known \cup {<<l[2], l[1]>> : l \in Known}
FromA == [ch \in Channels |-> {a}]

(* Ocapn: sv has a node that exports and reads its mail, and on another canvas one that
   receives; cl has one that calls. *)
HomeOf == [n \in Nodes |-> IF n = ca THEN cl ELSE sv]
SheetOf == [n \in Nodes |-> IF n = rd THEN s2 ELSE s1]
DoesWhat == [n \in Nodes |-> CASE n = ex -> {"export", "mail"} [] n = rd -> {"receive"}
                               [] OTHER -> {"call", "snapshot"}]

\* Bounds: exports of one script, requests of the caller, values under way; the
\* smaller number is the first call's.
Within(exported, sent, held) ==
  /\ running'[ex].busy => running'[ex].made <= exported
  /\ Cardinality(requests'[ca]) <= sent
  /\ \A i, j \in RequestIds : i < j /\ j \in requests'[ca] => i \in requests'[ca]
  /\ values' <= held

\* Bound: the nodes whose scripts fail.
Fail(who) == \A i \in DOMAIN finished'[sv] : finished'[sv][i].ok \/ finished'[sv][i].node \in who

PeersInit ==
  /\ part \in {"delivery", "gossip", "exports", "calls", "restart"}
  /\ Init /\ GossipInit /\ OcapnInit
  /\ current # c2
  /\ part # "restart" => view = [p \in Machines |-> IF p = sv THEN s2 ELSE s1]
  /\ view[cl] = s1
  /\ part # "delivery" => current = c1
  /\ widget[c1][controls] = NoValues

PeersNext ==
  \/ part = "delivery" /\ Next /\ Delivering /\ UNCHANGED <<part, gossipVars, ocapnVars>>
  \/ part = "gossip" /\ GossipNext /\ UNCHANGED <<part, vars, ocapnVars>>
  \/ part = "exports" /\ OcapnNext /\ Within(2, 0, 3) /\ starts' = starts /\ view' = view
       /\ UNCHANGED <<part, vars, gossipVars>>
  \/ part = "calls" /\ OcapnNext /\ Within(1, 2, 3) /\ slots'[cl] = << >> /\ starts' = starts
       /\ edits' = edits /\ view' = view /\ Fail({}) /\ UNCHANGED <<part, vars, gossipVars>>
  \/ part = "restart" /\ OcapnNext /\ Within(1, 1, 2) /\ slots'[cl] = << >> /\ edits' = edits
       /\ view'[cl] = s1 /\ Fail({rd})
       /\ UNCHANGED <<part, vars, gossipVars>>

PeersSpec == PeersInit /\ [][PeersNext]_<<part, vars, gossipVars, ocapnVars>>
=============================================================================
