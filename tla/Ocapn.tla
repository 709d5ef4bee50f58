------------------------------- MODULE Ocapn -------------------------------
(***************************************************************************)
(* Capabilities between processes: what scripts export, send, call and     *)
(* receive (src/src/bridge.rs), the table of exports                       *)
(* (src/net/src/ocapn/session.rs), the messages (types.rs), the transport  *)
(* thread that answers calls (transport.rs) and the owner that takes       *)
(* deliveries and results (src/src/app.rs).                                *)
(*                                                                         *)
(* Every value written has a number of its own.  A slot is the sequence of *)
(* the values written to it: the last one is its value, the others are     *)
(* kept for the properties.                                                *)
(***************************************************************************)
EXTENDS Integers, Sequences, FiniteSets

CONSTANTS
  Machines, Nodes,  \* processes and script nodes
  Home,          \* Home[n]: the process of a node
  Sheets, Sheet, \* canvases; Sheet[n]: the canvas of a node
  Does,          \* Does[n]: what the script may do: "export", "snapshot", "receive", "call", "mail"
  Failing,       \* nodes whose scripts may fail at the end
  RequestIds,    \* the random numbers of calls
  Precision,     \* bits a float keeps of a number (52 and the hidden one)
  MaxValues,     \* bound: values written
  MaxRequests,   \* bound: requests of one node
  MaxExports,    \* exports of one evaluation
  MaxEdits,      \* bound: computations asked for by the user
  Rebooting     \* the processes that restart, once

ASSUME OcapnAssumption ==
  /\ Home \in [Nodes -> Machines]
  /\ Sheet \in [Nodes -> Sheets]
  /\ Does \in [Nodes -> SUBSET {"export", "snapshot", "receive", "call", "mail"}]
  /\ {MaxValues, MaxRequests, MaxExports, MaxEdits, Precision} \subseteq Nat
  /\ RequestIds \subseteq Nat

VARIABLES
  view,       \* current_canvas of a process
  starts,     \* restarts of a process; its identity and all its numbers change
  slots,      \* Session.exports, without the bootstrap object at position 0
  byKey,      \* export_by_key: the position of a node's k-th export
  owners,     \* ocapn_slot_owners, by position
  mail,       \* node_mailboxes
  pendingNodes,    \* pending_nodes of the owner
  asked,      \* a computation that has not begun
  running,    \* the evaluation under way, with its ActorContext
  finished,   \* results the owner has not applied
  wire,        \* requests and responses under way
  events,     \* NetEvents for the owner
  results,    \* ocapn_call_results
  display,    \* what a receiving node showed last: a position and a value
  requests,   \* the numbers of a node's calls and sends
  values, edits,  \* counters
  answered,   \* (history) identity and value of the slot when a call was made and answered
  missed,     \* (history) nodes that were pending, or on a canvas not shown, when something
              \* came for them, or whose script failed, and not asked to compute since
  farWrite,   \* (history) how long the slot was after the last write from afar
  taken       \* (history) messages scripts took out of their mailboxes

ocapnVars == <<view, starts, slots, byKey, owners, mail, pendingNodes, asked, running, finished, wire, events,
               results, display, values, requests, edits, answered, missed, farWrite, taken>>

\* A SwissNum is random: it never repeats, not even after a restart.
Swiss == [peer : Machines, start : 0 .. 1, pos : 1 .. MaxValues]
Idle == [busy |-> FALSE]
NothingShown == [pos |-> 0, id |-> -1, value |-> 0]
Last(s) == s[Len(s)]
Upto(s, v) == Cardinality({k \in 1 .. Len(s) : \E j \in k .. Len(s) : s[j] = v})

OcapnInit ==
  /\ view \in [Machines -> Sheets]
  /\ starts = [p \in Machines |-> 0]
  /\ slots = [p \in Machines |-> << >>]
  /\ byKey = [p \in Machines |-> << >>]
  /\ owners = [p \in Machines |-> << >>]
  /\ mail = [n \in Nodes |-> << >>]
  /\ pendingNodes = Nodes
  /\ asked = Nodes
  /\ running = [n \in Nodes |-> Idle]
  /\ finished = [p \in Machines |-> << >>]
  /\ wire = {}
  /\ events = [p \in Machines |-> << >>]
  /\ results = [p \in Machines |-> << >>]
  /\ display = [n \in Nodes |-> NothingShown]
  /\ values = 0 /\ requests = [n \in Nodes |-> {}] /\ edits = 0
  /\ answered = {} /\ missed = {}
  /\ farWrite = [p \in Machines |-> << >>]
  /\ taken = [n \in Nodes |-> << >>]

-----------------------------------------------------------------------------
(* The functions of a script.                                              *)

Scripting(n, what) == running[n].busy /\ what \in Does[n]

\* reset_outputs, with the number of exports of this evaluation (history).
Reset(n) == [busy |-> TRUE, counter |-> 0, made |-> 0, sends |-> {}, read |-> NothingShown]

\* in_flight, until the owner has taken the result
InFlight(n) == running[n].busy \/ \E k \in DOMAIN finished[Home[n]] : finished[Home[n]][k].node = n

\* An evaluation starts, of the last request.
Evaluate(n) ==
  /\ n \in asked /\ ~InFlight(n)
  /\ asked' = asked \ {n}
  /\ running' = [running EXCEPT ![n] = Reset(n)]
  /\ UNCHANGED <<view, starts, slots, byKey, owners, mail, pendingNodes, finished, wire, events, results,
                 display, values, requests, edits, answered, missed, farWrite, taken>>

\* Mutant: the key is the node alone.
KeyOfNode(n, counter) == <<n, 0>>
ExportKey(n, counter) == <<n, counter>>

NextPosition(p) == Len(slots[p]) + 1

\* A new value in the slot at a position, or in one behind all others.
Written(s, pos, v) ==
  IF pos <= Len(s) THEN [s EXCEPT ![pos] = Append(@, v)] ELSE Append(s, <<v>>)

\* ocapn-export: the slot of the key if there is one, else a new export.
Export(n) ==
  LET p == Home[n]
      key == ExportKey(n, running[n].counter)
      pos == IF key \in DOMAIN byKey[p] THEN byKey[p][key] ELSE NextPosition(p)
  IN
  /\ Scripting(n, "export")
  /\ running[n].made < MaxExports
  /\ values < MaxValues
  /\ values' = values + 1
  /\ slots' = [slots EXCEPT ![p] = Written(@, pos, values + 1)]
  /\ byKey' = [byKey EXCEPT ![p] =
                 [k \in DOMAIN @ \cup {key} |-> IF k = key THEN pos ELSE @[k]]]
  /\ owners' = [owners EXCEPT ![p] = [k \in DOMAIN @ \cup {pos} |-> IF k = pos THEN n ELSE @[k]]]
  /\ farWrite' = IF pos <= Len(slots[p]) THEN farWrite ELSE [farWrite EXCEPT ![p] = Append(@, 0)]
  /\ running' = [running EXCEPT ![n].counter = @ + 1, ![n].made = @ + 1]
  /\ UNCHANGED <<view, starts, mail, pendingNodes, asked, finished, wire, events, results, display,
                 requests, edits, answered, missed, taken>>

\* ocapn-export-node: a new export each time, of the outputs as they are now,
\* that no node owns.
ExportNode(n) ==
  LET p == Home[n] IN
  /\ Scripting(n, "snapshot")
  /\ values < MaxValues
  /\ values' = values + 1
  /\ slots' = [slots EXCEPT ![p] = Append(@, <<values + 1>>)]
  /\ farWrite' = [farWrite EXCEPT ![p] = Append(@, 0)]
  /\ UNCHANGED <<view, starts, byKey, owners, mail, pendingNodes, asked, running, finished, wire, events,
                 results, display, requests, edits, answered, missed, taken>>

\* ocapn-receive of a locator of this process.
ReceiveSlot(n, pos) ==
  LET p == Home[n] IN
  /\ Scripting(n, "receive") /\ running[n].read = NothingShown
  /\ pos \in 1 .. Len(slots[p])
  /\ running' = [running EXCEPT ![n].read = [pos |-> pos, id |-> -1, value |-> Last(slots[p][pos])]]
  /\ UNCHANGED <<view, starts, slots, byKey, owners, mail, pendingNodes, asked, finished, wire, events,
                 results, display, values, requests, edits, answered, missed, farWrite, taken>>

\* actor-receive-msg pops the oldest message.
TakeMail(n) ==
  /\ Scripting(n, "mail") /\ mail[n] # << >>
  /\ mail' = [mail EXCEPT ![n] = Tail(@)]
  /\ taken' = [taken EXCEPT ![n] = Append(@, Head(mail[n]))]
  /\ UNCHANGED <<view, starts, slots, byKey, owners, pendingNodes, asked, running, finished, wire, events,
                 results, display, values, requests, edits, answered, missed, farWrite>>

\* lookup_by_swiss
Lookup(p, swiss) == swiss.start = starts[p] /\ swiss.pos <= Len(slots[p])

\* request_id: 64 random bits, so no two calls have the same.
Unused == RequestIds \ UNION {requests[n] : n \in Nodes}

\* ocapn-call and ocapn-send, on a locator somebody passed on: the message is
\* queued in the context.  A call gets a random number and hands it to the script.
Request(n, kind, method, to) ==
  \E id \in Unused :
  /\ Scripting(n, "call") /\ running[n].sends = {}
  /\ Cardinality(requests[n]) < MaxRequests
  /\ to.peer # Home[n]
  /\ to.start < starts[to.peer] \/ Lookup(to.peer, to)
  /\ method = "set" => values < MaxValues
  /\ values' = IF method = "set" THEN values + 1 ELSE values
  /\ requests' = [requests EXCEPT ![n] = @ \cup {id}]
  /\ running' = [running EXCEPT ![n].sends = @ \cup
       {[kind |-> kind, from |-> Home[n], to |-> to, method |-> method, value |-> values', id |-> id,
         known |-> {a.value : a \in {a \in answered : a.to = to}}]}]
  /\ UNCHANGED <<view, starts, slots, byKey, owners, mail, pendingNodes, asked, finished, wire, events,
                 results, display, edits, answered, missed, farWrite, taken>>

\* A number of a call as the script has it, a float: the bits beyond its precision
\* are rounded away.
Rounded(id) ==
  LET spare == CHOOSE k \in 0 .. id :
                 id < 2 ^ (Precision + k) /\ (k > 0 => id >= 2 ^ (Precision + k - 1))
  IN (id \div 2 ^ spare) * 2 ^ spare

\* ocapn-call-result, of a call the script remembers; the default is 0.
ReadResult(n, id) ==
  LET store == results[Home[n]] IN
  /\ Scripting(n, "call") /\ running[n].read = NothingShown
  /\ id \in requests[n]
  /\ running' = [running EXCEPT ![n].read = [pos |-> 0, id |-> id,
       value |-> IF Rounded(id) \in DOMAIN store THEN store[Rounded(id)] ELSE 0]]
  /\ UNCHANGED <<view, starts, slots, byKey, owners, mail, pendingNodes, asked, finished, wire, events, results,
                 display, values, requests, edits, answered, missed, farWrite, taken>>

\* The evaluation ends.  A script that reads mail does so until there is none, unless
\* it fails.
Finish(n, ok) ==
  /\ running[n].busy
  /\ (ok /\ "mail" \in Does[n]) => mail[n] = << >>
  /\ ok \/ n \in Failing
  /\ missed' = IF ok THEN missed ELSE missed \cup ({n} \ asked)
  /\ finished' = [finished EXCEPT ![Home[n]] = Append(@,
       [node |-> n, ok |-> ok, sends |-> running[n].sends, read |-> running[n].read])]
  /\ running' = [running EXCEPT ![n] = Idle]
  /\ UNCHANGED <<view, starts, slots, byKey, owners, mail, pendingNodes, asked, wire, events, results,
                 display, values, requests, edits, answered, farWrite, taken>>

-----------------------------------------------------------------------------
(* The owner and the transport thread of a process.                        *)

\* A failed script leaves the node's outputs and its messages are dropped; what
\* it exported and took stays so.
Apply(p) ==
  /\ finished[p] # << >>
  /\ LET r == Head(finished[p]) IN
       IF r.ok
       THEN /\ wire' = wire \cup r.sends
            /\ display' = [display EXCEPT ![r.node] = r.read]
       ELSE UNCHANGED <<wire, display>>
  /\ pendingNodes' = pendingNodes \ {Head(finished[p]).node}
  /\ finished' = [finished EXCEPT ![p] = Tail(@)]
  /\ UNCHANGED <<view, starts, slots, byKey, owners, mail, asked, running, events, results,
                 values, requests, edits, answered, missed, farWrite, taken>>

\* ExportedSlot::deliver
Delivered(p, m) == IF m.method = "set" THEN [slots EXCEPT ![p] = Written(@, m.to.pos, m.value)] ELSE slots
FarWritten(p, m) ==
  IF m.method = "set" THEN [farWrite EXCEPT ![p][m.to.pos] = Len(slots[p][m.to.pos]) + 1] ELSE farWrite
\* Mutant: the answer is the value of the object as it was exported.
FirstValue(p, m) == IF m.method = "set" THEN m.value ELSE slots[p][m.to.pos][1]
\* The value, or that it is set.
Answer(p, m) == IF m.method = "set" THEN m.value ELSE Last(slots[p][m.to.pos])

Told(p, e) == [events EXCEPT ![p] = Append(@, e)]

\* An OpDeliver is done in the transport thread, under the lock of the sessions;
\* one that finds nothing gets an empty response, which the caller ignores.
ServeCall(p, m) ==
  /\ m \in wire /\ m.kind = "call" /\ m.to.peer = p
  /\ wire' = (wire \ {m}) \cup
       IF Lookup(p, m.to) THEN {[m EXCEPT !.kind = "result", !.value = Answer(p, m)]} ELSE {}
  /\ IF Lookup(p, m.to)
     THEN slots' = Delivered(p, m) /\ farWrite' = FarWritten(p, m)
     ELSE UNCHANGED <<slots, farWrite>>
  /\ events' = Told(p, m)
  /\ UNCHANGED <<view, starts, byKey, owners, mail, pendingNodes, asked, running, finished, results,
                 display, values, requests, edits, answered, missed, taken>>

\* An OpDeliverOnly, or the response to a call, is handed to the owner.
HandOver(p, m) ==
  /\ m \in wire
  /\ \/ m.kind = "only" /\ m.to.peer = p
     \/ m.kind = "result" /\ m.from = p
  /\ wire' = wire \ {m}
  /\ events' = Told(p, m)
  /\ UNCHANGED <<view, starts, slots, byKey, owners, mail, pendingNodes, asked, running, finished, results,
                 display, values, requests, edits, answered, missed, farWrite, taken>>

\* Who is to hear of what came, and whom recompute_by_marker finds: it looks at the
\* shown canvas.
Concerned(p, what) == {n \in Nodes : Home[n] = p /\ what \in Does[n]}
Marked(p, what) == {n \in Concerned(p, what) : Sheet[n] = view[p]}

\* compute_if_ready of these nodes and of the marked ones: a node that is pending is
\* not computed again, even when its evaluation has read what was to be read.
Recompute(p, what, others) ==
  LET found == Marked(p, what) \cup others IN
  /\ asked' = asked \cup (found \ pendingNodes)
  /\ pendingNodes' = pendingNodes \cup found
  /\ missed' = (missed \ found) \cup (found \cap pendingNodes) \cup (Concerned(p, what) \ found)

Owner(p, m) == {n \in Nodes : m.to.pos \in DOMAIN owners[p] /\ owners[p][m.to.pos] = n}
\* Mutant: only the receivers are computed.
NoOwner(p, m) == {}
Woken(p, m) == Owner(p, m)

\* OCapNReceived, an OpDeliverOnly for a slot there is: the slot is set, the owner
\* gets mail, and it, on any canvas, and the receivers of the shown one are computed.
TakeDelivery(p) ==
  LET m == Head(events[p]) IN
  /\ events[p] # << >> /\ m.kind = "only"
  /\ IF Lookup(p, m.to)
     THEN /\ slots' = Delivered(p, m)
          /\ farWrite' = FarWritten(p, m)
          /\ mail' = [n \in Nodes |-> IF n \in Owner(p, m) THEN Append(mail[n], m.id) ELSE mail[n]]
          /\ Recompute(p, "receive", Woken(p, m))
     ELSE UNCHANGED <<slots, farWrite, mail, pendingNodes, asked, missed>>
  /\ events' = [events EXCEPT ![p] = Tail(@)]
  /\ UNCHANGED <<view, starts, byKey, owners, running, finished, wire, results, display,
                 values, requests, edits, answered, taken>>

\* OCapNReceived, an OpDeliver: it is done already.
NoticeCall(p) ==
  /\ events[p] # << >> /\ Head(events[p]).kind = "call"
  /\ Recompute(p, "receive", {})
  /\ events' = [events EXCEPT ![p] = Tail(@)]
  /\ UNCHANGED <<view, starts, slots, byKey, owners, mail, running, finished, wire, results,
                 display, values, requests, edits, answered, farWrite, taken>>

\* OCapNCallResult
TakeResult(p) ==
  LET m == Head(events[p]) IN
  /\ events[p] # << >> /\ m.kind = "result"
  /\ results' = [results EXCEPT ![p] =
                   [k \in DOMAIN @ \cup {m.id} |-> IF k = m.id THEN m.value ELSE @[k]]]
  /\ answered' = answered \cup {[id |-> m.id, to |-> m.to, value |-> m.value, known |-> m.known]}
  /\ Recompute(p, "call", {})
  /\ events' = [events EXCEPT ![p] = Tail(@)]
  /\ UNCHANGED <<view, starts, slots, byKey, owners, mail, running, finished, wire,
                 display, values, requests, edits, farWrite, taken>>

\* The user changes the code of a node: compute_node_debounced, pending or not.
EditScript(n) ==
  /\ edits < MaxEdits
  /\ edits' = edits + 1
  /\ asked' = asked \cup {n}
  /\ pendingNodes' = pendingNodes \cup {n}
  /\ missed' = missed \ {n}
  /\ UNCHANGED <<view, starts, slots, byKey, owners, mail, running, finished, wire, events,
                 results, display, values, requests, answered, farWrite, taken>>

\* The user shows another canvas: nothing is computed for that.
ShowCanvas(p, c) ==
  /\ view' = [view EXCEPT ![p] = c]
  /\ UNCHANGED <<starts, slots, byKey, owners, mail, pendingNodes, asked, running, finished, wire, events,
                 results, display, values, requests, edits, answered, missed, farWrite, taken>>

\* A process stops and starts, as somebody else for all others.
RestartPeer(p) ==
  LET own == {n \in Nodes : Home[n] = p}
      Renewed(f, x) == [n \in Nodes |-> IF n \in own THEN x ELSE f[n]]
      Empty(f) == [f EXCEPT ![p] = << >>]
  IN
  /\ p \in Rebooting /\ starts[p] = 0
  /\ starts' = [starts EXCEPT ![p] = 1]
  /\ \E c \in Sheets : view' = [view EXCEPT ![p] = c]
  /\ slots' = Empty(slots) /\ byKey' = Empty(byKey) /\ owners' = Empty(owners)
  /\ farWrite' = Empty(farWrite) /\ finished' = Empty(finished)
  /\ events' = Empty(events) /\ results' = Empty(results)
  /\ mail' = Renewed(mail, << >>) /\ asked' = asked \cup own
  /\ pendingNodes' = pendingNodes \cup own /\ missed' = missed \ own
  /\ running' = Renewed(running, Idle) /\ display' = Renewed(display, NothingShown)
  /\ wire' = {m \in wire : m.from # p /\ m.to.peer # p}
  /\ UNCHANGED <<values, requests, edits, answered, taken>>

OcapnNext ==
  \/ \E n \in Nodes :
       \/ Evaluate(n) \/ Export(n) \/ ExportNode(n) \/ TakeMail(n) \/ EditScript(n)
       \/ \E pos \in 1 .. MaxValues : ReceiveSlot(n, pos)
       \/ \E kind \in {"call", "only"}, method \in {"get", "set"}, to \in Swiss :
            Request(n, kind, method, to)
       \/ \E id \in RequestIds : ReadResult(n, id)
       \/ \E ok \in BOOLEAN : Finish(n, ok)
  \/ \E p \in Machines :
       \/ Apply(p) \/ TakeDelivery(p) \/ NoticeCall(p) \/ TakeResult(p) \/ RestartPeer(p)
       \/ \E c \in Sheets : ShowCanvas(p, c)
       \/ \E m \in wire : ServeCall(p, m) \/ HandOver(p, m)

OcapnSpec == OcapnInit /\ [][OcapnNext]_ocapnVars

-----------------------------------------------------------------------------
(***************************************************************************)
(* Properties                                                              *)
(***************************************************************************)

\* Type invariant; every key and every owner is that of an export, and two keys
\* never share one.
OcapnTypeOK ==
  \A p \in Machines :
    /\ \A k \in DOMAIN byKey[p] :
         /\ byKey[p][k] \in 1 .. Len(slots[p])
         /\ owners[p][byKey[p][k]] = k[1]
         /\ \A l \in DOMAIN byKey[p] : byKey[p][k] = byKey[p][l] => k = l
    /\ DOMAIN owners[p] \subseteq 1 .. Len(slots[p])
    /\ Len(farWrite[p]) = Len(slots[p])
    /\ \A n \in Nodes : Len(mail[n]) <= MaxRequests * Cardinality(Nodes)

\* The k-th export of every evaluation of a node has the locator of its k-th
\* export before, and no other ("Generate stable key from node_id + export
\* counter", bridge.rs:643): locators given away stay good, and re-evaluation
\* does not make slots without end.
LocatorsAreStable ==
  [][\A n \in Nodes :
       LET p == Home[n] IN
       (running[n].busy /\ running'[n].busy /\ running'[n].made > running[n].made) =>
         (Len(slots'[p]) > Len(slots[p]) <=>
            Cardinality({pos \in DOMAIN owners[p] : owners[p][pos] = n}) <= running[n].made)]_ocapnVars

\* A caller never reads a slot as it was before something it knew already: the
\* answers of one locator follow the writes (transport.rs:296 answers under the
\* lock under which bridge.rs:662 exports).
AnswersAreFresh ==
  \A p \in Machines, a \in answered :
    (a.to.peer = p /\ a.to.start = starts[p]) =>
      \A v \in a.known : Upto(slots[p][a.to.pos], v) <= Upto(slots[p][a.to.pos], a.value)

QuietPeer(p) ==
  /\ finished[p] = << >> /\ events[p] = << >>
  /\ \A n \in Nodes : Home[n] = p => n \notin asked /\ ~running[n].busy

\* When a process has nothing to do, a node that reads a slot shows what came
\* last from another process, or what the exporting script put there since,
\* unless it missed it.
ReceiversAreCurrent ==
  \A n \in Nodes :
    LET p == Home[n] d == display[n] IN
    (QuietPeer(p) /\ n \notin missed /\ d.pos # 0) => Upto(slots[p][d.pos], d.value) >= farWrite[p][d.pos]

\* A message to a slot is in one mailbox once, and when a process has nothing to do
\* a script that reads mail has read all of it, unless it missed some.
MailIsRead ==
  \A n \in Nodes :
    /\ \A j, k \in 1 .. Len(taken[n] \o mail[n]) :
         (taken[n] \o mail[n])[j] = (taken[n] \o mail[n])[k] => j = k
    /\ (QuietPeer(Home[n]) /\ n \notin missed /\ "mail" \in Does[n]) => mail[n] = << >>

\* When a process has nothing to do, a node that asked for the result of a call
\* shows it, unless the number of the call does not survive the conversion to a
\* float (bridge.rs:871), or the node missed it.
CallersSeeTheirAnswers ==
  \A n \in Nodes, a \in answered :
    LET d == display[n] IN
    (QuietPeer(Home[n]) /\ n \notin missed /\ d.id = a.id /\ a.id \in DOMAIN results[Home[n]]) =>
      d.value = IF Rounded(a.id) = a.id THEN a.value ELSE 0

\* What came from another process has reached its script when the process has
\* nothing to do: values of slots, messages, and results of calls.  A node misses
\* what comes while it is pending (app.rs:309), what comes while another canvas is
\* shown (app.rs:402), and what its script read before it failed, until somebody
\* asks for it again; a message to its own slot wakes it on every canvas.
QuietMeansReceived ==
  OcapnTypeOK /\ ReceiversAreCurrent /\ MailIsRead /\ CallersSeeTheirAnswers
=============================================================================
