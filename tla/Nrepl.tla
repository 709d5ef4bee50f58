------------------------------- MODULE Nrepl -------------------------------
(***************************************************************************)
(* The nREPL service of the headless peer: clients that give up after 5 s  *)
(* (nrepl/src/client.rs, used by the agent's tools), one server thread for *)
(* each connection (nrepl/src/server.rs, session.rs), the evaluator that   *)
(* reads the graphs itself and sends commands to the owner loop            *)
(* (src/nrepl_eval.rs, src/nrepl_commands.rs), and the owner that runs     *)
(* them (src/graph_runtime.rs).                                            *)
(*                                                                         *)
(* What a request asks for is chosen when its server thread reads it.  All *)
(* nodes of a canvas here have the same label.  A node's code is named by  *)
(* the request that brought it.                                            *)
(***************************************************************************)
EXTENDS Naturals, Sequences, FiniteSets, SequencesExt

CONSTANTS
  Clients,
  Uses,        \* what the clients may ask for, and (bound) how many times
  Canvas,      \* names of canvases
  Main,        \* the canvas that is there from the start
  None

SessionOps == {"clone", "close", "eval"}
\* The operations that read the graphs on the server thread.
ReadOps == {"load-file", "ns-list", "completions", "info", "switch-ns"}
\* The operations that become an NreplCommand.
CommandOps == {"create-canvas", "list-canvases", "create-node", "delete-node",
               "update-node", "node-state", "compute"}

ASSUME ConstantsAssumption ==
  /\ Uses \subseteq [Clients -> [ops : SUBSET (SessionOps \cup ReadOps \cup CommandOps), most : Nat]]
  /\ Main \in Canvas
  /\ None \notin Nat

VARIABLES
  uses,     \* what each client asks for in this behaviour
  sent,     \* requests that each client has sent
  waiting,  \* the clients that wait for an answer
  got,      \* answers that each client has taken
  gone,     \* the clients that have closed their connection
  read,     \* requests that each server thread has read
  serving,  \* what each server thread is doing
  answers,  \* the answers on each connection
  channel,  \* the command channel
  owner,    \* the command that the owner is running
  graphs,   \* all_graphs: the nodes and next_node_id of each canvas
  pending,  \* pending_nodes
  given,    \* sessions handed out so far (SessionManager.counter)
  open,     \* the sessions of the SessionManager
  envs,     \* the evaluator's sessions: has switch-ns been called
  reply     \* the owner's last reply to a command of each client

net   == <<uses, sent, waiting, got, gone>>
state == <<graphs, pending>>
sess  == <<given, open, envs>>
vars  == <<net, read, serving, answers, channel, owner, state, sess, reply>>

Idle == [phase |-> "idle", op |-> None, at |-> None]

\* An answer, or a reply of the owner: whether it is one of success, and what
\* it says.
Yes(val) == [ok |-> TRUE, val |-> val]
No == [ok |-> FALSE, val |-> None]

EmptyGraph == [nodes |-> {}, next |-> 1]

Init ==
  /\ uses \in Uses
  /\ sent = [c \in Clients |-> 0]
  /\ waiting = {}
  /\ got = [c \in Clients |-> 0]
  /\ gone = {}
  /\ read = [c \in Clients |-> 0]
  /\ serving = [c \in Clients |-> Idle]
  /\ answers = [c \in Clients |-> << >>]
  /\ channel = << >>
  /\ owner = None
  /\ graphs = [m \in {Main} |-> EmptyGraph]
  /\ pending = {}
  /\ given = 0
  /\ open = {}
  /\ envs = [s \in {} |-> FALSE]
  /\ reply = [c \in Clients |-> [num |-> 0, ok |-> FALSE, val |-> None]]

-----------------------------------------------------------------------------
(***************************************************************************)
(* Clients                                                                 *)
(***************************************************************************)

\* Client.send; the caller waits in recv_until_done.
Send(c) ==
  /\ c \notin waiting \cup gone
  /\ sent[c] < uses[c].most
  /\ sent' = [sent EXCEPT ![c] = @ + 1]
  /\ waiting' = waiting \cup {c}
  /\ UNCHANGED <<uses, got, gone, read, serving, answers, channel, owner, state, sess, reply>>

\* recv_until_done takes the next answer, whatever request it answers.
TakeAnswer(c) ==
  /\ c \in waiting
  /\ answers[c] # << >>
  /\ answers' = [answers EXCEPT ![c] = Tail(@)]
  /\ got' = [got EXCEPT ![c] = @ + 1]
  /\ waiting' = waiting \ {c}
  /\ UNCHANGED <<uses, sent, gone, read, serving, channel, owner, state, sess, reply>>

\* The read timeout of the client's socket.
GiveUp(c) ==
  /\ c \in waiting
  /\ waiting' = waiting \ {c}
  /\ UNCHANGED <<uses, sent, got, gone, read, serving, answers, channel, owner, state, sess, reply>>

Leave(c) ==
  /\ c \notin gone
  /\ gone' = gone \cup {c}
  /\ waiting' = waiting \ {c}
  /\ UNCHANGED <<uses, sent, got, read, serving, answers, channel, owner, state, sess, reply>>

-----------------------------------------------------------------------------
(***************************************************************************)
(* Server threads                                                          *)
(***************************************************************************)

\* handle_client writes the answer to the request at hand and goes back to
\* reading.
Answer(c, r) ==
  answers' = [answers EXCEPT ![c] = Append(@,
    [num |-> read[c], op |-> serving[c].op, ok |-> r.ok, val |-> r.val])]

Becomes(c, phase, op, at) ==
  serving' = [serving EXCEPT ![c] = [phase |-> phase, op |-> op, at |-> at]]

\* The canvases that a request for op names.
Places(op) == IF op \in {"clone", "close", "eval", "list-canvases"}
              THEN {None} ELSE Canvas

\* handle_client decodes the next request, and handle_message looks at its op.
ReadRequest(c) ==
  /\ serving[c] = Idle
  /\ read[c] < sent[c]
  /\ c \notin gone
  /\ read' = [read EXCEPT ![c] = @ + 1]
  /\ \E op \in uses[c].ops : \E at \in Places(op) : Becomes(c, "serve", op, at)
  /\ UNCHANGED <<net, answers, channel, owner, state, sess, reply>>

\* The thread's first step for a request that asks for op.
Serves(c, op) ==
  /\ serving[c].phase = "serve"
  /\ serving[c].op = op

Counter == given

\* create_session
Clone(c) ==
  /\ Serves(c, "clone")
  /\ given' = Counter + 1
  /\ open' = open \cup {Counter + 1}
  /\ Answer(c, Yes(<<"session", Counter + 1>>))
  /\ Becomes(c, "idle", None, None)
  /\ UNCHANGED <<net, read, channel, owner, state, envs, reply>>

\* close_session: the evaluator keeps its state of the session.
Close(c, s) ==
  /\ Serves(c, "close")
  /\ open' = open \ {s}
  /\ Answer(c, Yes(None))
  /\ Becomes(c, "idle", None, None)
  /\ UNCHANGED <<net, read, channel, owner, state, given, envs, reply>>

\* get_or_create_session
EnvsWith(s) == [x \in DOMAIN envs \cup {s} |-> x \in DOMAIN envs /\ envs[x]]

\* eval, refused for a session that the SessionManager does not know.  What the
\* code evaluates to is left out: it answers a value or an exception.
Eval(c, s) ==
  /\ Serves(c, "eval")
  /\ \/ /\ s \notin open
        /\ Answer(c, No)
        /\ UNCHANGED envs
     \/ /\ s \in open
        /\ envs' = EnvsWith(s)
        /\ Answer(c, Yes(None)) \/ Answer(c, No)
  /\ Becomes(c, "idle", None, None)
  /\ UNCHANGED <<net, read, channel, owner, state, given, open, reply>>

\* The thread goes through the graphs itself, with no word to the owner.
StartReading(c) ==
  /\ serving[c].phase = "serve"
  /\ serving[c].op \in ReadOps
  /\ Becomes(c, IF owner = None THEN "reading" ELSE "torn",
             serving[c].op, serving[c].at)
  /\ UNCHANGED <<net, read, answers, channel, owner, state, sess, reply>>

Reading(c, op) ==
  /\ serving[c].phase \in {"reading", "torn"}
  /\ serving[c].op = op

\* What a reader finds: whether the canvas has a node.  While the owner writes,
\* it may find anything.
Finds(c) ==
  IF serving[c].phase = "torn" THEN BOOLEAN
  ELSE {serving[c].at \in DOMAIN graphs /\ graphs[serving[c].at].nodes # {}}

\* ns_list
NsList(c) ==
  /\ Reading(c, "ns-list")
  /\ \E found \in Finds(c) : Answer(c, Yes(<<"found", found>>))
  /\ Becomes(c, "idle", None, None)
  /\ UNCHANGED <<net, read, channel, owner, state, sess, reply>>

\* completions has always an answer, info may have none.
LookUp(c) ==
  /\ \/ Reading(c, "completions") /\ Answer(c, Yes(None))
     \/ Reading(c, "info") /\ (Answer(c, Yes(None)) \/ Answer(c, No))
  /\ Becomes(c, "idle", None, None)
  /\ UNCHANGED <<net, read, channel, owner, state, sess, reply>>

\* switch_ns of a namespace that exists, in a session where something was
\* evaluated before; the SessionManager is not asked.
SwitchNs(c, s) ==
  /\ Reading(c, "switch-ns")
  /\ \E found \in Finds(c) :
       LET ok == found /\ s \in DOMAIN envs IN
       /\ envs' = IF ok THEN [envs EXCEPT ![s] = TRUE] ELSE envs
       /\ Answer(c, IF ok THEN Yes(None) ELSE No)
  /\ Becomes(c, "idle", None, None)
  /\ UNCHANGED <<net, read, channel, owner, state, given, open, reply>>

\* load_file: the file of a node that was found is written (see Storage), and
\* the text is evaluated; again the SessionManager is not asked.
LoadFile(c, s) ==
  /\ Reading(c, "load-file")
  /\ envs' = EnvsWith(s)
  /\ Answer(c, Yes(None)) \/ Answer(c, No)
  /\ Becomes(c, "idle", None, None)
  /\ UNCHANGED <<net, read, channel, owner, state, given, open, reply>>

\* send_command puts the command into the channel and waits for its reply.
SendCommand(c) ==
  /\ serving[c].phase = "serve"
  /\ serving[c].op \in CommandOps
  /\ channel' = Append(channel, [client |-> c, num |-> read[c],
                                 op |-> serving[c].op, at |-> serving[c].at])
  /\ Becomes(c, "await", serving[c].op, serving[c].at)
  /\ UNCHANGED <<net, read, answers, owner, state, sess, reply>>

\* Mutant: any reply that comes to the connection is taken.
AnyReply(c) == reply[c].num > 0
\* The reply is to the request at hand: it comes on a channel of its own.
HasReply(c) == reply[c].num = read[c]

TakeReply(c) ==
  /\ serving[c].phase = "await"
  /\ HasReply(c)
  /\ Answer(c, [ok |-> reply[c].ok, val |-> reply[c].val])
  /\ Becomes(c, "idle", None, None)
  /\ UNCHANGED <<net, read, channel, owner, state, sess, reply>>

\* What is answered when no reply came: list_canvases has no canvases,
\* node_state no such node, everything else failed.
Unanswered(op) == IF op = "list-canvases" THEN Yes(<<"canvases", {}>>) ELSE No

\* Mutants: the thread waits for ever, or waits on after it has answered.
NeverTimesOut(c) == FALSE
StillAwaits(c) == UNCHANGED serving
TimesOut(c) == serving[c].phase = "await"
AfterTimeout(c) == Becomes(c, "idle", None, None)

\* recv_timeout: 5 s went by.  The command stays in the channel.
CommandTimeout(c) ==
  /\ serving[c].phase = "await"
  /\ TimesOut(c)
  /\ Answer(c, Unanswered(serving[c].op))
  /\ AfterTimeout(c)
  /\ UNCHANGED <<net, read, channel, owner, state, sess, reply>>

-----------------------------------------------------------------------------
(***************************************************************************)
(* The owner                                                               *)
(***************************************************************************)

\* Mutant: the newest command is taken.
NewestCommand == Len(channel)
OldestCommand == 1

\* poll_nrepl_commands takes a command, and writes the graphs from here on;
\* whoever reads them then finds anything.
PollCommand ==
  /\ owner = None
  /\ channel # << >>
  /\ owner' = channel[OldestCommand]
  /\ channel' = RemoveAt(channel, OldestCommand)
  /\ serving' = [c \in Clients |-> IF serving[c].phase = "reading"
                                   THEN [serving[c] EXCEPT !.phase = "torn"]
                                   ELSE serving[c]]
  /\ UNCHANGED <<net, read, answers, state, sess, reply>>

\* reply.send, into a channel whose receiver may be gone.
Reply(r) ==
  /\ reply' = [reply EXCEPT ![owner.client] = [num |-> owner.num, ok |-> r.ok, val |-> r.val]]
  /\ owner' = None

Runs(op) == owner # None /\ owner.op = op
Code == <<owner.client, owner.num>>
Fails == Reply(No) /\ UNCHANGED state

CreateCanvas ==
  /\ Runs("create-canvas")
  /\ IF owner.at \notin DOMAIN graphs
     THEN /\ graphs' = [m \in DOMAIN graphs \cup {owner.at} |->
                          IF m = owner.at THEN EmptyGraph ELSE graphs[m]]
          /\ Reply(Yes(None))
          /\ UNCHANGED pending
     ELSE Fails
  /\ UNCHANGED <<net, read, serving, answers, channel, sess>>

ListCanvases ==
  /\ Runs("list-canvases")
  /\ Reply(Yes(<<"canvases", DOMAIN graphs>>))
  /\ UNCHANGED <<net, read, serving, answers, channel, state, sess>>

HasCanvas == owner.at \in DOMAIN graphs
Graph == graphs[owner.at]
\* The nodes among which a command finds its node, in hash order.
Found == IF HasCanvas THEN Graph.nodes ELSE {}

\* add_node
With(g, code) == [nodes |-> g.nodes \cup {[id |-> g.next, code |-> code]},
                  next |-> g.next + 1]

\* cmd_create_node, also when there is a node of that label.
CreateNode ==
  /\ Runs("create-node")
  /\ IF HasCanvas
     THEN /\ graphs' = [graphs EXCEPT ![owner.at] = With(@, Code)]
          /\ Reply(Yes(<<"id", Graph.next>>))
          /\ UNCHANGED pending
     ELSE Fails
  /\ UNCHANGED <<net, read, serving, answers, channel, sess>>

\* cmd_delete_node: pending_nodes stays as it is.
DeleteNode ==
  /\ Runs("delete-node")
  /\ \/ Found = {} /\ Fails
     \/ \E n \in Found :
          /\ graphs' = [graphs EXCEPT ![owner.at].nodes = @ \ {n}]
          /\ Reply(Yes(None))
          /\ UNCHANGED pending
  /\ UNCHANGED <<net, read, serving, answers, channel, sess>>

\* cmd_update_node
UpdateNode ==
  /\ Runs("update-node")
  /\ \/ Found = {} /\ Fails
     \/ \E n \in Found :
          /\ graphs' = [graphs EXCEPT ![owner.at].nodes =
                          (@ \ {n}) \cup {[n EXCEPT !.code = Code]}]
          /\ Reply(Yes(None))
          /\ UNCHANGED pending
  /\ UNCHANGED <<net, read, serving, answers, channel, sess>>

\* cmd_node_state
NodeState ==
  /\ Runs("node-state")
  /\ \/ Found = {} /\ Reply(No)
     \/ \E n \in Found : Reply(Yes(<<"code", n.code>>))
  /\ UNCHANGED <<net, read, serving, answers, channel, state, sess>>

\* cmd_compute_node: compute_if_ready, which skips a pending node.
ComputeNode ==
  /\ Runs("compute")
  /\ \/ Found = {} /\ Fails
     \/ \E n \in Found : /\ pending' = pending \cup {<<owner.at, n.id>>}
                         /\ Reply(Yes(None))
                         /\ UNCHANGED graphs
  /\ UNCHANGED <<net, read, serving, answers, channel, sess>>

RunCommand ==
  \/ CreateCanvas \/ ListCanvases \/ CreateNode \/ DeleteNode
  \/ UpdateNode \/ NodeState \/ ComputeNode

\* The owner collects the result of a node.
NodeComputed(p) ==
  /\ owner = None
  /\ pending' = pending \ {p}
  /\ UNCHANGED <<net, read, serving, answers, channel, owner, graphs, sess, reply>>

-----------------------------------------------------------------------------

Ask(c) == Send(c) \/ TakeAnswer(c) \/ GiveUp(c) \/ Leave(c)

\* The sessions that clients name: those handed out, and no session at all.
Named == 0 .. given

InSession(c) ==
  \E s \in Named : Close(c, s) \/ Eval(c, s) \/ SwitchNs(c, s) \/ LoadFile(c, s)

Serve(c) ==
  \/ ReadRequest(c) \/ Clone(c) \/ InSession(c)
  \/ StartReading(c) \/ NsList(c) \/ LookUp(c)
  \/ SendCommand(c) \/ TakeReply(c) \/ CommandTimeout(c)

OwnerActs == PollCommand \/ RunCommand \/ \E p \in pending : NodeComputed(p)

Next == (\E c \in Clients : Ask(c) \/ Serve(c)) \/ OwnerActs

Spec == Init /\ [][Next]_vars

\* Server threads run and their timeouts come.  The owner promises nothing: a
\* frame may take as long as it likes.
FairSpec == Spec /\ \A c \in Clients : WF_vars(Serve(c))

-----------------------------------------------------------------------------
(***************************************************************************)
(* Properties                                                              *)
(***************************************************************************)

\* Type invariant.
TypeOK ==
  /\ uses \in Uses
  /\ \A c \in Clients : sent[c] <= uses[c].most
  /\ waiting \subseteq Clients /\ gone \subseteq Clients
  /\ \A c \in Clients :
       /\ serving[c].phase \in {"idle", "serve", "reading", "torn", "await"}
       /\ serving[c].phase = "idle" => serving[c] = Idle
       /\ reply[c].num \in 0 .. read[c]
  /\ DOMAIN graphs \subseteq Canvas
  /\ \A m \in DOMAIN graphs : \A n \in graphs[m].nodes :
       n.id \in 1 .. graphs[m].next - 1 /\ n.code \in Clients \X Nat
  /\ open \subseteq 1 .. given
  /\ DOMAIN envs \subseteq 0 .. given

\* On each connection every request is answered once and in turn: the answers
\* under way, the request at hand and those not read yet are the requests
\* after the ones whose answers were taken.  (A client that gave up takes the
\* answer to an earlier request for that to its last, as many requests back as
\* it gave up on.)
AnswersInTurn ==
  /\ TypeOK
  /\ \A c \in Clients :
       LET underWay == [i \in DOMAIN answers[c] |-> answers[c][i].num]
           atHand == IF serving[c] = Idle THEN << >> ELSE <<read[c]>>
       IN underWay \o atHand =
            [i \in 1 .. read[c] - got[c] |-> got[c] + i]

\* A command is run at most once, and the commands of a client are run in the
\* order in which it asked for them, also those that timed out: so what a
\* client reads has in it what the same client wrote before.
RunOnceInOrder ==
  [][\A c \in Clients :
       owner # None /\ owner.client = c /\ owner' = None =>
         reply'[c].num > reply[c].num]_vars

\* An answer that a command succeeded is the owner's reply to that command: to
\* create-node the number of the node it made, to node-state the code it saw.
\* (The empty list of canvases is answered when the owner was not heard.)
SuccessIsTheOwners ==
  [][\A c \in Clients :
       LET a == Last(answers'[c]) IN
       /\ Len(answers'[c]) > Len(answers[c])
       /\ a.op \in CommandOps /\ a.ok
       /\ a.val # <<"canvases", {}>>
       => reply[c] = [num |-> a.num, ok |-> TRUE, val |-> a.val]]_vars

\* However long the owner takes, every server thread comes to have answered all
\* that its client sent, unless the client left.
EveryRequestAnswered ==
  \A c \in Clients :
    []<>(c \in gone \/ (read[c] = sent[c] /\ serving[c] = Idle))
=============================================================================
