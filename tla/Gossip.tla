------------------------------- MODULE Gossip -------------------------------
(***************************************************************************)
(* Values published over gossipsub: sequence numbers of the publisher,     *)
(* forwarding by every process, and the filter of stale values in          *)
(* run_swarm (src/net/src/transport.rs).                                   *)
(*                                                                         *)
(* The library delivers a message once to each process, on the link where  *)
(* it comes first, and forwards it to the other neighbours; links are      *)
(* first-in first-out and lose messages only when an end restarts.         *)
(***************************************************************************)
EXTENDS Naturals, Sequences, FiniteSets

CONSTANTS
  Procs,       \* processes
  Links,       \* pairs of connected processes, symmetric
  Channels,    \* "canvas/module"
  Publishers,  \* Publishers[ch]: the processes that publish on ch
  MaxSeq,      \* bound: messages of one life of a process
  Restarting,  \* the processes that restart
  MaxRestarts, \* bound: restarts of one process
  NoMessage

ASSUME GossipAssumption ==
  /\ Links \subseteq Procs \X Procs
  /\ \A i, j \in Procs : <<i, j>> \in Links => <<j, i>> \in Links /\ i # j
  /\ Publishers \in [Channels -> SUBSET Procs]
  /\ Restarting \subseteq Procs
  /\ MaxSeq \in Nat
  /\ MaxRestarts \in Nat

\* A process has a new identity in every life (with_new_identity).
Id == Procs \X (0 .. MaxRestarts)

\* A WireMessage, with the identity that signed it.
Message == [src : Id, channel : Channels, seq : 1 .. MaxSeq]

ASSUME NoMessageAssumption == NoMessage \notin Message

VARIABLES
  life,     \* restarts of each process
  seq,      \* messages published in this life
  latest,   \* latest_seq: the largest number taken from a neighbour on a channel
  shown,    \* the values last handed to the owner, on each channel
  seen,     \* (library) messages delivered to the process
  queue,    \* (library) messages on the links
  newest,   \* the last message published on each channel
  owed      \* the processes that are to get it

gossipVars == <<life, seq, latest, shown, seen, queue, newest, owed>>

Me(i) == <<i, life[i]>>
Neighbours(i) == {j \in Procs : <<i, j>> \in Links}

GossipInit ==
  /\ life = [i \in Procs |-> 0]
  /\ seq = [i \in Procs |-> 0]
  /\ latest = [i \in Procs |-> [k \in Id \X Channels |-> 0]]
  /\ shown = [i \in Procs |-> [ch \in Channels |-> NoMessage]]
  /\ seen = [i \in Procs |-> {}]
  /\ queue = [l \in Links |-> << >>]
  /\ newest = [ch \in Channels |-> NoMessage]
  /\ owed = [ch \in Channels |-> {}]

\* The library sends m of process i to its neighbours in J.
SentTo(q, i, J, m) ==
  [l \in Links |-> IF l[1] = i /\ l[2] \in J THEN Append(q[l], m) ELSE q[l]]

\* NetCommand::Publish
Publish(i, ch) ==
  /\ i \in Publishers[ch]
  /\ seq[i] < MaxSeq
  /\ seq' = [seq EXCEPT ![i] = @ + 1]
  /\ LET m == [src |-> Me(i), channel |-> ch, seq |-> seq[i] + 1] IN
     /\ queue' = SentTo(queue, i, Neighbours(i), m)
     /\ seen' = [seen EXCEPT ![i] = @ \cup {m}]
     /\ newest' = [newest EXCEPT ![ch] = m]
     /\ owed' = [owed EXCEPT ![ch] = Procs \ {i}]
  /\ UNCHANGED <<life, latest, shown>>

\* The key of latest_seq: propagation_source, not the message's source.
Key(j, m) == <<Me(j), m.channel>>

\* Mutant: a message is taken when its number is smaller than the last one.
Older(n, prev) == n < prev
Newer(n, prev) == n > prev

\* The library takes the first message of the link from j.  It is new to the
\* process: it is forwarded and run_swarm hands it to the owner, unless a message
\* with a number as large came on this channel from the same neighbour.
Receive(j, i) ==
  /\ queue[<<j, i>>] # << >>
  /\ LET m == Head(queue[<<j, i>>])
         rest == [queue EXCEPT ![<<j, i>>] = Tail(@)]
     IN
     IF m \in seen[i]
     THEN /\ queue' = rest
          /\ UNCHANGED <<latest, shown, seen>>
     ELSE /\ seen' = [seen EXCEPT ![i] = @ \cup {m}]
          /\ queue' = SentTo(rest, i, {k \in Neighbours(i) \ {j} : Me(k) # m.src}, m)
          /\ IF Newer(m.seq, latest[i][Key(j, m)])
             THEN /\ latest' = [latest EXCEPT ![i][Key(j, m)] = m.seq]
                  /\ shown' = [shown EXCEPT ![i][m.channel] = m]
             ELSE UNCHANGED <<latest, shown>>
  /\ UNCHANGED <<life, seq, newest, owed>>

\* The messages on the links of i.
Carried(i) == UNION {{queue[l][k] : k \in DOMAIN queue[l]} : l \in {l \in Links : i \in {l[1], l[2]}}}

\* A process stops and starts: its memory and its connections are new.  It is
\* owed nothing from before, and nobody is owed a message that may be lost.
Restart(i) ==
  /\ i \in Restarting
  /\ life[i] < MaxRestarts
  /\ life' = [life EXCEPT ![i] = @ + 1]
  /\ seq' = [seq EXCEPT ![i] = 0]
  /\ latest' = [latest EXCEPT ![i] = [k \in Id \X Channels |-> 0]]
  /\ shown' = [shown EXCEPT ![i] = [ch \in Channels |-> NoMessage]]
  /\ seen' = [seen EXCEPT ![i] = {}]
  /\ queue' = [l \in Links |-> IF i \in {l[1], l[2]} THEN << >> ELSE queue[l]]
  /\ owed' = [ch \in Channels |->
                IF newest[ch] \in Carried(i) THEN {} ELSE owed[ch] \ {i}]
  /\ UNCHANGED newest

GossipNext ==
  \E i \in Procs :
    \/ \E ch \in Channels : Publish(i, ch)
    \/ \E j \in Neighbours(i) : Receive(j, i)
    \/ Restart(i)

GossipSpec == GossipInit /\ [][GossipNext]_gossipVars

-----------------------------------------------------------------------------
(***************************************************************************)
(* Properties                                                              *)
(***************************************************************************)

\* Type invariant; latest_seq never runs ahead of the messages received.
GossipTypeOK ==
  /\ life \in [Procs -> 0 .. MaxRestarts]
  /\ seq \in [Procs -> 0 .. MaxSeq]
  /\ \A i \in Procs :
       /\ seen[i] \subseteq Message
       /\ \A k \in Id \X Channels :
            \/ latest[i][k] = 0
            \/ \E m \in seen[i] : m.channel = k[2] /\ m.seq = latest[i][k]
       /\ \A ch \in Channels : shown[i][ch] \in seen[i] \cup {NoMessage}
  /\ \A l \in Links : queue[l] \in Seq(Message)
  /\ newest \in [Channels -> Message \cup {NoMessage}]
  /\ owed \in [Channels -> SUBSET Procs]

\* Once the links are empty, every process that was up when a channel's newest
\* values were published shows those, whichever way they came (transport.rs, a
\* test: "B did not receive values from A").  It is not so when a process
\* restarts on a cycle of links.  A publisher's numbers start again at 1, while what
\* a forwarder still sends of its former life has larger ones.  A forwarder loses
\* a message it had still to pass on, which a neighbour then gets late, over another
\* link, where it counts as new because the newer one came from somebody else.
PublishedIsReceived ==
  /\ GossipTypeOK
  /\ (\A l \in Links : queue[l] = << >>) =>
       \A ch \in Channels : \A i \in owed[ch] : shown[i][ch] = newest[ch]
=============================================================================
