-------------------------- MODULE ServicesProofs --------------------------
(***************************************************************************)
(* Proofs about Nrepl, for any clients, canvases and requests, and about   *)
(* Agent, for any number of turns and of calls in one.                     *)
(***************************************************************************)
EXTENDS Nrepl, Agent, FiniteSetTheorems, SequenceTheorems, TLAPS

-----------------------------------------------------------------------------
(***************************************************************************)
(* The invariant                                                           *)
(***************************************************************************)

Ops == SessionOps \cup ReadOps \cup CommandOps
CodeOf == Clients \X Nat

\* What answers and replies say.
Val == {None} \cup ({"session", "id"} \X Nat) \cup ({"found"} \X BOOLEAN)
       \cup ({"canvases"} \X SUBSET Canvas) \cup ({"code"} \X CodeOf)
AnswerOf == [num : Nat, op : Ops \cup {None}, ok : BOOLEAN, val : Val]
ReplyOf == [num : Nat, ok : BOOLEAN, val : Val]
Cmd == [client : Clients, num : Nat, op : CommandOps, at : Canvas \cup {None}]
Task == [phase : {"idle", "serve", "reading", "torn", "await"},
         op : Ops \cup {None}, at : Canvas \cup {None}]
GraphOf == [nodes : SUBSET [id : Nat, code : CodeOf], next : Nat]

NetTypes ==
  /\ uses \in Uses
  /\ sent \in [Clients -> Nat] /\ got \in [Clients -> Nat]
  /\ waiting \in SUBSET Clients /\ gone \in SUBSET Clients
  /\ \A c \in Clients : sent[c] <= uses[c].most

ServerTypes ==
  /\ read \in [Clients -> Nat]
  /\ serving \in [Clients -> Task]
  /\ answers \in [Clients -> Seq(AnswerOf)]
  /\ channel \in Seq(Cmd)
  /\ owner \in Cmd \cup {None}
  /\ reply \in [Clients -> ReplyOf]

\* A thread that is at work knows for what, and at which canvas.
TasksArePlaced ==
  /\ \A c \in Clients : IF serving[c].phase = "idle" THEN serving[c] = Idle
                        ELSE serving[c].op \in Ops /\ serving[c].at \in Places(serving[c].op)
  /\ \A i \in 1 .. Len(channel) : channel[i].at \in Places(channel[i].op)
  /\ owner # None => owner.at \in Places(owner.op)

GraphsAreSound ==
  /\ DOMAIN graphs \in SUBSET Canvas
  /\ graphs \in [DOMAIN graphs -> GraphOf]
  /\ \A m \in DOMAIN graphs : /\ graphs[m].next >= 1
                              /\ \A n \in graphs[m].nodes : n.id \in 1 .. graphs[m].next - 1

SessionsAreGiven ==
  given \in Nat /\ open \in SUBSET (1 .. given) /\ DOMAIN envs \in SUBSET (0 .. given)

\* The request at hand is the one after those answered.
Busy(c) == IF serving[c].phase = "idle" THEN 0 ELSE 1
RequestsInTurn ==
  \A c \in Clients :
    /\ got[c] + Len(answers[c]) + Busy(c) = read[c]
    /\ \A i \in 1 .. Len(answers[c]) : answers[c][i].num = got[c] + i

\* The commands of a client wait in the order of its requests, behind the one that
\* the owner runs, and those behind the one it replied to last.
CommandsInOrder ==
  /\ \A i \in 1 .. Len(channel) :
       /\ reply[channel[i].client].num < channel[i].num
       /\ channel[i].num <= read[channel[i].client]
  /\ \A i, j \in 1 .. Len(channel) :
       i < j /\ channel[i].client = channel[j].client => channel[i].num < channel[j].num
  /\ owner # None =>
       /\ reply[owner.client].num < owner.num /\ owner.num <= read[owner.client]
       /\ \A i \in 1 .. Len(channel) : channel[i].client = owner.client => owner.num < channel[i].num
  /\ \A c \in Clients : reply[c].num <= read[c]

\* What a thread has not yet asked of the owner is not among the commands.
NotYetAsked ==
  \A c \in Clients : serving[c].phase \in {"serve", "reading", "torn"} =>
    /\ reply[c].num < read[c]
    /\ owner # None /\ owner.client = c => owner.num < read[c]
    /\ \A i \in 1 .. Len(channel) : channel[i].client = c => channel[i].num < read[c]

NreplKept ==
  /\ NetTypes /\ ServerTypes /\ TasksArePlaced /\ GraphsAreSound /\ SessionsAreGiven
  /\ RequestsInTurn /\ CommandsInOrder /\ NotYetAsked

-----------------------------------------------------------------------------
(***************************************************************************)
(* The initial states, and small facts                                     *)
(***************************************************************************)

\* An item added at the end of a sequence, of whatever kind.
LEMMA AppendIs ==
  ASSUME NEW S, NEW s \in Seq(S), NEW e
  PROVE  Len(Append(s, e)) = Len(s) + 1 /\ Append(s, e)[Len(s) + 1] = e
<1>1. s \in Seq(S \cup {e})
  OBVIOUS
<1>2. QED
  BY <1>1, AppendProperties

LEMMA IdleIsTask == Idle \in Task /\ Idle.phase = "idle"
BY DEF Idle, Task

LEMMA NreplInitKept == Init => NreplKept
<1>. SUFFICES ASSUME Init PROVE NreplKept
  OBVIOUS
<1>. USE DEF Init
<1>1. NetTypes
  <2>1. ASSUME NEW c \in Clients PROVE sent[c] <= uses[c].most
    <3>1. uses[c].most \in Nat
      BY ConstantsAssumption
    <3>2. QED
      BY <3>1
  <2>2. QED
    BY <2>1 DEF NetTypes
<1>2. ServerTypes
  <2>1. answers \in [Clients -> Seq(AnswerOf)]
    BY EmptySeq
  <2>2. channel \in Seq(Cmd)
    BY EmptySeq
  <2>3. reply \in [Clients -> ReplyOf]
    BY DEF ReplyOf, Val
  <2>4. QED
    BY <2>1, <2>2, <2>3, IdleIsTask DEF ServerTypes
<1>3. Len(channel) = 0 /\ \A c \in Clients : Len(answers[c]) = 0
  BY EmptySeq
<1>4. TasksArePlaced
  BY <1>3, IdleIsTask DEF TasksArePlaced
<1>5. GraphsAreSound
  <2>1. EmptyGraph \in GraphOf /\ EmptyGraph.nodes = {} /\ EmptyGraph.next = 1
    BY DEF EmptyGraph, GraphOf
  <2>2. QED
    BY <2>1, ConstantsAssumption DEF GraphsAreSound
<1>6. SessionsAreGiven
  BY DEF SessionsAreGiven
<1>7. RequestsInTurn
  BY <1>3, IdleIsTask DEF RequestsInTurn, Busy
<1>8. CommandsInOrder
  BY <1>3 DEF CommandsInOrder
<1>9. NotYetAsked
  BY IdleIsTask DEF NotYetAsked
<1>10. QED
  BY <1>1, <1>2, <1>4, <1>5, <1>6, <1>7, <1>8, <1>9 DEF NreplKept

\* Every thread that is not idle is at work on the request after those answered.
LEMMA BusyIs ==
  ASSUME NreplKept, NEW c \in Clients
  PROVE  /\ serving[c] = Idle <=> serving[c].phase = "idle"
         /\ serving[c].phase # "idle" => got[c] + Len(answers[c]) + 1 = read[c]
         /\ serving[c].phase = "idle" => got[c] + Len(answers[c]) = read[c]
         /\ got[c] \in Nat /\ read[c] \in Nat /\ Len(answers[c]) \in Nat
<1>1. got[c] \in Nat /\ read[c] \in Nat /\ answers[c] \in Seq(AnswerOf) /\ Len(answers[c]) \in Nat
  BY DEF NreplKept, NetTypes, ServerTypes
<1>2. serving[c] = Idle <=> serving[c].phase = "idle"
  BY IdleIsTask DEF NreplKept, TasksArePlaced
<1>3. got[c] + Len(answers[c]) + Busy(c) = read[c]
  BY DEF NreplKept, RequestsInTurn
<1>4. QED
  BY <1>1, <1>2, <1>3 DEF Busy

-----------------------------------------------------------------------------
(***************************************************************************)
(* Clients                                                                 *)
(***************************************************************************)

LEMMA AskKept ==
  ASSUME NreplKept, NEW c \in Clients, Ask(c) PROVE NreplKept'
<1>1. UNCHANGED <<uses, read, serving, channel, owner, graphs, given, open, envs, reply>>
  BY DEF Ask, Send, TakeAnswer, GiveUp, Leave, state, sess
<1>2. GraphsAreSound' /\ SessionsAreGiven' /\ CommandsInOrder' /\ NotYetAsked' /\ TasksArePlaced'
  BY <1>1 DEF NreplKept, GraphsAreSound, SessionsAreGiven, CommandsInOrder, NotYetAsked, TasksArePlaced
<1>3. NetTypes'
  <2>1. uses[c].most \in Nat /\ sent \in [Clients -> Nat] /\ got \in [Clients -> Nat]
    BY ConstantsAssumption DEF NreplKept, NetTypes
  <2>2. CASE Send(c)
    BY <2>1, <2>2 DEF NreplKept, NetTypes, Send
  <2>3. CASE TakeAnswer(c)
    BY <2>1, <2>3 DEF NreplKept, NetTypes, TakeAnswer
  <2>4. CASE GiveUp(c) \/ Leave(c)
    BY <2>1, <2>4 DEF NreplKept, NetTypes, GiveUp, Leave
  <2>5. QED
    BY <2>2, <2>3, <2>4 DEF Ask
<1>4. ServerTypes' /\ RequestsInTurn'
  <2>1. CASE UNCHANGED <<answers, got>>
    BY <1>1, <2>1 DEF NreplKept, ServerTypes, RequestsInTurn, Busy
  <2>2. CASE TakeAnswer(c)
    <3>1. answers[c] \in Seq(AnswerOf) /\ answers[c] # << >>
      BY <2>2 DEF NreplKept, ServerTypes, TakeAnswer
    <3>2. /\ Tail(answers[c]) \in Seq(AnswerOf) /\ Len(Tail(answers[c])) = Len(answers[c]) - 1
          /\ \A i \in 1 .. Len(answers[c]) - 1 : Tail(answers[c])[i] = answers[c][i + 1]
          /\ Len(answers[c]) \in Nat
      BY <3>1, HeadTailProperties
    <3>3. /\ answers' \in [Clients -> Seq(AnswerOf)] /\ answers'[c] = Tail(answers[c])
          /\ got'[c] = got[c] + 1 /\ got[c] \in Nat
          /\ \A d \in Clients \ {c} : answers'[d] = answers[d] /\ got'[d] = got[d]
      BY <2>2, <3>2 DEF NreplKept, ServerTypes, NetTypes, TakeAnswer
    <3>4. ServerTypes'
      BY <1>1, <3>3 DEF NreplKept, ServerTypes
    <3>5. ASSUME NEW d \in Clients
          PROVE  /\ got'[d] + Len(answers'[d]) + Busy(d) = read[d]
                 /\ \A i \in 1 .. Len(answers'[d]) : answers'[d][i].num = got'[d] + i
      <4>1. /\ got[d] + Len(answers[d]) + Busy(d) = read[d]
            /\ \A i \in 1 .. Len(answers[d]) : answers[d][i].num = got[d] + i
        BY DEF NreplKept, RequestsInTurn
      <4>2. CASE d = c
        <5>1. Busy(d) \in Nat /\ read[d] \in Nat
          BY DEF Busy, NreplKept, ServerTypes
        <5>2. ASSUME NEW i \in 1 .. Len(answers'[c]) PROVE answers'[c][i].num = got'[c] + i
          <6>1. i + 1 \in 1 .. Len(answers[c]) /\ i \in 1 .. Len(answers[c]) - 1 /\ i \in Nat
            BY <3>2, <3>3
          <6>. DEFINE g == got[c]
                      n == answers'[c][i].num
          <6>2. answers'[c][i] = answers[c][i + 1] /\ answers[c][i + 1].num = got[c] + (i + 1)
            BY <3>2, <3>3, <4>1, <4>2, <6>1
          <6>3. n = g + (i + 1) /\ g \in Nat /\ got'[c] = g + 1
            BY <3>3, <6>2
          <6>. HIDE DEF g, n
          <6>4. n = g + 1 + i
            BY <6>1, <6>3
          <6>5. QED
            BY <6>3, <6>4 DEF n
        <5>3. got'[c] + Len(answers'[c]) + Busy(c) = read[c]
          <6>1. got[c] + Len(answers[c]) + Busy(c) = read[c]
            BY <4>1, <4>2
          <6>. DEFINE g == got[c]
                      n == Len(answers[c])
                      b == Busy(c)
          <6>2. g \in Nat /\ n \in Nat /\ b \in Nat /\ got'[c] = g + 1 /\ Len(answers'[c]) = n - 1
            BY <3>2, <3>3, <4>2, <5>1
          <6>. HIDE DEF g, n, b
          <6>3. (g + 1) + (n - 1) + b = g + n + b
            BY <6>2
          <6>4. QED
            BY <6>1, <6>2, <6>3 DEF g, n, b
        <5>4. QED
          BY <4>2, <5>2, <5>3
      <4>3. CASE d # c
        BY <3>3, <4>1, <4>3
      <4>4. QED
        BY <4>2, <4>3
    <3>6. \A d \in Clients : Busy(d)' = Busy(d)
      BY <1>1 DEF Busy
    <3>7. QED
      BY <1>1, <3>4, <3>5, <3>6 DEF RequestsInTurn
  <2>3. QED
    BY <2>1, <2>2 DEF Ask, Send, GiveUp, Leave
<1>5. QED
  BY <1>2, <1>3, <1>4 DEF NreplKept

-----------------------------------------------------------------------------
(***************************************************************************)
(* Server threads                                                          *)
(***************************************************************************)

LEMMA ReadRequestKept ==
  ASSUME NreplKept, NEW c \in Clients, ReadRequest(c) PROVE NreplKept'
<1>1. UNCHANGED <<uses, sent, waiting, got, gone, answers, channel, owner, graphs, given, open, envs, reply>>
  BY DEF ReadRequest, net, state, sess
<1>2. PICK op \in uses[c].ops : \E at \in Places(op) : Becomes(c, "serve", op, at)
  BY DEF ReadRequest
<1>3. PICK at \in Places(op) : Becomes(c, "serve", op, at)
  BY <1>2
<1>4. op \in Ops /\ at \in Canvas \cup {None}
  <2>1. uses[c].ops \subseteq Ops
    BY ConstantsAssumption DEF NreplKept, NetTypes, Ops
  <2>2. QED
    BY <1>2, <1>3, <2>1 DEF Places
<1>5. /\ serving' \in [Clients -> Task] /\ serving'[c].phase = "serve" /\ serving'[c].op = op
      /\ serving'[c].at = at /\ \A d \in Clients \ {c} : serving'[d] = serving[d]
  BY <1>3, <1>4 DEF Becomes, NreplKept, ServerTypes, Task
<1>6. /\ read' \in [Clients -> Nat] /\ read'[c] = read[c] + 1 /\ read[c] \in Nat
      /\ \A d \in Clients \ {c} : read'[d] = read[d]
      /\ serving[c] = Idle
  BY DEF ReadRequest, NreplKept, ServerTypes
<1>7. NetTypes' /\ GraphsAreSound' /\ SessionsAreGiven'
  BY <1>1 DEF NreplKept, NetTypes, GraphsAreSound, SessionsAreGiven
<1>8. ServerTypes'
  BY <1>1, <1>5, <1>6 DEF NreplKept, ServerTypes
<1>9. TasksArePlaced'
  <2>1. ASSUME NEW d \in Clients
        PROVE  IF serving'[d].phase = "idle" THEN serving'[d] = Idle
               ELSE serving'[d].op \in Ops /\ serving'[d].at \in Places(serving'[d].op)
    <3>1. CASE d = c
      BY <3>1, <1>3, <1>4, <1>5
    <3>2. CASE d # c
      BY <3>2, <1>5 DEF NreplKept, TasksArePlaced
    <3>3. QED
      BY <3>1, <3>2
  <2>2. QED
    BY <1>1, <2>1 DEF NreplKept, TasksArePlaced
<1>10. RequestsInTurn'
  <2>1. ASSUME NEW d \in Clients
        PROVE  got[d] + Len(answers[d]) + Busy(d)' = read'[d]
    <3>1. CASE d = c
      <4>1. Busy(d)' = 1
        BY <3>1, <1>5 DEF Busy
      <4>2. got[c] + Len(answers[c]) = read[c] /\ got[c] \in Nat /\ Len(answers[c]) \in Nat
        BY <1>6, BusyIs
      <4>3. QED
        BY <3>1, <4>1, <4>2, <1>6
    <3>2. CASE d # c
      <4>1. Busy(d)' = Busy(d)
        BY <3>2, <1>5 DEF Busy
      <4>2. QED
        BY <3>2, <4>1, <1>6 DEF NreplKept, RequestsInTurn
    <3>3. QED
      BY <3>1, <3>2
  <2>2. QED
    BY <1>1, <2>1 DEF NreplKept, RequestsInTurn
<1>11. \A d \in Clients : read[d] <= read'[d] /\ read[d] \in Nat /\ read'[d] \in Nat
  <2>1. read \in [Clients -> Nat]
    BY DEF NreplKept, ServerTypes
  <2>2. ASSUME NEW d \in Clients PROVE read[d] <= read'[d] /\ read[d] \in Nat /\ read'[d] \in Nat
    <3>1. CASE d = c
      BY <3>1, <1>6
    <3>2. CASE d # c
      BY <3>2, <1>6, <2>1
    <3>3. QED
      BY <3>1, <3>2
  <2>3. QED
    BY <2>2
<1>12. \A i \in 1 .. Len(channel) : channel[i] \in Cmd /\ channel[i].client \in Clients /\ channel[i].num \in Nat
  <2>1. channel \in Seq(Cmd)
    BY DEF NreplKept, ServerTypes
  <2>2. \A i \in 1 .. Len(channel) : channel[i] \in Cmd
    BY <2>1
  <2>3. QED
    BY <2>2 DEF Cmd
<1>13. owner # None => owner.client \in Clients /\ owner.num \in Nat
  BY DEF NreplKept, ServerTypes, Cmd
<1>14. \A d \in Clients : reply[d].num \in Nat
  BY DEF NreplKept, ServerTypes, ReplyOf
<1>15. CommandsInOrder'
  <2>1. \A i \in 1 .. Len(channel) : channel[i].num <= read'[channel[i].client]
    BY <1>11, <1>12 DEF NreplKept, CommandsInOrder
  <2>2. owner # None => owner.num <= read'[owner.client]
    BY <1>11, <1>13 DEF NreplKept, CommandsInOrder
  <2>3. \A d \in Clients : reply[d].num <= read'[d]
    BY <1>11, <1>14 DEF NreplKept, CommandsInOrder
  <2>4. QED
    BY <1>1, <2>1, <2>2, <2>3 DEF NreplKept, CommandsInOrder
<1>16. NotYetAsked'
  <2>1. ASSUME NEW d \in Clients, serving'[d].phase \in {"serve", "reading", "torn"}
        PROVE  /\ reply[d].num < read'[d]
               /\ owner # None /\ owner.client = d => owner.num < read'[d]
               /\ \A i \in 1 .. Len(channel) : channel[i].client = d => channel[i].num < read'[d]
    <3>1. CASE d = c
      BY <3>1, <1>6, <1>12, <1>13, <1>14 DEF NreplKept, CommandsInOrder
    <3>2. CASE d # c
      BY <3>2, <2>1, <1>5, <1>6 DEF NreplKept, NotYetAsked
    <3>3. QED
      BY <3>1, <3>2
  <2>2. QED
    BY <1>1, <2>1 DEF NotYetAsked
<1>17. QED
  BY <1>7, <1>8, <1>9, <1>10, <1>15, <1>16 DEF NreplKept

\* A thread answers the request at hand and is idle.
LEMMA AnsweredKept ==
  ASSUME NreplKept, NEW c \in Clients, NEW r, Answer(c, r), r.ok \in BOOLEAN, r.val \in Val,
         serving[c].phase # "idle", Becomes(c, "idle", None, None),
         UNCHANGED <<net, read, channel, owner, state, reply>>, SessionsAreGiven'
  PROVE  NreplKept'
<1>1. UNCHANGED <<uses, sent, waiting, got, gone, read, channel, owner, graphs, reply>>
  BY DEF net, state
<1>. DEFINE a == [num |-> read[c], op |-> serving[c].op, ok |-> r.ok, val |-> r.val]
<1>2. a \in AnswerOf /\ a.num = read[c]
  BY DEF AnswerOf, NreplKept, ServerTypes, Task
<1>3. answers' = [answers EXCEPT ![c] = Append(answers[c], a)]
  BY DEF Answer
<1>. HIDE DEF a
<1>4. answers[c] \in Seq(AnswerOf) /\ Len(answers[c]) \in Nat
  BY DEF NreplKept, ServerTypes
<1>5. /\ Append(answers[c], a) \in Seq(AnswerOf) /\ Len(Append(answers[c], a)) = Len(answers[c]) + 1
      /\ \A i \in 1 .. Len(answers[c]) : Append(answers[c], a)[i] = answers[c][i]
      /\ Append(answers[c], a)[Len(answers[c]) + 1] = a
  BY <1>2, <1>4, AppendProperties
<1>6. /\ answers' \in [Clients -> Seq(AnswerOf)] /\ answers'[c] = Append(answers[c], a)
      /\ \A d \in Clients \ {c} : answers'[d] = answers[d]
  BY <1>3, <1>5 DEF NreplKept, ServerTypes
<1>7. /\ serving' \in [Clients -> Task] /\ serving'[c] = Idle
      /\ \A d \in Clients \ {c} : serving'[d] = serving[d]
  BY IdleIsTask DEF Becomes, NreplKept, ServerTypes, Idle
<1>8. NetTypes' /\ GraphsAreSound' /\ CommandsInOrder'
  BY <1>1 DEF NreplKept, NetTypes, GraphsAreSound, CommandsInOrder
<1>9. ServerTypes'
  BY <1>1, <1>6, <1>7 DEF NreplKept, ServerTypes
<1>10. TasksArePlaced'
  BY <1>1, <1>7, IdleIsTask DEF NreplKept, TasksArePlaced
<1>11. RequestsInTurn'
  <2>1. ASSUME NEW d \in Clients
        PROVE  /\ got[d] + Len(answers'[d]) + Busy(d)' = read[d]
               /\ \A i \in 1 .. Len(answers'[d]) : answers'[d][i].num = got[d] + i
    <3>1. CASE d = c
      <4>1. Busy(d)' = 0
        BY <3>1, <1>7, IdleIsTask DEF Busy
      <4>2. got[c] + Len(answers[c]) + 1 = read[c] /\ got[c] \in Nat
        BY BusyIs
      <4>3. \A i \in 1 .. Len(answers[c]) : answers[c][i].num = got[c] + i
        BY DEF NreplKept, RequestsInTurn
      <4>4. Len(answers'[c]) = Len(answers[c]) + 1
        BY <1>5, <1>6
      <4>5. ASSUME NEW i \in 1 .. Len(answers[c]) + 1 PROVE answers'[c][i].num = got[c] + i
        <5>1. CASE i = Len(answers[c]) + 1
          <6>1. answers'[c][i].num = read[c]
            BY <1>2, <1>5, <1>6, <5>1
          <6>. DEFINE g == got[c]
                      n == Len(answers[c])
          <6>2. g \in Nat /\ n \in Nat /\ answers'[c][i].num = g + n + 1 /\ i = n + 1
            BY <1>4, <4>2, <5>1, <6>1
          <6>. HIDE DEF g, n
          <6>3. g + n + 1 = g + (n + 1)
            BY <6>2
          <6>4. QED
            BY <6>2, <6>3 DEF g
        <5>2. CASE i \in 1 .. Len(answers[c])
          BY <1>5, <1>6, <4>3, <5>2
        <5>3. QED
          BY <1>4, <5>1, <5>2
      <4>6. got[c] + Len(answers'[c]) + Busy(d)' = read[c]
        BY <1>4, <4>1, <4>2, <4>4
      <4>7. QED
        BY <3>1, <4>4, <4>5, <4>6
    <3>2. CASE d # c
      <4>1. Busy(d)' = Busy(d)
        BY <3>2, <1>7 DEF Busy
      <4>2. QED
        BY <3>2, <4>1, <1>6 DEF NreplKept, RequestsInTurn
    <3>3. QED
      BY <3>1, <3>2
  <2>2. QED
    BY <1>1, <2>1 DEF RequestsInTurn
<1>12. NotYetAsked'
  BY <1>1, <1>7, IdleIsTask DEF NreplKept, NotYetAsked
<1>13. QED
  BY <1>8, <1>9, <1>10, <1>11, <1>12 DEF NreplKept

\* The answers of a thread that does not ask the owner, and of one that did.
LEMMA AnsweringKept ==
  ASSUME NreplKept, NEW c \in Clients,
         \/ Clone(c) \/ InSession(c) \/ NsList(c) \/ LookUp(c) \/ TakeReply(c) \/ CommandTimeout(c)
  PROVE  NreplKept'
<1>1. None \in Val /\ (\A b \in BOOLEAN : <<"found", b>> \in Val) /\ <<"canvases", {}>> \in Val
      /\ \A n \in Nat : <<"session", n>> \in Val
  BY DEF Val
<1>2. /\ Yes(None).ok \in BOOLEAN /\ Yes(None).val \in Val
      /\ No.ok \in BOOLEAN /\ No.val \in Val
  BY <1>1 DEF Yes, No
<1>3. given \in Nat /\ open \in SUBSET (1 .. given) /\ DOMAIN envs \in SUBSET (0 .. given)
  BY DEF NreplKept, SessionsAreGiven
<1>4. CASE Clone(c)
  <2>. DEFINE r == Yes(<<"session", given + 1>>)
  <2>1. given + 1 \in Nat /\ r.ok \in BOOLEAN /\ r.val \in Val
    BY <1>1, <1>3 DEF Yes
  <2>2. Answer(c, r) /\ Becomes(c, "idle", None, None) /\ serving[c].phase # "idle"
        /\ UNCHANGED <<net, read, channel, owner, state, reply>>
    BY <1>4 DEF Clone, Counter, Serves
  <2>3. SessionsAreGiven'
    BY <1>3, <1>4 DEF Clone, Counter, SessionsAreGiven
  <2>. HIDE DEF r
  <2>4. QED
    BY <2>1, <2>2, <2>3, AnsweredKept
<1>5. ASSUME NEW s \in Named, Close(c, s) PROVE NreplKept'
  <2>1. Answer(c, Yes(None)) /\ Becomes(c, "idle", None, None) /\ serving[c].phase # "idle"
        /\ UNCHANGED <<net, read, channel, owner, state, reply>>
    BY <1>5 DEF Close, Serves
  <2>2. SessionsAreGiven'
    BY <1>3, <1>5 DEF Close, SessionsAreGiven
  <2>3. QED
    BY <1>2, <2>1, <2>2, AnsweredKept
<1>6. ASSUME NEW s \in Named
      PROVE  DOMAIN EnvsWith(s) \in SUBSET (0 .. given)
  <2>1. DOMAIN EnvsWith(s) = DOMAIN envs \cup {s}
    BY DEF EnvsWith
  <2>2. QED
    BY <1>3, <2>1 DEF Named
<1>7. ASSUME NEW s \in Named, Eval(c, s) PROVE NreplKept'
  <2>1. (Answer(c, Yes(None)) \/ Answer(c, No)) /\ Becomes(c, "idle", None, None)
        /\ serving[c].phase # "idle" /\ UNCHANGED <<net, read, channel, owner, state, reply>>
    BY <1>7 DEF Eval, Serves
  <2>2. SessionsAreGiven'
    BY <1>3, <1>6, <1>7 DEF Eval, SessionsAreGiven
  <2>3. QED
    BY <1>2, <2>1, <2>2, AnsweredKept
<1>8. ASSUME NEW s \in Named, LoadFile(c, s) PROVE NreplKept'
  <2>1. (Answer(c, Yes(None)) \/ Answer(c, No)) /\ Becomes(c, "idle", None, None)
        /\ serving[c].phase # "idle" /\ UNCHANGED <<net, read, channel, owner, state, reply>>
    BY <1>8 DEF LoadFile, Reading
  <2>2. SessionsAreGiven'
    BY <1>3, <1>6, <1>8 DEF LoadFile, SessionsAreGiven
  <2>3. QED
    BY <1>2, <2>1, <2>2, AnsweredKept
<1>9. ASSUME NEW s \in Named, SwitchNs(c, s) PROVE NreplKept'
  <2>1. (Answer(c, Yes(None)) \/ Answer(c, No)) /\ Becomes(c, "idle", None, None)
        /\ serving[c].phase # "idle" /\ UNCHANGED <<net, read, channel, owner, state, reply>>
    BY <1>9 DEF SwitchNs, Reading
  <2>2. DOMAIN [envs EXCEPT ![s] = TRUE] = DOMAIN envs
    OBVIOUS
  <2>3. SessionsAreGiven'
    BY <1>3, <1>9, <2>2 DEF SwitchNs, SessionsAreGiven
  <2>4. QED
    BY <1>2, <2>1, <2>3, AnsweredKept
<1>10. CASE NsList(c)
  <2>1. PICK found \in Finds(c) : Answer(c, Yes(<<"found", found>>))
    BY <1>10 DEF NsList
  <2>2. found \in BOOLEAN
    BY <2>1 DEF Finds
  <2>. DEFINE r == Yes(<<"found", found>>)
  <2>3. r.ok \in BOOLEAN /\ r.val \in Val
    BY <1>1, <2>2 DEF Yes
  <2>4. Answer(c, r) /\ Becomes(c, "idle", None, None) /\ serving[c].phase # "idle"
        /\ UNCHANGED <<net, read, channel, owner, state, reply>> /\ UNCHANGED sess
    BY <1>10, <2>1 DEF NsList, Reading
  <2>5. SessionsAreGiven'
    BY <1>3, <2>4 DEF sess, SessionsAreGiven
  <2>. HIDE DEF r
  <2>6. QED
    BY <2>3, <2>4, <2>5, AnsweredKept
<1>11. CASE LookUp(c)
  <2>1. (Answer(c, Yes(None)) \/ Answer(c, No)) /\ Becomes(c, "idle", None, None)
        /\ serving[c].phase # "idle" /\ UNCHANGED <<net, read, channel, owner, state, reply>>
        /\ UNCHANGED sess
    BY <1>11 DEF LookUp, Reading
  <2>2. SessionsAreGiven'
    BY <1>3, <2>1 DEF sess, SessionsAreGiven
  <2>3. QED
    BY <1>2, <2>1, <2>2, AnsweredKept
<1>12. CASE TakeReply(c)
  <2>. DEFINE r == [ok |-> reply[c].ok, val |-> reply[c].val]
  <2>1. r.ok \in BOOLEAN /\ r.val \in Val
    BY DEF NreplKept, ServerTypes, ReplyOf
  <2>2. Answer(c, r) /\ Becomes(c, "idle", None, None) /\ serving[c].phase # "idle"
        /\ UNCHANGED <<net, read, channel, owner, state, reply>> /\ UNCHANGED sess
    BY <1>12 DEF TakeReply
  <2>3. SessionsAreGiven'
    BY <1>3, <2>2 DEF sess, SessionsAreGiven
  <2>. HIDE DEF r
  <2>4. QED
    BY <2>1, <2>2, <2>3, AnsweredKept
<1>13. CASE CommandTimeout(c)
  <2>. DEFINE r == Unanswered(serving[c].op)
  <2>1. r.ok \in BOOLEAN /\ r.val \in Val
    <3>1. r = Yes(<<"canvases", {}>>) \/ r = No
      BY DEF Unanswered
    <3>2. Yes(<<"canvases", {}>>).ok \in BOOLEAN /\ Yes(<<"canvases", {}>>).val \in Val
      BY <1>1 DEF Yes
    <3>. HIDE DEF r
    <3>3. QED
      BY <1>2, <3>1, <3>2
  <2>2. Answer(c, r) /\ Becomes(c, "idle", None, None) /\ serving[c].phase # "idle"
        /\ UNCHANGED <<net, read, channel, owner, state, reply>> /\ UNCHANGED sess
    BY <1>13 DEF CommandTimeout, AfterTimeout
  <2>3. SessionsAreGiven'
    BY <1>3, <2>2 DEF sess, SessionsAreGiven
  <2>. HIDE DEF r
  <2>4. QED
    BY <2>1, <2>2, <2>3, AnsweredKept
<1>14. QED
  BY <1>4, <1>5, <1>7, <1>8, <1>9, <1>10, <1>11, <1>12, <1>13 DEF InSession

\* A thread goes on with the request at hand.
LEMMA GoesOnKept ==
  ASSUME NreplKept, NEW c \in Clients, NEW phase \in {"reading", "torn", "await"},
         serving[c].phase = "serve", Becomes(c, phase, serving[c].op, serving[c].at),
         UNCHANGED <<net, read, answers, owner, state, sess, reply>>
  PROVE  /\ NetTypes' /\ GraphsAreSound' /\ SessionsAreGiven' /\ RequestsInTurn'
         /\ serving' \in [Clients -> Task] /\ serving'[c].phase = phase
         /\ serving[c].op \in Ops /\ serving[c].at \in Places(serving[c].op)
         /\ \A d \in Clients : IF serving'[d].phase = "idle" THEN serving'[d] = Idle
                               ELSE /\ serving'[d].op \in Ops
                                    /\ serving'[d].at \in Places(serving'[d].op)
         /\ \A d \in Clients \ {c} : serving'[d] = serving[d]
<1>1. serving[c].op \in Ops /\ serving[c].at \in Places(serving[c].op)
  BY DEF NreplKept, TasksArePlaced
<1>2. serving[c].at \in Canvas \cup {None}
  BY <1>1 DEF Places
<1>3. /\ serving' \in [Clients -> Task] /\ serving'[c].phase = phase
      /\ serving'[c].op = serving[c].op /\ serving'[c].at = serving[c].at
      /\ \A d \in Clients \ {c} : serving'[d] = serving[d]
  BY <1>1, <1>2 DEF Becomes, NreplKept, ServerTypes, Task
<1>4. NetTypes' /\ GraphsAreSound' /\ SessionsAreGiven'
  BY DEF net, state, sess, NreplKept, NetTypes, GraphsAreSound, SessionsAreGiven
<1>5. \A d \in Clients : Busy(d)' = Busy(d)
  <2>1. ASSUME NEW d \in Clients PROVE Busy(d)' = Busy(d)
    <3>1. CASE d = c
      BY <3>1, <1>3 DEF Busy
    <3>2. CASE d # c
      BY <3>2, <1>3 DEF Busy
    <3>3. QED
      BY <3>1, <3>2
  <2>2. QED
    BY <2>1
<1>6. RequestsInTurn'
  BY <1>5 DEF net, NreplKept, RequestsInTurn
<1>7. ASSUME NEW d \in Clients
      PROVE  IF serving'[d].phase = "idle" THEN serving'[d] = Idle
             ELSE serving'[d].op \in Ops /\ serving'[d].at \in Places(serving'[d].op)
  <2>1. CASE d = c
    BY <2>1, <1>1, <1>3
  <2>2. CASE d # c
    BY <2>2, <1>3 DEF NreplKept, TasksArePlaced
  <2>3. QED
    BY <2>1, <2>2
<1>8. QED
  BY <1>1, <1>3, <1>4, <1>6, <1>7

LEMMA StartReadingKept ==
  ASSUME NreplKept, NEW c \in Clients, StartReading(c) PROVE NreplKept'
<1>1. PICK phase \in {"reading", "torn", "await"} :
        phase # "await" /\ Becomes(c, phase, serving[c].op, serving[c].at)
  BY DEF StartReading
<1>2. /\ serving[c].phase = "serve" /\ channel' = channel
      /\ UNCHANGED <<net, read, answers, owner, state, sess, reply>>
  BY DEF StartReading
<1>3. /\ NetTypes' /\ GraphsAreSound' /\ SessionsAreGiven' /\ RequestsInTurn'
      /\ serving' \in [Clients -> Task] /\ serving'[c].phase = phase
      /\ \A d \in Clients : IF serving'[d].phase = "idle" THEN serving'[d] = Idle
                            ELSE /\ serving'[d].op \in Ops
                                 /\ serving'[d].at \in Places(serving'[d].op)
      /\ \A d \in Clients \ {c} : serving'[d] = serving[d]
  BY <1>1, <1>2, GoesOnKept
<1>4. ServerTypes' /\ TasksArePlaced' /\ CommandsInOrder'
  BY <1>2, <1>3 DEF NreplKept, ServerTypes, TasksArePlaced, CommandsInOrder
<1>5. NotYetAsked'
  <2>1. \A d \in Clients : serving'[d].phase \in {"serve", "reading", "torn"} =>
                             serving[d].phase \in {"serve", "reading", "torn"}
    BY <1>2, <1>3
  <2>2. QED
    BY <1>2, <2>1 DEF NreplKept, NotYetAsked
<1>6. QED
  BY <1>3, <1>4, <1>5 DEF NreplKept

LEMMA SendCommandKept ==
  ASSUME NreplKept, NEW c \in Clients, SendCommand(c) PROVE NreplKept'
<1>. DEFINE cmd == [client |-> c, num |-> read[c], op |-> serving[c].op, at |-> serving[c].at]
            n == Len(channel)
<1>1. /\ serving[c].phase = "serve" /\ serving[c].op \in CommandOps
      /\ UNCHANGED <<net, read, answers, owner, state, sess, reply>>
      /\ Becomes(c, "await", serving[c].op, serving[c].at)
      /\ channel' = Append(channel, cmd)
  BY DEF SendCommand
<1>2. /\ NetTypes' /\ GraphsAreSound' /\ SessionsAreGiven' /\ RequestsInTurn'
      /\ serving' \in [Clients -> Task] /\ serving'[c].phase = "await"
      /\ \A d \in Clients : IF serving'[d].phase = "idle" THEN serving'[d] = Idle
                            ELSE /\ serving'[d].op \in Ops
                                 /\ serving'[d].at \in Places(serving'[d].op)
      /\ \A d \in Clients \ {c} : serving'[d] = serving[d]
  BY <1>1, GoesOnKept
<1>3. serving[c].at \in Places(serving[c].op) /\ serving[c].at \in Canvas \cup {None}
  BY <1>1 DEF NreplKept, TasksArePlaced, Places
<1>4. read[c] \in Nat
  BY DEF NreplKept, ServerTypes
<1>5. cmd \in Cmd /\ cmd.client = c /\ cmd.num = read[c] /\ cmd.at \in Places(cmd.op)
  BY <1>1, <1>3, <1>4 DEF Cmd
<1>. HIDE DEF cmd
<1>6. channel \in Seq(Cmd) /\ n \in Nat
  BY DEF NreplKept, ServerTypes
<1>7. /\ channel' \in Seq(Cmd) /\ Len(channel') = n + 1
      /\ \A i \in 1 .. n : channel'[i] = channel[i]
      /\ channel'[n + 1] = cmd
  BY <1>1, <1>5, <1>6, AppendProperties
<1>. HIDE DEF n
<1>8. \A i \in 1 .. n + 1 : i \in 1 .. n \/ i = n + 1
  BY <1>6
<1>9. ServerTypes'
  BY <1>1, <1>2, <1>7 DEF NreplKept, ServerTypes
<1>10. TasksArePlaced'
  <2>1. \A i \in 1 .. n + 1 : channel'[i].at \in Places(channel'[i].op)
    BY <1>5, <1>7, <1>8 DEF n, NreplKept, TasksArePlaced
  <2>2. QED
    BY <1>1, <1>2, <1>7, <2>1 DEF NreplKept, TasksArePlaced
<1>11. /\ reply[c].num < read[c]
       /\ owner # None /\ owner.client = c => owner.num < read[c]
       /\ \A i \in 1 .. n : channel[i].client = c => channel[i].num < read[c]
  BY <1>1 DEF NreplKept, NotYetAsked, n
<1>12. CommandsInOrder'
  <2>1. \A i \in 1 .. n + 1 :
          /\ reply[channel'[i].client].num < channel'[i].num
          /\ channel'[i].num <= read[channel'[i].client]
    <3>1. ASSUME NEW i \in 1 .. n
          PROVE  /\ reply[channel[i].client].num < channel[i].num
                 /\ channel[i].num <= read[channel[i].client]
      BY DEF NreplKept, CommandsInOrder, n
    <3>2. reply[cmd.client].num < cmd.num /\ cmd.num <= read[cmd.client]
      BY <1>4, <1>5, <1>11
    <3>3. QED
      BY <1>7, <1>8, <3>1, <3>2
  <2>2. ASSUME NEW i \in 1 .. n + 1, NEW j \in 1 .. n + 1, i < j,
               channel'[i].client = channel'[j].client
        PROVE  channel'[i].num < channel'[j].num
    <3>1. i \in 1 .. n
      BY <1>6, <2>2
    <3>2. CASE j \in 1 .. n
      BY <1>7, <2>2, <3>1, <3>2 DEF NreplKept, CommandsInOrder, n
    <3>3. CASE j = n + 1
      BY <1>5, <1>7, <1>11, <2>2, <3>1, <3>3
    <3>4. QED
      BY <1>8, <3>2, <3>3
  <2>3. ASSUME owner # None
        PROVE  \A i \in 1 .. n + 1 : channel'[i].client = owner.client => owner.num < channel'[i].num
    <3>1. \A i \in 1 .. n : channel[i].client = owner.client => owner.num < channel[i].num
      BY <2>3 DEF NreplKept, CommandsInOrder, n
    <3>2. QED
      BY <1>5, <1>7, <1>8, <1>11, <2>3, <3>1
  <2>4. QED
    BY <1>1, <1>7, <2>1, <2>2, <2>3 DEF NreplKept, CommandsInOrder
<1>13. NotYetAsked'
  <2>1. ASSUME NEW d \in Clients, serving'[d].phase \in {"serve", "reading", "torn"}
        PROVE  /\ reply[d].num < read[d]
               /\ owner # None /\ owner.client = d => owner.num < read[d]
               /\ \A i \in 1 .. n + 1 : channel'[i].client = d => channel'[i].num < read[d]
    <3>1. d # c
      BY <1>2, <2>1
    <3>2. serving[d].phase \in {"serve", "reading", "torn"}
      BY <1>2, <2>1, <3>1
    <3>3. /\ reply[d].num < read[d]
          /\ owner # None /\ owner.client = d => owner.num < read[d]
          /\ \A i \in 1 .. n : channel[i].client = d => channel[i].num < read[d]
      BY <3>2 DEF NreplKept, NotYetAsked, n
    <3>4. QED
      BY <1>5, <1>7, <1>8, <3>1, <3>3
  <2>2. QED
    BY <1>1, <1>7, <2>1 DEF NotYetAsked
<1>14. QED
  BY <1>2, <1>9, <1>10, <1>12, <1>13 DEF NreplKept

-----------------------------------------------------------------------------
(***************************************************************************)
(* The owner                                                               *)
(***************************************************************************)

LEMMA CommandIs ==
  ASSUME NreplKept
  PROVE  /\ \A i \in 1 .. Len(channel) : channel[i] \in Cmd
         /\ \A r \in Cmd : r.client \in Clients /\ r.num \in Nat /\ r.op \in CommandOps
         /\ \A d \in Clients : reply[d].num \in Nat /\ read[d] \in Nat
<1>1. channel \in Seq(Cmd)
  BY DEF NreplKept, ServerTypes
<1>2. \A i \in 1 .. Len(channel) : channel[i] \in Cmd
  BY <1>1
<1>3. \A r \in Cmd : r.client \in Clients /\ r.num \in Nat /\ r.op \in CommandOps
  BY DEF Cmd
<1>4. \A d \in Clients : reply[d].num \in Nat /\ read[d] \in Nat
  BY DEF NreplKept, ServerTypes, ReplyOf
<1>5. QED
  BY <1>2, <1>3, <1>4

LEMMA PollCommandKept ==
  ASSUME NreplKept, PollCommand PROVE NreplKept'
<1>. DEFINE n == Len(channel)
<1>1. /\ UNCHANGED <<net, read, answers, state, sess, reply>>
      /\ owner = None /\ channel # << >> /\ owner' = channel[1]
      /\ channel' = SubSeq(channel, 1, 0) \o SubSeq(channel, 2, n)
      /\ serving' = [c \in Clients |-> IF serving[c].phase = "reading"
                                       THEN [serving[c] EXCEPT !.phase = "torn"]
                                       ELSE serving[c]]
  BY DEF PollCommand, OldestCommand, RemoveAt
<1>2. channel \in Seq(Cmd) /\ n \in Nat /\ n # 0
  BY <1>1, EmptySeq DEF NreplKept, ServerTypes
<1>3. \A i \in 1 .. n : channel[i] \in Cmd
  BY CommandIs
<1>4. /\ channel' \in Seq(Cmd) /\ Len(channel') = n - 1
      /\ \A i \in 1 .. n - 1 : channel'[i] = channel[i + 1]
  <2>. DEFINE a == SubSeq(channel, 1, 0)
              b == SubSeq(channel, 2, n)
  <2>1. \A i \in 2 .. n : channel[i] \in Cmd
    BY <1>2, <1>3
  <2>2. /\ b \in Seq(Cmd) /\ Len(b) = n - 1
        /\ \A i \in 1 .. n - 1 : b[i] = channel[i + 1]
    <3>1. /\ b \in Seq(Cmd)
          /\ Len(b) = IF 2 <= n THEN n - 2 + 1 ELSE 0
          /\ \A i \in 1 .. n - 2 + 1 : b[i] = channel[2 + i - 1]
      BY <1>2, <2>1, SubSeqProperties
    <3>. HIDE DEF b, n
    <3>2. Len(b) = n - 1
      BY <1>2, <3>1
    <3>3. \A i \in 1 .. n - 1 : i \in 1 .. n - 2 + 1 /\ 2 + i - 1 = i + 1
      BY <1>2
    <3>4. QED
      BY <3>1, <3>2, <3>3
  <2>3. a = << >>
    <3>1. a \in Seq(Cmd) /\ Len(a) = 0
      BY <1>2, SubSeqProperties
    <3>2. QED
      BY <3>1, EmptySeq
  <2>. HIDE DEF a, b
  <2>4. << >> \o b = b
    BY <2>2, ConcatEmptySeq
  <2>5. QED
    BY <1>1, <2>2, <2>3, <2>4 DEF a, b
<1>5. 1 \in 1 .. n /\ \A i \in 1 .. n - 1 : i + 1 \in 1 .. n /\ 1 < i + 1
  BY <1>2
<1>. HIDE DEF n
<1>6. ASSUME NEW c \in Clients
      PROVE  /\ serving'[c] \in Task
             /\ serving'[c].op = serving[c].op /\ serving'[c].at = serving[c].at
             /\ serving'[c].phase = "idle" <=> serving[c].phase = "idle"
             /\ serving'[c].phase = "idle" => serving'[c] = serving[c]
             /\ serving'[c].phase \in {"serve", "reading", "torn"} =>
                  serving[c].phase \in {"serve", "reading", "torn"}
  BY <1>1 DEF NreplKept, ServerTypes, Task
<1>7. NetTypes' /\ GraphsAreSound' /\ SessionsAreGiven'
  BY <1>1 DEF net, state, sess, NreplKept, NetTypes, GraphsAreSound, SessionsAreGiven
<1>8. ServerTypes'
  <2>1. serving' \in [Clients -> Task]
    BY <1>1, <1>6
  <2>2. owner' \in Cmd
    BY <1>1, <1>3, <1>5
  <2>3. QED
    BY <1>1, <1>4, <2>1, <2>2 DEF NreplKept, ServerTypes
<1>9. TasksArePlaced'
  <2>1. \A i \in 1 .. n : channel[i].at \in Places(channel[i].op)
    BY DEF NreplKept, TasksArePlaced, n
  <2>2. \A i \in 1 .. n - 1 : channel'[i].at \in Places(channel'[i].op)
    BY <1>4, <1>5, <2>1
  <2>3. owner'.at \in Places(owner'.op)
    BY <1>1, <1>5, <2>1
  <2>4. QED
    BY <1>4, <1>6, <2>2, <2>3 DEF NreplKept, TasksArePlaced
<1>10. RequestsInTurn'
  <2>1. \A c \in Clients : Busy(c)' = Busy(c)
    BY <1>6 DEF Busy
  <2>2. QED
    BY <1>1, <2>1 DEF net, NreplKept, RequestsInTurn
<1>11. /\ \A i \in 1 .. n : /\ reply[channel[i].client].num < channel[i].num
                            /\ channel[i].num <= read[channel[i].client]
       /\ \A i, j \in 1 .. n :
            i < j /\ channel[i].client = channel[j].client => channel[i].num < channel[j].num
       /\ \A c \in Clients : reply[c].num <= read[c]
  BY DEF NreplKept, CommandsInOrder, n
<1>12. CommandsInOrder'
  <2>1. \A i \in 1 .. n - 1 : /\ reply[channel'[i].client].num < channel'[i].num
                              /\ channel'[i].num <= read[channel'[i].client]
    BY <1>4, <1>5, <1>11
  <2>2. ASSUME NEW i \in 1 .. n - 1, NEW j \in 1 .. n - 1, i < j,
               channel'[i].client = channel'[j].client
        PROVE  channel'[i].num < channel'[j].num
    <3>1. i + 1 \in 1 .. n /\ j + 1 \in 1 .. n /\ i + 1 < j + 1
      BY <1>2, <2>2
    <3>2. channel'[i] = channel[i + 1] /\ channel'[j] = channel[j + 1]
      BY <1>4
    <3>3. channel[i + 1].client = channel[j + 1].client
      BY <2>2, <3>2
    <3>4. QED
      BY <1>11, <3>1, <3>2, <3>3
  <2>3. reply[owner'.client].num < owner'.num /\ owner'.num <= read[owner'.client]
    BY <1>1, <1>5, <1>11
  <2>4. \A i \in 1 .. n - 1 : channel'[i].client = owner'.client => owner'.num < channel'[i].num
    BY <1>1, <1>4, <1>5, <1>11
  <2>5. QED
    BY <1>1, <1>4, <1>11, <2>1, <2>2, <2>3, <2>4 DEF CommandsInOrder
<1>13. NotYetAsked'
  <2>1. ASSUME NEW c \in Clients, serving'[c].phase \in {"serve", "reading", "torn"}
        PROVE  /\ reply[c].num < read[c]
               /\ owner'.client = c => owner'.num < read[c]
               /\ \A i \in 1 .. n - 1 : channel'[i].client = c => channel'[i].num < read[c]
    <3>1. serving[c].phase \in {"serve", "reading", "torn"}
      BY <1>6, <2>1
    <3>2. /\ reply[c].num < read[c]
          /\ \A i \in 1 .. n : channel[i].client = c => channel[i].num < read[c]
      BY <3>1 DEF NreplKept, NotYetAsked, n
    <3>3. QED
      BY <1>1, <1>4, <1>5, <3>2
  <2>2. QED
    BY <1>1, <1>4, <2>1 DEF NotYetAsked
<1>14. QED
  BY <1>7, <1>8, <1>9, <1>10, <1>12, <1>13 DEF NreplKept

\* The owner replies to the command at hand.
LEMMA RepliedKept ==
  ASSUME NreplKept, NEW r, Reply(r), r.ok \in BOOLEAN, r.val \in Val, owner # None,
         UNCHANGED <<net, read, serving, answers, channel, sess>>, GraphsAreSound'
  PROVE  NreplKept'
<1>1. owner \in Cmd /\ owner.client \in Clients /\ owner.num \in Nat
  BY CommandIs DEF NreplKept, ServerTypes
<1>. DEFINE a == [num |-> owner.num, ok |-> r.ok, val |-> r.val]
<1>2. a \in ReplyOf /\ a.num = owner.num
  BY <1>1 DEF ReplyOf
<1>3. reply' = [reply EXCEPT ![owner.client] = a] /\ owner' = None
  BY DEF Reply
<1>. HIDE DEF a
<1>4. /\ reply' \in [Clients -> ReplyOf] /\ reply'[owner.client].num = owner.num
      /\ \A c \in Clients \ {owner.client} : reply'[c] = reply[c]
  BY <1>1, <1>2, <1>3 DEF NreplKept, ServerTypes
<1>5. NetTypes' /\ SessionsAreGiven' /\ RequestsInTurn' /\ TasksArePlaced'
  BY <1>3 DEF net, sess, NreplKept, NetTypes, SessionsAreGiven, RequestsInTurn, Busy, TasksArePlaced
<1>6. ServerTypes'
  BY <1>3, <1>4 DEF NreplKept, ServerTypes
<1>7. CommandsInOrder'
  <2>1. ASSUME NEW i \in 1 .. Len(channel) PROVE reply'[channel[i].client].num < channel[i].num
    <3>1. channel[i].client \in Clients
      BY CommandIs
    <3>2. CASE channel[i].client = owner.client
      BY <1>4, <3>2 DEF NreplKept, CommandsInOrder
    <3>3. CASE channel[i].client # owner.client
      BY <1>4, <3>1, <3>3 DEF NreplKept, CommandsInOrder
    <3>4. QED
      BY <3>2, <3>3
  <2>2. ASSUME NEW c \in Clients PROVE reply'[c].num <= read[c]
    <3>1. CASE c = owner.client
      BY <1>4, <3>1 DEF NreplKept, CommandsInOrder
    <3>2. CASE c # owner.client
      BY <1>4, <3>2 DEF NreplKept, CommandsInOrder
    <3>3. QED
      BY <3>1, <3>2
  <2>3. QED
    BY <1>3, <2>1, <2>2 DEF NreplKept, CommandsInOrder
<1>8. NotYetAsked'
  <2>1. ASSUME NEW c \in Clients, serving[c].phase \in {"serve", "reading", "torn"}
        PROVE  reply'[c].num < read[c]
    <3>1. CASE c = owner.client
      BY <1>4, <2>1, <3>1 DEF NreplKept, NotYetAsked
    <3>2. CASE c # owner.client
      BY <1>4, <2>1, <3>2 DEF NreplKept, NotYetAsked
    <3>3. QED
      BY <3>1, <3>2
  <2>2. QED
    BY <1>3, <2>1 DEF NreplKept, NotYetAsked
<1>9. QED
  BY <1>5, <1>6, <1>7, <1>8 DEF NreplKept

\* What a command makes of the graphs.
LEMMA RunCommandKept ==
  ASSUME NreplKept, RunCommand PROVE NreplKept'
<1>1. owner # None /\ owner \in Cmd
  BY DEF RunCommand, CreateCanvas, ListCanvases, CreateNode, DeleteNode, UpdateNode, NodeState,
         ComputeNode, Runs, NreplKept, ServerTypes
<1>2. owner.client \in Clients /\ owner.num \in Nat /\ owner.at \in Places(owner.op)
  BY <1>1, CommandIs DEF NreplKept, TasksArePlaced
<1>3. UNCHANGED <<net, read, serving, answers, channel, sess>>
  BY DEF RunCommand, CreateCanvas, ListCanvases, CreateNode, DeleteNode, UpdateNode, NodeState, ComputeNode
<1>4. /\ DOMAIN graphs \in SUBSET Canvas /\ graphs \in [DOMAIN graphs -> GraphOf]
      /\ \A m \in DOMAIN graphs : graphs[m].next >= 1
                                  /\ \A n \in graphs[m].nodes : n.id \in 1 .. graphs[m].next - 1
  BY DEF NreplKept, GraphsAreSound
<1>5. GraphsAreSound
  BY DEF NreplKept
<1>6. No.ok \in BOOLEAN /\ No.val \in Val /\ Yes(None).ok \in BOOLEAN /\ Yes(None).val \in Val
  BY DEF Yes, No, Val
<1>7. Code \in CodeOf
  BY <1>2 DEF Code, CodeOf
<1>8. ASSUME Fails PROVE NreplKept'
  <2>1. Reply(No) /\ GraphsAreSound'
    BY <1>5, <1>8 DEF Fails, state, GraphsAreSound
  <2>2. QED
    BY <1>1, <1>3, <1>6, <2>1, RepliedKept
\* A graph put in the place of another.
<1>9. ASSUME NEW g \in GraphOf, HasCanvas, graphs' = [graphs EXCEPT ![owner.at] = g],
             g.next >= 1, \A n \in g.nodes : n.id \in 1 .. g.next - 1
      PROVE  GraphsAreSound'
  <2>1. owner.at \in DOMAIN graphs
    BY <1>9 DEF HasCanvas
  <2>2. DOMAIN graphs' = DOMAIN graphs /\ graphs'[owner.at] = g
        /\ \A m \in DOMAIN graphs : m # owner.at => graphs'[m] = graphs[m]
    BY <1>9, <2>1
  <2>3. graphs' \in [DOMAIN graphs' -> GraphOf]
    BY <1>4, <1>9, <2>2
  <2>4. QED
    BY <1>4, <1>9, <2>2, <2>3 DEF GraphsAreSound
<1>10. HasCanvas =>
         /\ Graph \in GraphOf /\ Graph.next \in Nat /\ Graph.next >= 1
         /\ Graph.nodes \in SUBSET [id : Nat, code : CodeOf]
         /\ \A n \in Graph.nodes : n.id \in 1 .. Graph.next - 1
  <2>. SUFFICES ASSUME HasCanvas
       PROVE /\ Graph \in GraphOf /\ Graph.next \in Nat /\ Graph.next >= 1
             /\ Graph.nodes \in SUBSET [id : Nat, code : CodeOf]
             /\ \A n \in Graph.nodes : n.id \in 1 .. Graph.next - 1
    OBVIOUS
  <2>1. Graph \in GraphOf
    BY <1>4 DEF HasCanvas, Graph
  <2>2. Graph.next >= 1 /\ \A n \in Graph.nodes : n.id \in 1 .. Graph.next - 1
    BY <1>4 DEF HasCanvas, Graph
  <2>3. Graph.next \in Nat /\ Graph.nodes \in SUBSET [id : Nat, code : CodeOf]
    BY <2>1 DEF GraphOf
  <2>4. QED
    BY <2>1, <2>2, <2>3
<1>11. ASSUME NEW n \in Found
       PROVE  /\ HasCanvas /\ n \in Graph.nodes /\ n \in [id : Nat, code : CodeOf]
              /\ n.id \in 1 .. Graph.next - 1 /\ n.code \in CodeOf
  <2>1. HasCanvas /\ n \in Graph.nodes
    BY DEF Found
  <2>2. n \in [id : Nat, code : CodeOf]
    BY <1>10, <2>1
  <2>3. QED
    BY <1>10, <2>1, <2>2
<1>12. CASE CreateCanvas
  <2>1. CASE owner.at \in DOMAIN graphs
    BY <1>8, <1>12, <2>1 DEF CreateCanvas
  <2>2. CASE owner.at \notin DOMAIN graphs
    <3>1. owner.at \in Canvas
      BY <1>2, <1>12 DEF CreateCanvas, Runs, Places
    <3>2. EmptyGraph \in GraphOf /\ EmptyGraph.nodes = {} /\ EmptyGraph.next = 1
      BY DEF EmptyGraph, GraphOf
    <3>3. graphs' = [m \in DOMAIN graphs \cup {owner.at} |->
                          IF m = owner.at THEN EmptyGraph ELSE graphs[m]]
          /\ Reply(Yes(None))
      BY <1>12, <2>2 DEF CreateCanvas
    <3>4. GraphsAreSound'
      <4>1. DOMAIN graphs' = DOMAIN graphs \cup {owner.at} /\ graphs'[owner.at] = EmptyGraph
            /\ \A m \in DOMAIN graphs : graphs'[m] = graphs[m]
        BY <2>2, <3>3
      <4>2. graphs' \in [DOMAIN graphs' -> GraphOf]
        BY <1>4, <3>2, <3>3
      <4>3. QED
        BY <1>4, <3>1, <3>2, <4>1, <4>2 DEF GraphsAreSound
    <3>5. QED
      BY <1>1, <1>3, <1>6, <3>3, <3>4, RepliedKept
  <2>3. QED
    BY <2>1, <2>2
<1>13. CASE ListCanvases
  <2>. DEFINE r == Yes(<<"canvases", DOMAIN graphs>>)
  <2>1. r.ok \in BOOLEAN /\ r.val \in Val
    BY <1>4 DEF Yes, Val
  <2>2. Reply(r) /\ GraphsAreSound'
    BY <1>5, <1>13 DEF ListCanvases, state, GraphsAreSound
  <2>. HIDE DEF r
  <2>3. QED
    BY <1>1, <1>3, <2>1, <2>2, RepliedKept
<1>14. CASE CreateNode
  <2>1. CASE ~HasCanvas
    BY <1>8, <1>14, <2>1 DEF CreateNode
  <2>2. CASE HasCanvas
    <3>. DEFINE g == With(Graph, Code)
                r == Yes(<<"id", Graph.next>>)
                n == [id |-> Graph.next, code |-> Code]
    <3>1. graphs' = [graphs EXCEPT ![owner.at] = g] /\ Reply(r)
      BY <1>14, <2>2 DEF CreateNode, Graph
    <3>2. n \in [id : Nat, code : CodeOf] /\ n.id = Graph.next
      BY <1>7, <1>10, <2>2
    <3>3. g = [nodes |-> Graph.nodes \cup {n}, next |-> Graph.next + 1]
      BY DEF With
    <3>. HIDE DEF n, g
    <3>4. g.nodes = Graph.nodes \cup {n} /\ g.next = Graph.next + 1
      BY <3>3
    <3>5. g \in GraphOf /\ g.next >= 1
      BY <1>10, <2>2, <3>2, <3>3 DEF GraphOf
    <3>6. \A x \in g.nodes : x.id \in 1 .. g.next - 1
      BY <1>10, <2>2, <3>2, <3>4
    <3>7. GraphsAreSound'
      BY <1>9, <2>2, <3>1, <3>5, <3>6
    <3>8. r.ok \in BOOLEAN /\ r.val \in Val
      BY <1>10, <2>2 DEF Yes, Val
    <3>. HIDE DEF r
    <3>9. QED
      BY <1>1, <1>3, <3>1, <3>7, <3>8, RepliedKept
  <2>3. QED
    BY <2>1, <2>2
<1>15. CASE DeleteNode
  <2>1. CASE Found = {} /\ Fails
    BY <1>8, <2>1
  <2>2. ASSUME NEW n \in Found,
               graphs' = [graphs EXCEPT ![owner.at].nodes = @ \ {n}], Reply(Yes(None))
        PROVE  NreplKept'
    <3>. DEFINE g == [Graph EXCEPT !.nodes = Graph.nodes \ {n}]
    <3>1. graphs' = [graphs EXCEPT ![owner.at] = g]
      BY <1>11, <2>2 DEF Graph
    <3>2. g \in GraphOf /\ g.next = Graph.next /\ g.nodes = Graph.nodes \ {n}
      BY <1>10, <1>11 DEF GraphOf
    <3>. HIDE DEF g
    <3>3. GraphsAreSound'
      BY <1>9, <1>10, <1>11, <3>1, <3>2
    <3>4. QED
      BY <1>1, <1>3, <1>6, <2>2, <3>3, RepliedKept
  <2>3. QED
    BY <1>15, <2>1, <2>2 DEF DeleteNode
<1>16. CASE UpdateNode
  <2>1. CASE Found = {} /\ Fails
    BY <1>8, <2>1
  <2>2. ASSUME NEW n \in Found, Reply(Yes(None)),
               graphs' = [graphs EXCEPT ![owner.at].nodes =
                            (@ \ {n}) \cup {[n EXCEPT !.code = Code]}]
        PROVE  NreplKept'
    <3>. DEFINE m == [n EXCEPT !.code = Code]
                g == [Graph EXCEPT !.nodes = (Graph.nodes \ {n}) \cup {m}]
    <3>1. graphs' = [graphs EXCEPT ![owner.at] = g]
      BY <1>11, <2>2 DEF Graph
    <3>2. m \in [id : Nat, code : CodeOf] /\ m.id = n.id
      BY <1>7, <1>11
    <3>. HIDE DEF m
    <3>3. g \in GraphOf /\ g.next = Graph.next /\ g.nodes = (Graph.nodes \ {n}) \cup {m}
      BY <1>10, <1>11, <3>2 DEF GraphOf
    <3>. HIDE DEF g
    <3>4. GraphsAreSound'
      BY <1>9, <1>10, <1>11, <3>1, <3>2, <3>3
    <3>5. QED
      BY <1>1, <1>3, <1>6, <2>2, <3>4, RepliedKept
  <2>3. QED
    BY <1>16, <2>1, <2>2 DEF UpdateNode
<1>17. CASE NodeState
  <2>1. GraphsAreSound'
    BY <1>5, <1>17 DEF NodeState, state, GraphsAreSound
  <2>2. CASE Reply(No)
    BY <1>1, <1>3, <1>6, <2>1, <2>2, RepliedKept
  <2>3. ASSUME NEW n \in Found, Reply(Yes(<<"code", n.code>>)) PROVE NreplKept'
    <3>. DEFINE r == Yes(<<"code", n.code>>)
    <3>1. r.ok \in BOOLEAN /\ r.val \in Val
      BY <1>11 DEF Yes, Val
    <3>2. Reply(r)
      BY <2>3
    <3>. HIDE DEF r
    <3>3. QED
      BY <1>1, <1>3, <2>1, <3>1, <3>2, RepliedKept
  <2>4. QED
    BY <1>17, <2>2, <2>3 DEF NodeState
<1>18. CASE ComputeNode
  <2>1. CASE Found = {} /\ Fails
    BY <1>8, <2>1
  <2>2. CASE graphs' = graphs /\ Reply(Yes(None))
    <3>1. GraphsAreSound'
      BY <1>5, <2>2 DEF GraphsAreSound
    <3>2. QED
      BY <1>1, <1>3, <1>6, <2>2, <3>1, RepliedKept
  <2>3. QED
    BY <1>18, <2>1, <2>2 DEF ComputeNode
<1>19. QED
  BY <1>12, <1>13, <1>14, <1>15, <1>16, <1>17, <1>18 DEF RunCommand

-----------------------------------------------------------------------------
(***************************************************************************)
(* The steps                                                               *)
(***************************************************************************)

LEMMA NreplNextKept ==
  ASSUME NreplKept, [Next]_vars PROVE NreplKept'
<1>1. ASSUME NEW c \in Clients, Serve(c) PROVE NreplKept'
  BY <1>1, ReadRequestKept, AnsweringKept, StartReadingKept, SendCommandKept DEF Serve
<1>2. ASSUME UNCHANGED <<net, read, serving, answers, channel, owner, graphs, sess, reply>>
      PROVE  NreplKept'
  BY <1>2 DEF net, sess, NreplKept, NetTypes, ServerTypes, TasksArePlaced, GraphsAreSound,
              SessionsAreGiven, RequestsInTurn, Busy, CommandsInOrder, NotYetAsked
<1>3. ASSUME NEW p \in pending, NodeComputed(p) PROVE NreplKept'
  BY <1>2, <1>3 DEF NodeComputed
<1>4. CASE UNCHANGED vars
  BY <1>2, <1>4 DEF vars, state
<1>5. QED
  BY <1>1, <1>3, <1>4, AskKept, PollCommandKept, RunCommandKept DEF Next, OwnerActs

LEMMA NreplAlwaysKept == Spec => []NreplKept
<1>1. Init => NreplKept
  BY NreplInitKept
<1>2. NreplKept /\ [Next]_vars => NreplKept'
  BY NreplNextKept
<1>3. QED
  BY <1>1, <1>2, PTL DEF Spec

LEMMA NreplKeptIsTyped == NreplKept => TypeOK
<1>. SUFFICES ASSUME NreplKept PROVE TypeOK
  OBVIOUS
<1>1. ASSUME NEW c \in Clients
      PROVE  /\ serving[c].phase \in {"idle", "serve", "reading", "torn", "await"}
             /\ serving[c].phase = "idle" => serving[c] = Idle
             /\ reply[c].num \in 0 .. read[c]
  <2>1. serving[c].phase \in {"idle", "serve", "reading", "torn", "await"}
    BY DEF NreplKept, ServerTypes, Task
  <2>2. serving[c].phase = "idle" => serving[c] = Idle
    BY BusyIs
  <2>3. reply[c].num \in 0 .. read[c]
    BY CommandIs DEF NreplKept, CommandsInOrder
  <2>4. QED
    BY <2>1, <2>2, <2>3
<1>2. ASSUME NEW m \in DOMAIN graphs, NEW n \in graphs[m].nodes
      PROVE  n.id \in 1 .. graphs[m].next - 1 /\ n.code \in Clients \X Nat
  <2>1. graphs[m] \in GraphOf /\ n.id \in 1 .. graphs[m].next - 1
    BY DEF NreplKept, GraphsAreSound
  <2>2. n \in [id : Nat, code : CodeOf]
    BY <2>1 DEF GraphOf
  <2>3. QED
    BY <2>1, <2>2 DEF CodeOf
<1>3. QED
  BY <1>1, <1>2 DEF NreplKept, NetTypes, GraphsAreSound, SessionsAreGiven, TypeOK

-----------------------------------------------------------------------------
(***************************************************************************)
(* Theorems                                                                *)
(***************************************************************************)

\* On every connection each request is answered once and in turn, however many
\* clients ask, give up, leave or time out (server.rs handle_client answers one
\* request before it reads the next).
THEOREM RequestsAreAnsweredInTurn == Spec => []AnswersInTurn
<1>1. NreplKept => AnswersInTurn
  <2>. SUFFICES ASSUME NreplKept PROVE AnswersInTurn
    OBVIOUS
  <2>1. ASSUME NEW c \in Clients
        PROVE  LET underWay == [i \in DOMAIN answers[c] |-> answers[c][i].num]
                   atHand == IF serving[c] = Idle THEN << >> ELSE <<read[c]>>
               IN underWay \o atHand = [i \in 1 .. read[c] - got[c] |-> got[c] + i]
    <3>. DEFINE n == Len(answers[c])
                g == got[c]
                underWay == [i \in DOMAIN answers[c] |-> answers[c][i].num]
    <3>1. /\ g \in Nat /\ read[c] \in Nat /\ n \in Nat
          /\ serving[c] = Idle <=> serving[c].phase = "idle"
          /\ serving[c].phase # "idle" => g + n + 1 = read[c]
          /\ serving[c].phase = "idle" => g + n = read[c]
      BY BusyIs
    <3>2. \A i \in 1 .. n : answers[c][i].num = g + i
      BY DEF NreplKept, RequestsInTurn
    <3>3. DOMAIN answers[c] = 1 .. n
      BY DEF NreplKept, ServerTypes
    <3>. HIDE DEF n, g
    <3>4. underWay = [i \in 1 .. n |-> g + i]
      BY <3>2, <3>3
    <3>5. underWay \in Seq(Nat) /\ Len(underWay) = n
      <4>1. \A i \in 1 .. n : g + i \in Nat
        BY <3>1
      <4>. DEFINE f == [i \in 1 .. n |-> g + i]
      <4>2. f \in [1 .. n -> Nat]
        BY <4>1
      <4>3. f \in Seq(Nat)
        BY <3>1, <4>2, SeqDef
      <4>4. DOMAIN f = 1 .. n
        OBVIOUS
      <4>. HIDE DEF f
      <4>5. Len(f) = n
        BY <3>1, <4>3, <4>4, LenProperties
      <4>6. QED
        BY <3>4, <4>3, <4>5 DEF f
    <3>6. CASE serving[c] = Idle
      <4>1. read[c] - g = n
        BY <3>1, <3>6
      <4>2. underWay \o << >> = underWay
        BY <3>5, ConcatEmptySeq
      <4>. HIDE DEF underWay
      <4>3. underWay \o << >> = [i \in 1 .. read[c] - g |-> g + i]
        BY <3>4, <4>1, <4>2
      <4>4. QED
        BY <3>6, <4>3 DEF underWay, g
    <3>7. CASE serving[c] # Idle
      <4>1. read[c] - g = n + 1 /\ read[c] = g + (n + 1)
        BY <3>1, <3>7
      <4>. DEFINE s == underWay \o <<read[c]>>
                  f == [i \in 1 .. n + 1 |-> g + i]
      <4>2. <<read[c]>> \in Seq(Nat) /\ Len(<<read[c]>>) = 1 /\ <<read[c]>>[1] = read[c]
        BY <3>1
      <4>3. \A i \in 1 .. n : underWay[i] = g + i
        BY <3>4
      <4>. HIDE DEF underWay
      <4>4. /\ s \in Seq(Nat) /\ Len(s) = n + 1
            /\ \A i \in 1 .. n + 1 : s[i] = IF i <= n THEN underWay[i] ELSE <<read[c]>>[i - n]
        BY <3>5, <4>2, ConcatProperties
      <4>5. DOMAIN s = 1 .. n + 1
        BY <4>4, LenProperties
      <4>6. \A i \in 1 .. n + 1 : s[i] = g + i
        <5>1. ASSUME NEW i \in 1 .. n + 1 PROVE s[i] = g + i
          <6>1. CASE i <= n
            BY <3>1, <4>3, <4>4, <6>1
          <6>2. CASE ~(i <= n)
            <7>1. i = n + 1 /\ i - n = 1
              BY <3>1, <6>2
            <7>2. s[i] = <<read[c]>>[1]
              BY <4>4, <6>2, <7>1
            <7>3. QED
              BY <4>1, <4>2, <7>1, <7>2
          <6>3. QED
            BY <6>1, <6>2
        <5>2. QED
          BY <5>1
      <4>7. s = [i \in DOMAIN s |-> s[i]]
        <5>. HIDE DEF s
        <5>1. QED
          BY <4>4
      <4>. HIDE DEF s
      <4>8. s = f
        BY <4>5, <4>6, <4>7
      <4>9. s = [i \in 1 .. read[c] - g |-> g + i]
        BY <4>1, <4>8
      <4>10. QED
        BY <3>7, <4>9 DEF s, underWay, g
    <3>8. QED
      BY <3>6, <3>7
  <2>2. QED
    BY <2>1, NreplKeptIsTyped DEF AnswersInTurn
<1>2. QED
  BY <1>1, NreplAlwaysKept, PTL

\* A command is run at most once and the commands of a client in the order it asked
\* for them, those that timed out included (send_command leaves them in the channel).
THEOREM CommandsAlwaysRunInOrder == Spec => RunOnceInOrder
<1>1. ASSUME NreplKept, [Next]_vars, NEW c \in Clients, owner # None, owner.client = c, owner' = None
      PROVE  reply'[c].num > reply[c].num
  <2>1. owner \in Cmd /\ owner.num \in Nat
    BY <1>1, CommandIs DEF NreplKept, ServerTypes
  <2>2. PICK r : Reply(r)
    <3>1. CASE RunCommand
      BY <3>1 DEF RunCommand, CreateCanvas, ListCanvases, CreateNode, DeleteNode, UpdateNode, NodeState,
         ComputeNode, Fails
    <3>2. ASSUME owner' = owner PROVE FALSE
      BY <1>1, <3>2
    <3>3. ~PollCommand
      BY <1>1 DEF PollCommand
    <3>4. ASSUME NEW d \in Clients, Ask(d) PROVE FALSE
      BY <3>2, <3>4 DEF Ask, Send, TakeAnswer, GiveUp, Leave
    <3>5. ASSUME NEW d \in Clients, Serve(d) PROVE FALSE
      BY <3>2, <3>5 DEF Serve, ReadRequest, Clone, InSession, Close, Eval, SwitchNs, LoadFile,
         StartReading, NsList, LookUp, SendCommand, TakeReply, CommandTimeout
    <3>6. ASSUME NEW p \in pending, NodeComputed(p) PROVE FALSE
      BY <3>2, <3>6 DEF NodeComputed
    <3>7. ~UNCHANGED vars
      BY <3>2 DEF vars
    <3>8. QED
      BY <1>1, <3>1, <3>3, <3>4, <3>5, <3>6, <3>7 DEF Next, OwnerActs
  <2>3. reply'[c].num = owner.num
    BY <1>1, <2>2 DEF Reply, NreplKept, ServerTypes
  <2>4. reply[c].num < owner.num /\ reply[c].num \in Nat
    BY <1>1, CommandIs DEF NreplKept, CommandsInOrder
  <2>5. QED
    BY <2>1, <2>3, <2>4
<1>2. NreplKept /\ [Next]_vars =>
        \A c \in Clients : owner # None /\ owner.client = c /\ owner' = None =>
          reply'[c].num > reply[c].num
  BY <1>1
<1>3. Spec => [][\A c \in Clients :
                   owner # None /\ owner.client = c /\ owner' = None =>
                     reply'[c].num > reply[c].num]_vars
  BY <1>2, NreplAlwaysKept, PTL DEF Spec
<1>4. QED
  BY <1>3 DEF RunOnceInOrder

\* An answer of success to a command is what the owner replied to that very command,
\* but for the empty list of canvases (send_command makes a channel for each reply).
THEOREM SuccessIsAlwaysTheOwners == Spec => SuccessIsTheOwners
<1>. DEFINE Sound(c) ==
       LET a == Last(answers'[c]) IN
       /\ Len(answers'[c]) > Len(answers[c])
       /\ a.op \in CommandOps /\ a.ok
       /\ a.val # <<"canvases", {}>>
       => reply[c] = [num |-> a.num, ok |-> TRUE, val |-> a.val]
<1>1. ASSUME NreplKept, [Next]_vars, NEW c \in Clients,
             Len(answers'[c]) > Len(answers[c]),
             NEW a, a = Last(answers'[c]), a.op \in CommandOps, a.ok, a.val # <<"canvases", {}>>
      PROVE  reply[c] = [num |-> a.num, ok |-> TRUE, val |-> a.val]
  <2>1. answers \in [Clients -> Seq(AnswerOf)] /\ answers[c] \in Seq(AnswerOf) /\ Len(answers[c]) \in Nat
    BY <1>1 DEF NreplKept, ServerTypes
  <2>2. ASSUME answers'[c] = answers[c] PROVE FALSE
    BY <1>1, <2>1, <2>2
  \* What is the answer.
  <2>3. ASSUME NEW d \in Clients, NEW r, Answer(d, r)
        PROVE  c = d /\ a = [num |-> read[c], op |-> serving[c].op, ok |-> r.ok, val |-> r.val]
    <3>. DEFINE b == [num |-> read[d], op |-> serving[d].op, ok |-> r.ok, val |-> r.val]
    <3>1. answers' = [answers EXCEPT ![d] = Append(answers[d], b)]
      BY <2>3 DEF Answer
    <3>. HIDE DEF b
    <3>2. c = d
      BY <2>1, <2>2, <3>1
    <3>3. answers'[c] = Append(answers[c], b)
      BY <2>1, <3>1, <3>2
    <3>4. Len(Append(answers[c], b)) = Len(answers[c]) + 1
          /\ Append(answers[c], b)[Len(answers[c]) + 1] = b
      BY <2>1, AppendIs
    <3>5. a = b
      BY <1>1, <3>3, <3>4 DEF Last
    <3>6. QED
      BY <3>2, <3>5 DEF b
  <2>4. ASSUME NEW d \in Clients, NEW op \in SessionOps \cup ReadOps, serving[d].op = op, NEW r, Answer(d, r)
        PROVE  FALSE
    <3>1. a.op = op
      BY <2>3, <2>4
    <3>2. op \notin CommandOps
      BY DEF SessionOps, ReadOps, CommandOps
    <3>3. QED
      BY <1>1, <3>1, <3>2
  <2>5. ASSUME NEW d \in Clients, Ask(d) PROVE FALSE
    <3>1. CASE TakeAnswer(d)
      <4>1. answers[d] \in Seq(AnswerOf) /\ answers[d] # << >>
        BY <2>1, <3>1 DEF TakeAnswer
      <4>2. Len(Tail(answers[d])) = Len(answers[d]) - 1
        BY <4>1, HeadTailProperties
      <4>3. answers'[c] = answers[c] \/ (c = d /\ answers'[c] = Tail(answers[c]))
        BY <2>1, <3>1 DEF TakeAnswer
      <4>4. c = d /\ Len(answers'[c]) = Len(answers[c]) - 1
        BY <2>2, <4>2, <4>3
      <4>5. \A n \in Nat : ~(n - 1 > n)
        OBVIOUS
      <4>6. QED
        BY <1>1, <2>1, <4>4, <4>5
    <3>2. CASE ~TakeAnswer(d)
      BY <2>2, <2>5, <3>2 DEF Ask, Send, GiveUp, Leave
    <3>3. QED
      BY <3>1, <3>2
  <2>6. ASSUME NEW d \in Clients, ReadRequest(d) \/ StartReading(d) \/ SendCommand(d) PROVE FALSE
    BY <2>2, <2>6 DEF ReadRequest, StartReading, SendCommand
  <2>7. ASSUME NEW d \in Clients,
               Clone(d) \/ InSession(d) \/ NsList(d) \/ LookUp(d)
        PROVE  FALSE
    <3>1. \E op \in SessionOps \cup ReadOps : serving[d].op = op
      BY <2>7 DEF Clone, InSession, Close, Eval, SwitchNs, LoadFile, NsList, LookUp, Serves, Reading,
                  SessionOps, ReadOps
    <3>2. \E r : Answer(d, r)
      BY <2>7 DEF Clone, InSession, Close, Eval, SwitchNs, LoadFile, NsList, LookUp
    <3>3. QED
      BY <2>4, <3>1, <3>2
  <2>8. ASSUME OwnerActs \/ UNCHANGED vars PROVE FALSE
    <3>1. answers' = answers
      BY <2>8 DEF OwnerActs, PollCommand, RunCommand, CreateCanvas, ListCanvases, CreateNode, DeleteNode,
                  UpdateNode, NodeState, ComputeNode, NodeComputed, vars
    <3>2. QED
      BY <2>2, <3>1
  <2>9. ASSUME NEW d \in Clients, TakeReply(d)
        PROVE  reply[c] = [num |-> a.num, ok |-> TRUE, val |-> a.val]
    <3>1. Answer(d, [ok |-> reply[d].ok, val |-> reply[d].val]) /\ reply[d].num = read[d]
      BY <2>9 DEF TakeReply, HasReply
    <3>2. c = d /\ a.num = read[c] /\ a.ok = reply[c].ok /\ a.val = reply[c].val
      BY <2>3, <3>1
    <3>3. reply[c] \in ReplyOf
      BY <1>1 DEF NreplKept, ServerTypes
    <3>4. reply[c] = [num |-> reply[c].num, ok |-> reply[c].ok, val |-> reply[c].val] /\ reply[c].ok \in BOOLEAN
      BY <3>3 DEF ReplyOf
    <3>5. reply[c].ok = TRUE
      BY <1>1, <3>2, <3>4
    <3>6. QED
      BY <3>1, <3>2, <3>4, <3>5
  <2>10. ASSUME NEW d \in Clients, CommandTimeout(d) PROVE FALSE
    <3>1. Answer(d, Unanswered(serving[d].op))
      BY <2>10 DEF CommandTimeout
    <3>2. a.ok = Unanswered(serving[d].op).ok /\ a.val = Unanswered(serving[d].op).val
      BY <2>3, <3>1
    <3>3. Unanswered(serving[d].op).ok => Unanswered(serving[d].op).val = <<"canvases", {}>>
      BY DEF Unanswered, Yes, No
    <3>4. QED
      BY <1>1, <3>2, <3>3
  <2>11. QED
    BY <1>1, <2>5, <2>6, <2>7, <2>8, <2>9, <2>10 DEF Next, Serve
<1>2. NreplKept /\ [Next]_vars => \A c \in Clients : Sound(c)
  BY <1>1
<1>3. Spec => [][\A c \in Clients : Sound(c)]_vars
  BY <1>2, NreplAlwaysKept, PTL DEF Spec
<1>4. QED
  BY <1>3 DEF SuccessIsTheOwners

-----------------------------------------------------------------------------
(***************************************************************************)
(* The invariant                                                           *)
(***************************************************************************)

Kinds == {"value", "done", "whole"}
PartOf == [of : Calls, kind : Kinds]
ToolAnswer == [of : Calls \cup {NoCall}, kind : Kinds \cup {"error", "unknown", "ok"}]
Result == [of : Calls, answer : ToolAnswer]
AssistantMsg == [role : {"assistant"}, calls : Seq(Call)]
ToolMsg == [role : {"tool"}, results : Seq(Result)]
Msg == {User} \cup AssistantMsg \cup ToolMsg

AgentTypes ==
  /\ stage \in {"start", "ask", "tools", "stopped"}
  /\ talk \in Seq(Msg)
  /\ todo \in Nat
  /\ awaited \in Calls \cup {NoCall}
  /\ responses \in Seq(PartOf)
  /\ requested \in Seq(Call)
  /\ served \in 0 .. Len(requested)
  /\ inbox \in Seq(PartOf)
  /\ late \in BOOLEAN

Spots == 1 .. Len(talk)
Calling(tk, k) == k \in 1 .. Len(tk) /\ tk[k].role = "assistant"
Resulting(tk, k) == k \in 1 .. Len(tk) /\ tk[k].role = "tool"
Callings == {k \in DOMAIN talk : talk[k].role = "assistant"}

\* Calls are numbered by turn and place; results are those of the calls of the
\* message before, and are all of them or not yet.
Numbered(calls, turns) == \E t \in 1 .. turns : \A i \in 1 .. Len(calls) : calls[i].id = <<t, i>>
AnswersTo(tk, k) ==
  /\ k > 1 /\ Calling(tk, k - 1)
  /\ Len(tk[k].results) <= Len(tk[k - 1].calls)
  /\ \A i \in 1 .. Len(tk[k].results) : tk[k].results[i].of = tk[k - 1].calls[i].id
Full(tk, k) == Len(tk[k].results) = Len(tk[k - 1].calls)

TalkIsSound ==
  /\ Len(talk) >= 1 /\ Turn \in Nat /\ IsFiniteSet(Callings)
  /\ stage \in {"start", "ask", "tools"} => ~Calling(talk, Len(talk))
  /\ \A k \in Spots : Calling(talk, k) =>
       Numbered(talk[k].calls, Turn - 1) /\ (k < Len(talk) => Resulting(talk, k + 1))
  /\ \A k \in Spots : Resulting(talk, k) =>
       AnswersTo(talk, k) /\ (Full(talk, k) \/ (stage = "tools" /\ k = Len(talk)))
  /\ stage = "tools" =>
       Resulting(talk, Len(talk)) /\ todo = Len(ResultsOfLast) + 1 /\ todo <= Len(CallsOfLast)

\* Requests follow the order of the calls up to the one at hand.
RequestsInOrder ==
  /\ \A i, j \in 1 .. Len(requested) : i < j => Before(requested[i].id, requested[j].id)
  /\ \A j \in 1 .. Len(requested) : requested[j].id[1] < Turn
  /\ stage = "tools" /\ awaited = NoCall =>
       \A j \in 1 .. Len(requested) : Before(requested[j].id, Current.id)
  /\ awaited # NoCall =>
       /\ stage = "tools" /\ awaited = Current.id
       /\ Len(requested) >= 1 /\ requested[Len(requested)].id = awaited

\* Messages of the server come in the order of the requests, and the end of an
\* answer is its last.
StreamInOrder ==
  /\ \A p \in 1 .. Len(inbox) : \E j \in 1 .. served : inbox[p].of = requested[j].id
  /\ \A p, q \in 1 .. Len(inbox) : p < q =>
       inbox[p].of = inbox[q].of \/ Before(inbox[p].of, inbox[q].of)
  /\ \A p, q \in 1 .. Len(inbox) : p < q /\ inbox[p].kind # "value" =>
       Before(inbox[p].of, inbox[q].of)
  /\ \A p \in 1 .. Len(inbox) : inbox[p].kind = "value" =>
       p < Len(inbox) /\ inbox[p + 1] = [of |-> inbox[p].of, kind |-> "done"]
  /\ awaited = NoCall => responses = << >>
  /\ \/ responses = << >>
     \/ /\ Len(responses) = 1 /\ responses[1].kind = "value"
        /\ Len(inbox) >= 1 /\ inbox[1] = [of |-> responses[1].of, kind |-> "done"]

\* An answer that was given to the LLM is behind: what comes is of later calls.
GivenIsBehind ==
  \A k \in Spots : \A i \in Held(k) :
    LET c == talk[k].results[i].answer.of IN
    /\ \E j \in 1 .. served : c = requested[j].id
    /\ \A p \in 1 .. Len(inbox) : Before(c, inbox[p].of)

\* Until a read times out, the server has answered all requests but the one whose
\* answer is awaited, and only that one's messages are there.
InStep ==
  ~late =>
    /\ \A p \in 1 .. Len(inbox) : awaited # NoCall /\ inbox[p].of = awaited
    /\ \/ served = Len(requested)
       \/ awaited # NoCall /\ served = Len(requested) - 1 /\ inbox = << >>

AgentKept ==
  /\ AgentTypes /\ TalkIsSound /\ RequestsInOrder /\ StreamInOrder
  /\ GivenIsBehind /\ InStep /\ AnswersAreOwn /\ AnswersMoveForward

-----------------------------------------------------------------------------
(***************************************************************************)
(* Calls and messages                                                      *)
(***************************************************************************)

LEMMA NoCallIsNone == NoCall \notin Calls
<1>1. \A c \in Calls : c[1] # 0
  BY AgentAssumption DEF Calls
<1>2. NoCall[1] = 0
  BY DEF NoCall
<1>3. QED
  BY <1>1, <1>2

LEMMA BeforeIsOrder ==
  /\ \A a, b, c \in Calls : Before(a, b) /\ Before(b, c) => Before(a, c)
  /\ \A a \in Calls : ~Before(a, a)
  /\ \A a, b \in Calls : Before(a, b) => ~Before(b, a)
<1>1. \A a \in Calls : a[1] \in Nat /\ a[2] \in Nat
  BY AgentAssumption DEF Calls
<1>2. QED
  BY <1>1 DEF Before

LEMMA RoleIs ==
  /\ User.role = "user"
  /\ \A m \in AssistantMsg : m.role = "assistant" /\ m.calls \in Seq(Call)
  /\ \A m \in ToolMsg : m.role = "tool" /\ m.results \in Seq(Result)
  /\ \A m \in Msg : m.role \in {"user", "assistant", "tool"}
  /\ \A m \in Msg : m.role = "assistant" => m \in AssistantMsg
  /\ \A m \in Msg : m.role = "tool" => m \in ToolMsg
<1>1. User.role = "user"
  BY DEF User
<1>2. \A m \in AssistantMsg : m.role = "assistant" /\ m.calls \in Seq(Call)
  BY DEF AssistantMsg
<1>3. \A m \in ToolMsg : m.role = "tool" /\ m.results \in Seq(Result)
  BY DEF ToolMsg
<1>4. QED
  BY <1>1, <1>2, <1>3 DEF Msg

LEMMA TalkIs ==
  ASSUME AgentTypes, NEW k \in Spots
  PROVE  /\ talk[k] \in Msg
         /\ Calling(talk, k) => /\ talk[k].calls \in Seq(Call) /\ Len(talk[k].calls) \in Nat
                              /\ \A i \in 1 .. Len(talk[k].calls) : talk[k].calls[i] \in Call
         /\ Resulting(talk, k) => /\ talk[k].results \in Seq(Result) /\ Len(talk[k].results) \in Nat
                         /\ \A i \in 1 .. Len(talk[k].results) : talk[k].results[i] \in Result
                         /\ DOMAIN talk[k].results = 1 .. Len(talk[k].results)
<1>1. talk \in Seq(Msg)
  BY DEF AgentTypes
<1>2. talk[k] \in Msg
  BY <1>1 DEF Spots
<1>3. Calling(talk, k) => talk[k].calls \in Seq(Call)
  BY <1>2, RoleIs DEF Calling
<1>4. Resulting(talk, k) => talk[k].results \in Seq(Result)
  BY <1>2, RoleIs DEF Resulting
<1>5. QED
  BY <1>2, <1>3, <1>4

LEMMA CallIs ==
  /\ \A c \in Call : c.id \in Calls /\ c.tool \in Tools
  /\ \A r \in Result : r.of \in Calls /\ r.answer \in ToolAnswer /\ r.answer.of \in Calls \cup {NoCall}
  /\ \A p \in PartOf : p.of \in Calls /\ p.kind \in Kinds /\ p \in ToolAnswer /\ p = [of |-> p.of, kind |-> p.kind]
<1>1. \A c \in Call : c.id \in Calls /\ c.tool \in Tools
  BY DEF Call
<1>2. \A r \in Result : r.of \in Calls /\ r.answer \in ToolAnswer /\ r.answer.of \in Calls \cup {NoCall}
  BY DEF Result, ToolAnswer
<1>3. \A p \in PartOf : p.of \in Calls /\ p.kind \in Kinds /\ p \in ToolAnswer /\ p = [of |-> p.of, kind |-> p.kind]
  BY DEF PartOf, ToolAnswer
<1>4. QED
  BY <1>1, <1>2, <1>3

\* Results that hold something.
LEMMA HeldIs ==
  ASSUME AgentTypes, NEW k \in Spots, NEW i \in Held(k)
  PROVE  /\ Resulting(talk, k) /\ i \in 1 .. Len(talk[k].results) /\ i \in Nat
         /\ talk[k].results[i] \in Result
         /\ talk[k].results[i].answer.of \in Calls /\ talk[k].results[i].of \in Calls
<1>1. Resulting(talk, k) /\ i \in DOMAIN talk[k].results /\ talk[k].results[i].answer.of # NoCall
  BY DEF Held, Resulting, Spots
<1>2. i \in 1 .. Len(talk[k].results) /\ talk[k].results[i] \in Result
  BY <1>1, TalkIs
<1>3. i \in Nat
  BY <1>1, <1>2, TalkIs
<1>4. QED
  BY <1>1, <1>2, <1>3, CallIs

\* The call at hand.
LEMMA CurrentIs ==
  ASSUME AgentKept, stage = "tools"
  PROVE  /\ Len(talk) \in Spots /\ Len(talk) - 1 \in Spots
         /\ Resulting(talk, Len(talk)) /\ Calling(talk, Len(talk) - 1)
         /\ CallsOfLast \in Seq(Call) /\ ResultsOfLast \in Seq(Result)
         /\ Len(CallsOfLast) \in Nat /\ Len(ResultsOfLast) \in Nat
         /\ todo \in 1 .. Len(CallsOfLast) /\ todo = Len(ResultsOfLast) + 1
         /\ Current \in Call /\ Current.id \in Calls
         /\ Numbered(CallsOfLast, Turn - 1)
<1>1. Len(talk) \in Nat /\ Len(talk) >= 1
  BY DEF AgentKept, AgentTypes, TalkIsSound
<1>2. Len(talk) \in Spots
  BY <1>1 DEF Spots
<1>3. Resulting(talk, Len(talk)) /\ todo = Len(ResultsOfLast) + 1 /\ todo <= Len(CallsOfLast)
  BY DEF AgentKept, TalkIsSound
<1>4. Len(talk) > 1 /\ Calling(talk, Len(talk) - 1)
  BY <1>2, <1>3 DEF AgentKept, TalkIsSound, AnswersTo
<1>5. Len(talk) - 1 \in Spots
  BY <1>1, <1>4 DEF Spots
<1>6. CallsOfLast \in Seq(Call) /\ Len(CallsOfLast) \in Nat
  BY <1>4, <1>5, TalkIs DEF AgentKept, CallsOfLast
<1>7. ResultsOfLast \in Seq(Result) /\ Len(ResultsOfLast) \in Nat
  BY <1>2, <1>3, TalkIs DEF AgentKept, ResultsOfLast
<1>8. todo \in 1 .. Len(CallsOfLast)
  BY <1>3, <1>6, <1>7
<1>9. Current \in Call /\ Current.id \in Calls
  BY <1>6, <1>8, CallIs DEF Current
<1>10. Numbered(CallsOfLast, Turn - 1)
  BY <1>4, <1>5 DEF AgentKept, TalkIsSound, CallsOfLast
<1>11. QED
  BY <1>2, <1>3, <1>4, <1>5, <1>6, <1>7, <1>8, <1>9, <1>10

-----------------------------------------------------------------------------
(***************************************************************************)
(* It holds of the initial states, and when nothing is said                *)
(***************************************************************************)

LEMMA AgentInitKept == AgentInit => AgentKept
<1>. SUFFICES ASSUME AgentInit PROVE AgentKept
  OBVIOUS
<1>. USE DEF AgentInit
<1>1. AgentTypes
  <2>1. User \in Msg
    BY DEF Msg
  <2>2. QED
    <3>1. <<User>> \in Seq(Msg)
      BY <2>1
    <3>2. << >> \in Seq(PartOf) /\ << >> \in Seq(Call) /\ Len(<< >>) = 0
      BY EmptySeq
    <3>3. served \in 0 .. Len(requested)
      BY <3>2
    <3>4. QED
      BY <3>1, <3>2, <3>3 DEF AgentTypes
<1>2. Len(talk) = 1 /\ talk[1] = User /\ DOMAIN talk = {1}
  OBVIOUS
<1>3. User.role = "user"
  BY RoleIs
<1>4. Callings = {}
  BY <1>2, <1>3 DEF Callings
<1>5. Turn = 1 /\ IsFiniteSet(Callings)
  <2>1. Turn = Cardinality(Callings) + 1
    BY DEF Turn, Callings
  <2>2. QED
    BY <1>4, <2>1, FS_EmptySet
<1>6. \A k \in Spots : k = 1 /\ ~Calling(talk, k) /\ ~Resulting(talk, k)
  BY <1>2, <1>3 DEF Spots, Calling, Resulting
<1>7. TalkIsSound
  <2>1. ~Calling(talk, Len(talk)) /\ stage # "tools" /\ Len(talk) >= 1 /\ Turn \in Nat
    BY <1>2, <1>3, <1>5 DEF Calling
  <2>2. QED
    BY <1>5, <1>6, <2>1 DEF TalkIsSound
<1>8. Len(requested) = 0 /\ Len(inbox) = 0
  BY EmptySeq
<1>9. RequestsInOrder /\ StreamInOrder /\ InStep
  BY <1>8 DEF RequestsInOrder, StreamInOrder, InStep
<1>10. \A k \in DOMAIN talk : Held(k) = {}
  BY <1>2, <1>3 DEF Held
<1>11. GivenIsBehind /\ AnswersAreOwn /\ AnswersMoveForward
  BY <1>2, <1>10 DEF GivenIsBehind, AnswersAreOwn, AnswersMoveForward, Spots
<1>12. QED
  BY <1>1, <1>7, <1>9, <1>11 DEF AgentKept

\* Nothing but the stage changes, and that not while results are collected.
LEMMA StageKept ==
  ASSUME AgentKept, stage \in {"start", "ask"}, stage' \in {"start", "ask", "stopped"},
         UNCHANGED <<talk, todo, awaited, responses, requested, served, inbox, late>>
  PROVE  AgentKept'
<1>1. AgentTypes'
  BY DEF AgentKept, AgentTypes
<1>2. TalkIsSound'
  <2>1. Turn' = Turn /\ Spots' = Spots /\ Callings' = Callings
    BY DEF Turn, Spots, Callings
  <2>2. QED
    BY <2>1 DEF AgentKept, TalkIsSound
<1>3. RequestsInOrder'
  BY DEF AgentKept, RequestsInOrder, Turn
<1>4. StreamInOrder' /\ InStep'
  <2>1. StreamInOrder'
    BY DEF AgentKept, StreamInOrder
  <2>2. InStep'
    BY DEF AgentKept, InStep
  <2>3. QED
    BY <2>1, <2>2
<1>5. GivenIsBehind' /\ AnswersAreOwn' /\ AnswersMoveForward'
  <2>1. GivenIsBehind'
    BY DEF AgentKept, GivenIsBehind, Held, Spots
  <2>2. AnswersAreOwn' /\ AnswersMoveForward'
    BY DEF AgentKept, AnswersAreOwn, AnswersMoveForward, Held, Spots
  <2>3. QED
    BY <2>1, <2>2
<1>6. QED
  BY <1>1, <1>2, <1>3, <1>4, <1>5 DEF AgentKept

-----------------------------------------------------------------------------
(***************************************************************************)
(* Steps that leave what was given to the LLM alone                        *)
(***************************************************************************)

\* No result that holds something is new; messages that are new answer requests
\* that had not been answered.
LEMMA GivenAgain ==
  ASSUME AgentKept,
         \A k \in Spots' : \A i \in Held(k)' :
           k \in Spots /\ i \in Held(k) /\ talk'[k].results[i] = talk[k].results[i],
         late' = late \/ late' = TRUE,
         talk' \in Seq(Msg),
         \A j \in 1 .. served : j \in 1 .. served' /\ requested'[j] = requested[j],
         \A p \in 1 .. Len(inbox') :
           \/ \E q \in 1 .. Len(inbox) : inbox'[p].of = inbox[q].of
           \/ \E j \in served + 1 .. Len(requested) : inbox'[p].of = requested[j].id
  PROVE  GivenIsBehind' /\ AnswersAreOwn' /\ AnswersMoveForward'
<1>1. DOMAIN talk' = Spots' /\ DOMAIN talk = Spots
  BY DEF AgentKept, AgentTypes, Spots
<1>2. ASSUME NEW k \in Spots', NEW i \in Held(k)'
      PROVE  /\ \E j \in 1 .. served' : talk'[k].results[i].answer.of = requested'[j].id
             /\ \A p \in 1 .. Len(inbox') : Before(talk'[k].results[i].answer.of, inbox'[p].of)
  <2>1. k \in Spots /\ i \in Held(k) /\ talk'[k].results[i] = talk[k].results[i]
    BY <1>2
  <2>2. /\ \E j \in 1 .. served : talk[k].results[i].answer.of = requested[j].id
        /\ \A p \in 1 .. Len(inbox) : Before(talk[k].results[i].answer.of, inbox[p].of)
    BY <2>1 DEF AgentKept, GivenIsBehind
  <2>3. PICK n \in 1 .. served : talk[k].results[i].answer.of = requested[n].id
    BY <2>2
  <2>4. \E j \in 1 .. served' : talk'[k].results[i].answer.of = requested'[j].id
    BY <2>1, <2>3
  <2>5. ASSUME NEW p \in 1 .. Len(inbox') PROVE Before(talk[k].results[i].answer.of, inbox'[p].of)
    <3>1. CASE \E q \in 1 .. Len(inbox) : inbox'[p].of = inbox[q].of
      BY <2>2, <3>1
    <3>2. ASSUME NEW j \in served + 1 .. Len(requested), inbox'[p].of = requested[j].id
          PROVE  Before(talk[k].results[i].answer.of, inbox'[p].of)
      <4>1. n \in 1 .. Len(requested) /\ j \in 1 .. Len(requested) /\ n < j
        BY DEF AgentKept, AgentTypes
      <4>2. Before(requested[n].id, requested[j].id)
        BY <4>1 DEF AgentKept, RequestsInOrder
      <4>3. QED
        BY <2>3, <3>2, <4>2
    <3>3. QED
      BY <3>1, <3>2
  <2>6. QED
    BY <2>1, <2>4, <2>5
<1>3. GivenIsBehind'
  BY <1>2 DEF GivenIsBehind
<1>4. AnswersAreOwn' /\ AnswersMoveForward'
  <2>1. AnswersAreOwn'
    BY <1>1 DEF AgentKept, AnswersAreOwn
  <2>2. AnswersMoveForward'
    BY <1>1 DEF AgentKept, AnswersMoveForward
  <2>3. QED
    BY <2>1, <2>2
<1>5. QED
  BY <1>3, <1>4

\* A result is as it was where its message is as it was.
LEMMA HeldSame ==
  ASSUME NEW k, talk'[k] = talk[k]
  PROVE  Held(k)' = Held(k)
BY DEF Held

LEMMA LlmAnswersKept ==
  ASSUME AgentKept, LlmAnswers PROVE AgentKept'
<1>1. PICK n \in 0 .. MaxCalls :
        \E tools \in [1 .. n -> Tools], finish \in {"tool_calls", "stop", "length"} :
         LET calls == [i \in 1 .. n |-> [id |-> <<Turn, i>>, tool |-> tools[i]]] IN
         /\ talk' = Append(talk, Assistant(calls))
                      \o (IF RunsTools(finish) THEN <<ToolResults(<< >>)>> ELSE << >>)
         /\ todo' = 1
         /\ stage' = IF RunsTools(finish) THEN After(calls, 0) ELSE "stopped"
  BY DEF LlmAnswers
<1>2. PICK tools \in [1 .. n -> Tools], finish \in {"tool_calls", "stop", "length"} :
         LET calls == [i \in 1 .. n |-> [id |-> <<Turn, i>>, tool |-> tools[i]]] IN
         /\ talk' = Append(talk, Assistant(calls))
                      \o (IF RunsTools(finish) THEN <<ToolResults(<< >>)>> ELSE << >>)
         /\ todo' = 1
         /\ stage' = IF RunsTools(finish) THEN After(calls, 0) ELSE "stopped"
  BY <1>1
<1>. DEFINE calls == [i \in 1 .. n |-> [id |-> <<Turn, i>>, tool |-> tools[i]]]
            L == Len(talk)
            T == Turn
<1>3. /\ stage = "ask" /\ Turn <= MaxTurns
      /\ UNCHANGED <<awaited, responses, requested, served, inbox, late>>
  BY DEF LlmAnswers
<1>4. T \in 1 .. MaxTurns /\ L \in Nat /\ L >= 1 /\ talk \in Seq(Msg) /\ IsFiniteSet(Callings)
  <2>1. L \in Nat /\ L >= 1 /\ talk \in Seq(Msg) /\ IsFiniteSet(Callings)
    BY DEF AgentKept, AgentTypes, TalkIsSound
  <2>2. Cardinality(Callings) \in Nat
    BY <2>1, FS_CardinalityType
  <2>3. T = Cardinality(Callings) + 1
    BY DEF Turn, Callings
  <2>4. QED
    BY <1>3, <2>1, <2>2, <2>3, AgentAssumption
<1>5. calls \in Seq(Call) /\ Len(calls) = n /\ \A i \in 1 .. n : calls[i].id = <<T, i>>
  <2>1. ASSUME NEW i \in 1 .. n PROVE [id |-> <<Turn, i>>, tool |-> tools[i]] \in Call
    <3>1. <<Turn, i>> \in Calls
      BY <1>4, AgentAssumption DEF Calls
    <3>2. QED
      BY <1>2, <3>1 DEF Call
  <2>2. calls \in [1 .. n -> Call]
    BY <2>1
  <2>3. n \in Nat
    BY AgentAssumption
  <2>4. calls \in Seq(Call)
    BY <2>2, <2>3, SeqDef
  <2>5. DOMAIN calls = 1 .. n
    OBVIOUS
  <2>6. \A i \in 1 .. n : calls[i].id = <<T, i>>
    OBVIOUS
  <2>. HIDE DEF calls
  <2>7. QED
    BY <2>3, <2>4, <2>5, <2>6, LenProperties
<1>6. PICK t \in 1 .. MaxTurns : t = T
  BY <1>4
<1>7. /\ talk' = Append(talk, Assistant(calls))
                   \o (IF RunsTools(finish) THEN <<ToolResults(<< >>)>> ELSE << >>)
      /\ todo' = 1
      /\ stage' = IF RunsTools(finish) THEN After(calls, 0) ELSE "stopped"
  BY <1>2
<1>. HIDE DEF calls, L
<1>8. PICK cs \in Seq(Call) : cs = calls
  BY <1>5
<1>9. /\ Assistant(cs) \in Msg /\ Assistant(cs).role = "assistant" /\ Assistant(cs).calls = cs
      /\ ToolResults(<< >>) \in Msg /\ ToolResults(<< >>).role = "tool" /\ ToolResults(<< >>).results = << >>
  <2>1. << >> \in Seq(Result)
    BY EmptySeq
  <2>2. QED
    BY <2>1 DEF Assistant, ToolResults, AssistantMsg, ToolMsg, Msg
<1>10. Numbered(cs, t)
  <2>1. t \in 1 .. t /\ \A i \in 1 .. Len(cs) : cs[i].id = <<t, i>>
    BY <1>5, <1>6, <1>8, AgentAssumption
  <2>2. QED
    BY <2>1 DEF Numbered
<1>. DEFINE one == Append(talk, Assistant(cs))
<1>11. /\ one \in Seq(Msg) /\ Len(one) = L + 1 /\ one[L + 1] = Assistant(cs)
       /\ \A k \in 1 .. L : one[k] = talk[k]
  BY <1>4, <1>9, AppendProperties DEF L
<1>. HIDE DEF one
<1>12. /\ talk' \in Seq(Msg) /\ Len(talk') = IF RunsTools(finish) THEN L + 2 ELSE L + 1
       /\ talk'[L + 1] = Assistant(cs) /\ \A k \in 1 .. L : talk'[k] = talk[k]
       /\ RunsTools(finish) => talk'[L + 2] = ToolResults(<< >>)
  <2>1. CASE RunsTools(finish)
    <3>. DEFINE m == ToolResults(<< >>)
    <3>1. talk' = one \o <<m>>
      BY <1>7, <1>8, <2>1 DEF one
    <3>2. m \in Msg
      BY <1>9
    <3>. HIDE DEF m
    <3>3. one \o <<m>> = Append(one, m)
      BY <1>11, <3>2, AppendIsConcat
    <3>4. /\ Append(one, m) \in Seq(Msg) /\ Len(Append(one, m)) = Len(one) + 1
          /\ \A k \in 1 .. Len(one) : Append(one, m)[k] = one[k]
          /\ Append(one, m)[Len(one) + 1] = m
      BY <1>11, <3>2, AppendProperties
    <3>5. /\ talk' \in Seq(Msg) /\ Len(talk') = L + 2
          /\ \A k \in 1 .. L + 1 : talk'[k] = one[k]
          /\ talk'[L + 2] = m
      BY <1>4, <1>11, <3>1, <3>3, <3>4
    <3>6. L + 1 \in 1 .. L + 1 /\ \A k \in 1 .. L : k \in 1 .. L + 1
      BY <1>4
    <3>7. QED
      BY <1>11, <2>1, <3>5, <3>6 DEF m
  <2>2. CASE ~RunsTools(finish)
    <3>1. talk' = one \o << >>
      BY <1>7, <1>8, <2>2 DEF one
    <3>2. talk' = one
      BY <1>11, <3>1, ConcatEmptySeq
    <3>3. QED
      BY <1>11, <2>2, <3>2
  <2>3. QED
    BY <2>1, <2>2
<1>13. stage' \in {"ask", "tools", "stopped"} /\ (stage' # "stopped" => RunsTools(finish))
       /\ (stage' = "tools" <=> RunsTools(finish) /\ n # 0)
  BY <1>5, <1>7 DEF After
<1>14. DOMAIN talk' = 1 .. Len(talk') /\ DOMAIN talk = 1 .. L
  BY <1>4, <1>12 DEF L
<1>15. Callings' = Callings \cup {L + 1} /\ L + 1 \notin Callings
  <2>1. \A k \in 1 .. Len(talk') : k \in 1 .. L \/ k = L + 1 \/ (RunsTools(finish) /\ k = L + 2)
    BY <1>4, <1>12
  <2>2. L + 1 \in 1 .. Len(talk') /\ \A k \in 1 .. L : k \in 1 .. Len(talk')
    BY <1>4, <1>12
  <2>3. ASSUME NEW k PROVE k \in Callings' <=> k \in Callings \/ k = L + 1
    <3>1. CASE k \in 1 .. L
      BY <1>4, <1>9, <1>12, <1>14, <2>1, <2>2, <3>1 DEF Callings
    <3>2. CASE k = L + 1
      BY <1>4, <1>9, <1>12, <1>14, <2>2, <3>2 DEF Callings
    <3>3. CASE k \notin 1 .. L /\ k # L + 1
      BY <1>9, <1>12, <1>14, <2>1, <3>3 DEF Callings
    <3>4. QED
      BY <3>1, <3>2, <3>3
  <2>4. L + 1 \notin 1 .. L
    BY <1>4
  <2>5. QED
    BY <1>14, <2>3, <2>4 DEF Callings
<1>16. IsFiniteSet(Callings') /\ Turn' = t + 1
  <2>1. IsFiniteSet(Callings') /\ Cardinality(Callings') = Cardinality(Callings) + 1
    BY <1>4, <1>15, FS_AddElement
  <2>2. Turn = Cardinality(Callings) + 1 /\ Turn' = Cardinality(Callings') + 1
    BY DEF Turn, Callings
  <2>3. QED
    BY <1>6, <2>1, <2>2
<1>17. AgentTypes'
  <2>1. todo' \in Nat
    BY <1>7
  <2>2. QED
    BY <1>3, <1>12, <1>13, <2>1 DEF AgentKept, AgentTypes
<1>18. /\ ~Calling(talk, L)
       /\ \A k \in 1 .. L : Calling(talk, k) =>
            Numbered(talk[k].calls, t - 1) /\ (k < L => Resulting(talk, k + 1))
       /\ \A k \in 1 .. L : Resulting(talk, k) => AnswersTo(talk, k) /\ Full(talk, k)
  BY <1>3, <1>6 DEF AgentKept, TalkIsSound, Spots, L
<1>19. \A k \in 1 .. L : /\ Calling(talk', k) <=> Calling(talk, k)
                         /\ Resulting(talk', k) <=> Resulting(talk, k)
  BY <1>4, <1>12 DEF Calling, Resulting, L
<1>20. ~Resulting(talk', L + 1) /\ Calling(talk', L + 1)
  BY <1>4, <1>9, <1>12 DEF Resulting, Calling
<1>21. RunsTools(finish) => ~Calling(talk', L + 2) /\ Resulting(talk', L + 2)
  BY <1>4, <1>9, <1>12 DEF Resulting, Calling
<1>22. \A k \in 1 .. Len(talk') : k \in 1 .. L \/ k = L + 1 \/ (RunsTools(finish) /\ k = L + 2)
  BY <1>4, <1>12
<1>23. TalkIsSound'
  <2>1. Len(talk') >= 1 /\ Turn' \in Nat
    BY <1>4, <1>12, <1>16
  <2>2. stage' \in {"start", "ask", "tools"} => ~Calling(talk', Len(talk'))
    BY <1>12, <1>13, <1>21
  <2>3. ASSUME NEW k \in 1 .. Len(talk'), Calling(talk', k)
        PROVE  Numbered(talk'[k].calls, t) /\ (k < Len(talk') => Resulting(talk', k + 1))
    <3>1. CASE k \in 1 .. L
      <4>1. Calling(talk, k) /\ k # L /\ k < L /\ k + 1 \in 1 .. L
        BY <1>4, <1>18, <1>19, <2>3, <3>1
      <4>2. Numbered(talk[k].calls, t - 1) /\ Resulting(talk, k + 1)
        BY <1>18, <3>1, <4>1
      <4>3. Numbered(talk[k].calls, t)
        <5>1. PICK u \in 1 .. t - 1 : \A i \in 1 .. Len(talk[k].calls) : talk[k].calls[i].id = <<u, i>>
          BY <4>2 DEF Numbered
        <5>2. t \in Nat
          BY AgentAssumption
        <5>3. u \in 1 .. t
          BY <5>2
        <5>4. QED
          BY <5>1, <5>3 DEF Numbered
      <4>4. QED
        BY <1>12, <1>19, <3>1, <4>1, <4>2, <4>3
    <3>2. CASE k = L + 1
      <4>1. Numbered(talk'[k].calls, t)
        BY <1>9, <1>10, <1>12, <3>2
      <4>2. k < Len(talk') => RunsTools(finish) /\ k + 1 = L + 2
        BY <1>4, <1>12, <3>2
      <4>3. QED
        BY <1>21, <4>1, <4>2
    <3>3. CASE RunsTools(finish) /\ k = L + 2
      BY <1>21, <2>3, <3>3
    <3>4. QED
      BY <1>22, <3>1, <3>2, <3>3
  <2>4. ASSUME NEW k \in 1 .. Len(talk'), Resulting(talk', k)
        PROVE  AnswersTo(talk', k) /\ (Full(talk', k) \/ (stage' = "tools" /\ k = Len(talk')))
    <3>1. CASE k \in 1 .. L
      <4>1. Resulting(talk, k)
        BY <1>19, <2>4, <3>1
      <4>2. AnswersTo(talk, k) /\ Full(talk, k)
        BY <1>18, <3>1, <4>1
      <4>3. k - 1 \in 1 .. L
        BY <1>4, <3>1, <4>2 DEF AnswersTo
      <4>4. Calling(talk', k - 1) /\ talk'[k - 1] = talk[k - 1] /\ talk'[k] = talk[k]
        BY <1>12, <1>19, <3>1, <4>2, <4>3 DEF AnswersTo
      <4>5. QED
        BY <4>2, <4>4 DEF AnswersTo, Full
    <3>2. CASE k = L + 1
      BY <1>20, <2>4, <3>2
    <3>3. CASE RunsTools(finish) /\ k = L + 2
      <4>1. k - 1 = L + 1 /\ k > 1 /\ k = Len(talk')
        BY <1>4, <1>12, <3>3
      <4>2. talk'[k].results = << >> /\ talk'[k - 1].calls = cs
        BY <1>9, <1>12, <3>3, <4>1
      <4>3. Len(<< >>) = 0 /\ Len(cs) = n /\ n \in Nat
        BY <1>5, <1>8, EmptySeq
      <4>4. AnswersTo(talk', k)
        BY <1>20, <4>1, <4>2, <4>3 DEF AnswersTo
      <4>5. n = 0 => Full(talk', k)
        BY <4>2, <4>3 DEF Full
      <4>6. QED
        BY <1>13, <3>3, <4>1, <4>4, <4>5
    <3>4. QED
      BY <1>22, <3>1, <3>2, <3>3
  <2>5. ASSUME stage' = "tools"
        PROVE  /\ Resulting(talk', Len(talk'))
               /\ todo' = Len(talk'[Len(talk')].results) + 1
               /\ todo' <= Len(talk'[Len(talk') - 1].calls)
    <3>1. RunsTools(finish) /\ n # 0 /\ Len(talk') = L + 2 /\ Len(talk') - 1 = L + 1
      BY <1>4, <1>12, <1>13, <2>5
    <3>2. Len(<< >>) = 0 /\ Len(cs) = n /\ n \in Nat
      BY <1>5, <1>8, EmptySeq
    <3>3. todo' = Len(talk'[Len(talk')].results) + 1
      BY <1>7, <1>9, <1>12, <3>1, <3>2
    <3>4. todo' <= Len(talk'[Len(talk') - 1].calls)
      BY <1>7, <1>9, <1>12, <3>1, <3>2
    <3>5. QED
      BY <1>21, <3>1, <3>3, <3>4
  <2>6. QED
    BY <1>16, <2>1, <2>2, <2>3, <2>4, <2>5 DEF TalkIsSound, Spots, ResultsOfLast, CallsOfLast
<1>24. awaited = NoCall
  BY <1>3 DEF AgentKept, RequestsInOrder
<1>25. RequestsInOrder'
  <2>1. \A j \in 1 .. Len(requested) : requested[j].id[1] < t /\ requested[j].id \in Calls
    <3>1. \A j \in 1 .. Len(requested) : requested[j] \in Call
      BY DEF AgentKept, AgentTypes
    <3>2. QED
      BY <1>6, <3>1, CallIs DEF AgentKept, RequestsInOrder
  <2>2. \A j \in 1 .. Len(requested) : requested[j].id[1] < t + 1
    BY <1>6, <2>1, AgentAssumption DEF Calls
  <2>3. ASSUME stage' = "tools" PROVE \A j \in 1 .. Len(requested) : Before(requested[j].id, Current'.id)
    <3>1. RunsTools(finish) /\ n # 0 /\ Len(talk') - 1 = L + 1
      BY <1>4, <1>12, <1>13, <2>3
    <3>2. Current' = cs[1]
      BY <1>7, <1>9, <1>12, <3>1 DEF Current, CallsOfLast
    <3>3. cs[1].id = <<t, 1>>
      BY <1>5, <1>6, <1>8, <3>1, AgentAssumption
    <3>4. QED
      BY <2>1, <3>2, <3>3 DEF Before
  <2>4. QED
    BY <1>3, <1>16, <1>24, <2>2, <2>3 DEF AgentKept, RequestsInOrder
<1>26. StreamInOrder' /\ InStep'
  BY <1>3 DEF AgentKept, StreamInOrder, InStep
<1>27. GivenIsBehind' /\ AnswersAreOwn' /\ AnswersMoveForward'
  <2>1. ASSUME NEW k \in Spots', NEW i \in Held(k)'
        PROVE  k \in Spots /\ i \in Held(k) /\ talk'[k].results[i] = talk[k].results[i]
    <3>1. k \in 1 .. Len(talk')
      BY DEF Spots
    <3>2. CASE k \in 1 .. L
      BY <1>12, <2>1, <3>2, HeldSame DEF Spots, L
    <3>3. CASE k = L + 1
      <4>1. Held(k)' = {}
        BY <1>9, <1>12, <3>3 DEF Held
      <4>2. QED
        BY <2>1, <4>1
    <3>4. CASE RunsTools(finish) /\ k = L + 2
      <4>1. talk'[k].results = << >>
        BY <1>9, <1>12, <3>4
      <4>2. Held(k)' = {}
        BY <4>1 DEF Held
      <4>3. QED
        BY <2>1, <4>2
    <3>5. QED
      BY <1>22, <3>1, <3>2, <3>3, <3>4
  <2>2. \A j \in 1 .. served : j \in 1 .. served' /\ requested'[j] = requested[j]
    BY <1>3
  <2>3. \A p \in 1 .. Len(inbox') : \E q \in 1 .. Len(inbox) : inbox'[p].of = inbox[q].of
    BY <1>3
  <2>4. QED
    BY <1>3, <1>12, <2>1, <2>2, <2>3, GivenAgain
<1>28. QED
  BY <1>17, <1>23, <1>25, <1>26, <1>27 DEF AgentKept

LEMMA SendRequestKept ==
  ASSUME AgentKept, SendRequest PROVE AgentKept'
<1>. DEFINE N == Len(requested)
<1>1. /\ stage = "tools" /\ awaited = NoCall /\ requested' = Append(requested, Current)
      /\ awaited' = Current.id
      /\ UNCHANGED <<stage, talk, todo, responses, served, inbox, late>>
  BY DEF SendRequest
<1>2. Current \in Call /\ Current.id \in Calls
  BY <1>1, CurrentIs
<1>3. N \in Nat /\ requested \in Seq(Call) /\ served \in 0 .. N
  BY DEF AgentKept, AgentTypes
<1>4. PICK c \in Call : c = Current
  BY <1>2
<1>5. /\ requested' \in Seq(Call) /\ Len(requested') = N + 1
      /\ requested'[N + 1] = c /\ \A j \in 1 .. N : requested'[j] = requested[j]
  BY <1>1, <1>3, <1>4, AppendProperties
<1>6. AgentTypes'
  <2>1. served' \in 0 .. Len(requested')
    BY <1>1, <1>3, <1>5
  <2>2. QED
    BY <1>1, <1>2, <1>5, <2>1 DEF AgentKept, AgentTypes
<1>7. Turn' = Turn /\ Spots' = Spots /\ Callings' = Callings /\ Current' = Current
  BY <1>1 DEF Turn, Spots, Callings, Current, CallsOfLast
<1>8. TalkIsSound'
  <2>1. ResultsOfLast' = ResultsOfLast /\ CallsOfLast' = CallsOfLast
    BY <1>1 DEF ResultsOfLast, CallsOfLast
  <2>2. QED
    BY <1>1, <1>7, <2>1 DEF AgentKept, TalkIsSound
<1>9. RequestsInOrder'
  <2>1. \A j \in 1 .. N : Before(requested[j].id, c.id)
    BY <1>1, <1>4 DEF AgentKept, RequestsInOrder
  <2>2. ASSUME NEW i \in 1 .. N + 1, NEW j \in 1 .. N + 1, i < j
        PROVE  Before(requested'[i].id, requested'[j].id)
    <3>1. i \in 1 .. N
      BY <1>3, <2>2
    <3>2. CASE j = N + 1
      BY <1>5, <2>1, <3>1, <3>2
    <3>3. CASE j # N + 1
      <4>1. j \in 1 .. N
        BY <1>3, <3>3
      <4>2. QED
        BY <1>5, <2>2, <3>1, <4>1 DEF AgentKept, RequestsInOrder
    <3>4. QED
      BY <3>2, <3>3
  <2>3. c.id[1] < Turn
    <3>1. Numbered(CallsOfLast, Turn - 1) /\ todo \in 1 .. Len(CallsOfLast)
      BY <1>1, CurrentIs
    <3>2. PICK t \in 1 .. Turn - 1 : c.id = <<t, todo>>
      BY <1>4, <3>1 DEF Numbered, Current
    <3>3. Turn \in Nat
      BY DEF AgentKept, TalkIsSound
    <3>4. QED
      BY <3>2, <3>3
  <2>4. ASSUME NEW j \in 1 .. N + 1 PROVE requested'[j].id[1] < Turn
    <3>1. CASE j = N + 1
      BY <1>5, <2>3, <3>1
    <3>2. CASE j # N + 1
      <4>1. j \in 1 .. N
        BY <1>3, <3>2
      <4>2. QED
        BY <1>5, <4>1 DEF AgentKept, RequestsInOrder
    <3>3. QED
      BY <3>1, <3>2
  <2>5. awaited' # NoCall
    BY <1>1, <1>2, NoCallIsNone
  <2>6. N + 1 >= 1 /\ requested'[N + 1].id = awaited'
    BY <1>1, <1>3, <1>4, <1>5
  <2>7. QED
    BY <1>1, <1>5, <1>7, <2>2, <2>4, <2>5, <2>6 DEF RequestsInOrder
<1>10. \A j \in 1 .. served : j \in 1 .. N /\ j \in 1 .. served' /\ requested'[j] = requested[j]
  BY <1>1, <1>3, <1>5
<1>11. StreamInOrder'
  <2>1. responses = << >> /\ \A p \in 1 .. Len(inbox) : \E j \in 1 .. served : inbox[p].of = requested[j].id
    BY <1>1 DEF AgentKept, StreamInOrder
  <2>2. \A p \in 1 .. Len(inbox) : \E j \in 1 .. served : inbox[p].of = requested'[j].id
    BY <1>10, <2>1
  <2>3. QED
    BY <1>1, <2>1, <2>2 DEF AgentKept, StreamInOrder
<1>12. InStep'
  <2>1. ASSUME ~late PROVE inbox = << >> /\ served = N
    <3>1. served = N /\ \A p \in 1 .. Len(inbox) : FALSE
      BY <1>1, <2>1 DEF AgentKept, InStep
    <3>2. Len(inbox) \in Nat /\ inbox \in Seq(PartOf)
      BY DEF AgentKept, AgentTypes
    <3>3. Len(inbox) = 0
      BY <3>1, <3>2
    <3>4. QED
      BY <3>1, <3>2, <3>3, EmptySeq
  <2>2. awaited' # NoCall
    BY <1>1, <1>2, NoCallIsNone
  <2>3. Len(<< >>) = 0
    OBVIOUS
  <2>4. QED
    BY <1>1, <1>3, <1>5, <2>1, <2>2, <2>3 DEF InStep
<1>13. GivenIsBehind' /\ AnswersAreOwn' /\ AnswersMoveForward'
  <2>1. ASSUME NEW k \in Spots', NEW i \in Held(k)'
        PROVE  k \in Spots /\ i \in Held(k) /\ talk'[k].results[i] = talk[k].results[i]
    BY <1>1, <1>7, HeldSame
  <2>2. \A p \in 1 .. Len(inbox') : \E q \in 1 .. Len(inbox) : inbox'[p].of = inbox[q].of
    BY <1>1
  <2>3. talk' \in Seq(Msg) /\ \A j \in 1 .. served : j \in 1 .. served' /\ requested'[j] = requested[j]
    BY <1>6, <1>10 DEF AgentTypes
  <2>4. QED
    BY <1>1, <2>1, <2>2, <2>3, GivenAgain
<1>14. QED
  BY <1>6, <1>8, <1>9, <1>11, <1>12, <1>13 DEF AgentKept

\* What the server says to a request.
LEMMA AnswerIs ==
  ASSUME NEW c \in Call
  PROVE  /\ AnswerTo(c) \in Seq(PartOf) /\ Len(AnswerTo(c)) \in {1, 2}
         /\ \A p \in 1 .. Len(AnswerTo(c)) : AnswerTo(c)[p].of = c.id
         /\ Len(AnswerTo(c)) = 2 => /\ AnswerTo(c)[1].kind = "value"
                                    /\ AnswerTo(c)[2] = [of |-> c.id, kind |-> "done"]
         /\ Len(AnswerTo(c)) = 1 => AnswerTo(c)[1].kind # "value"
<1>1. c.id \in Calls
  BY CallIs
<1>2. \A kind \in Kinds : /\ Part(c.id, kind) \in PartOf /\ Part(c.id, kind).of = c.id
                          /\ Part(c.id, kind).kind = kind
  BY <1>1 DEF Part, PartOf
<1>3. {"value", "done", "whole"} \subseteq Kinds
  BY DEF Kinds
<1>4. CASE c.tool = "eval"
  <2>. DEFINE v == Part(c.id, "value")  d == Part(c.id, "done")
  <2>1. AnswerTo(c) = <<v, d>>
    BY <1>4 DEF AnswerTo
  <2>2. v \in PartOf /\ d \in PartOf /\ v.of = c.id /\ d.of = c.id /\ v.kind = "value"
    BY <1>2, <1>3
  <2>3. d = [of |-> c.id, kind |-> "done"]
    BY DEF Part
  <2>. HIDE DEF v, d
  <2>4. /\ <<v, d>> \in Seq(PartOf) /\ Len(<<v, d>>) = 2 /\ <<v, d>>[1] = v /\ <<v, d>>[2] = d
    BY <2>2
  <2>5. QED
    BY <2>1, <2>2, <2>3, <2>4
<1>5. CASE c.tool # "eval"
  <2>. DEFINE w == Part(c.id, "whole")
  <2>1. AnswerTo(c) = <<w>>
    BY <1>5 DEF AnswerTo
  <2>2. w \in PartOf /\ w.of = c.id /\ w.kind # "value"
    BY <1>2, <1>3
  <2>. HIDE DEF w
  <2>3. <<w>> \in Seq(PartOf) /\ Len(<<w>>) = 1 /\ <<w>>[1] = w
    BY <2>2
  <2>4. QED
    BY <2>1, <2>2, <2>3
<1>6. QED
  BY <1>4, <1>5

LEMMA ServerAnswersKept ==
  ASSUME AgentKept, ServerAnswers PROVE AgentKept'
<1>. DEFINE N == Len(inbox)
            s == served + 1
<1>1. /\ served < Len(requested) /\ served' = s /\ inbox' = inbox \o AnswerTo(requested[s])
      /\ UNCHANGED <<stage, talk, todo, awaited, responses, requested, late>>
  BY DEF ServerAnswers
<1>2. /\ Len(requested) \in Nat /\ requested \in Seq(Call) /\ served \in 0 .. Len(requested)
      /\ N \in Nat /\ inbox \in Seq(PartOf) /\ responses \in Seq(PartOf)
  BY DEF AgentKept, AgentTypes
<1>3. s \in 1 .. Len(requested)
  BY <1>1, <1>2
<1>4. PICK c \in Call : c = requested[s]
  BY <1>2, <1>3
<1>5. PICK a \in Seq(PartOf) : a = AnswerTo(c)
  BY AnswerIs
<1>6. /\ Len(a) \in {1, 2} /\ \A p \in 1 .. Len(a) : a[p].of = c.id
      /\ Len(a) = 2 => a[1].kind = "value" /\ a[2] = [of |-> c.id, kind |-> "done"]
      /\ Len(a) = 1 => a[1].kind # "value"
  BY <1>5, AnswerIs
<1>7. /\ inbox' \in Seq(PartOf) /\ Len(inbox') = N + Len(a)
      /\ \A p \in 1 .. N : inbox'[p] = inbox[p]
      /\ \A p \in 1 .. Len(a) : inbox'[N + p] = a[p]
  <2>1. inbox' = inbox \o a
    BY <1>1, <1>4, <1>5
  <2>2. QED
    BY <1>2, <2>1, <1>6
<1>. HIDE DEF N, s
<1>8. \A p \in 1 .. Len(inbox') : p \in 1 .. N \/ p = N + 1 \/ (p = N + 2 /\ Len(a) = 2)
  <2>1. Len(inbox') = N + Len(a) /\ Len(a) \in {1, 2} /\ N \in Nat
    BY <1>2, <1>6, <1>7
  <2>2. CASE Len(a) = 1
    <3>1. Len(inbox') = N + 1 /\ N \in Nat
      BY <2>1, <2>2
    <3>2. QED
      BY <3>1
  <2>3. CASE Len(a) = 2
    <3>1. Len(inbox') = N + 2 /\ N \in Nat
      BY <2>1, <2>3
    <3>2. QED
      BY <2>3, <3>1
  <2>4. QED
    BY <2>1, <2>2, <2>3
<1>9. /\ inbox'[N + 1] = a[1] /\ inbox'[N + 1].of = c.id
      /\ Len(a) = 2 => inbox'[N + 2] = a[2] /\ inbox'[N + 2].of = c.id
  BY <1>2, <1>6, <1>7
<1>10. \A p \in 1 .. Len(inbox') : inbox'[p].of = c.id \/ (p \in 1 .. N /\ inbox'[p] = inbox[p])
  BY <1>7, <1>8, <1>9
<1>11. \A j \in 1 .. served : j \in 1 .. s /\ j \in 1 .. Len(requested)
  BY <1>2 DEF s
<1>12. ASSUME NEW p \in 1 .. N PROVE Before(inbox[p].of, c.id)
  <2>1. PICK j \in 1 .. served : inbox[p].of = requested[j].id
    BY <1>12 DEF AgentKept, StreamInOrder, N
  <2>2. j \in 1 .. Len(requested) /\ j < s
    BY <1>2 DEF s
  <2>3. QED
    BY <1>3, <1>4, <2>1, <2>2 DEF AgentKept, RequestsInOrder
<1>13. AgentTypes'
  <2>1. served' \in 0 .. Len(requested')
    BY <1>1, <1>2, <1>3
  <2>2. QED
    BY <1>1, <1>7, <2>1 DEF AgentKept, AgentTypes
<1>14. TalkIsSound'
  <2>1. Turn' = Turn /\ Spots' = Spots /\ Callings' = Callings
    BY <1>1 DEF Turn, Spots, Callings
  <2>2. ResultsOfLast' = ResultsOfLast /\ CallsOfLast' = CallsOfLast
    BY <1>1 DEF ResultsOfLast, CallsOfLast
  <2>3. QED
    BY <1>1, <2>1, <2>2 DEF AgentKept, TalkIsSound
<1>15. RequestsInOrder'
  <2>1. Turn' = Turn /\ Current' = Current
    BY <1>1 DEF Turn, Current, CallsOfLast
  <2>2. QED
    BY <1>1, <2>1 DEF AgentKept, RequestsInOrder
<1>16. StreamInOrder'
  <2>1. ASSUME NEW p \in 1 .. Len(inbox') PROVE \E j \in 1 .. s : inbox'[p].of = requested[j].id
    <3>1. CASE inbox'[p].of = c.id
      <4>1. s \in 1 .. s
        BY <1>2 DEF s
      <4>2. QED
        BY <1>4, <3>1, <4>1
    <3>2. CASE p \in 1 .. N /\ inbox'[p] = inbox[p]
      <4>1. PICK j \in 1 .. served : inbox[p].of = requested[j].id
        BY <3>2 DEF AgentKept, StreamInOrder, N
      <4>2. QED
        BY <1>11, <3>2, <4>1
    <3>3. QED
      BY <1>10, <3>1, <3>2
  <2>2. ASSUME NEW p \in 1 .. Len(inbox'), NEW q \in 1 .. Len(inbox'), p < q
        PROVE  /\ inbox'[p].of = inbox'[q].of \/ Before(inbox'[p].of, inbox'[q].of)
               /\ inbox'[p].kind # "value" => Before(inbox'[p].of, inbox'[q].of)
    <3>1. CASE q \in 1 .. N
      <4>1. p \in 1 .. N
        BY <1>2, <2>2, <3>1
      <4>2. QED
        BY <1>7, <2>2, <3>1, <4>1 DEF AgentKept, StreamInOrder, N
    <3>2. CASE q \notin 1 .. N /\ p \in 1 .. N
      <4>1. inbox'[q].of = c.id
        BY <1>10, <3>2
      <4>2. QED
        BY <1>7, <1>12, <3>2, <4>1
    <3>3. CASE q \notin 1 .. N /\ p \notin 1 .. N
      <4>1. p = N + 1 /\ q = N + 2 /\ Len(a) = 2
        BY <1>2, <1>8, <2>2, <3>3
      <4>2. QED
        BY <1>6, <1>9, <4>1
    <3>4. QED
      BY <3>1, <3>2, <3>3
  <2>3. ASSUME NEW p \in 1 .. Len(inbox'), inbox'[p].kind = "value"
        PROVE  p < Len(inbox') /\ inbox'[p + 1] = [of |-> inbox'[p].of, kind |-> "done"]
    <3>1. CASE p \in 1 .. N
      <4>1. p < N /\ inbox[p + 1] = [of |-> inbox[p].of, kind |-> "done"]
        BY <1>7, <2>3, <3>1 DEF AgentKept, StreamInOrder, N
      <4>2. p + 1 \in 1 .. N /\ N <= Len(inbox')
        BY <1>2, <1>6, <1>7, <3>1, <4>1, SMTT(30)
      <4>3. QED
        BY <1>2, <1>7, <3>1, <4>1, <4>2
    <3>2. CASE p = N + 1
      <4>1. Len(a) = 2
        BY <1>6, <1>9, <2>3, <3>2
      <4>2. p + 1 = N + 2 /\ p < Len(inbox')
        BY <1>2, <1>7, <3>2, <4>1
      <4>3. QED
        BY <1>6, <1>9, <3>2, <4>1, <4>2
    <3>3. CASE p = N + 2 /\ Len(a) = 2
      <4>1. inbox'[p].kind = "done"
        BY <1>6, <1>9, <3>3
      <4>2. QED
        BY <2>3, <4>1
    <3>4. QED
      BY <1>8, <3>1, <3>2, <3>3
  <2>4. (awaited' = NoCall => responses' = << >>) /\
        ( \/ responses' = << >>
          \/ /\ Len(responses') = 1 /\ responses'[1].kind = "value"
             /\ Len(inbox') >= 1 /\ inbox'[1] = [of |-> responses'[1].of, kind |-> "done"] )
    <3>1. CASE responses = << >>
      BY <1>1, <3>1
    <3>2. CASE responses # << >>
      <4>1. /\ awaited # NoCall /\ Len(responses) = 1 /\ responses[1].kind = "value"
            /\ N >= 1 /\ inbox[1] = [of |-> responses[1].of, kind |-> "done"]
        BY <3>2 DEF AgentKept, StreamInOrder, N
      <4>2. 1 \in 1 .. N /\ Len(inbox') >= 1
        BY <1>2, <1>6, <1>7, <4>1
      <4>3. QED
        BY <1>1, <1>7, <4>1, <4>2
    <3>3. QED
      BY <3>1, <3>2
  <2>5. QED
    BY <1>1, <2>1, <2>2, <2>3, <2>4 DEF StreamInOrder
<1>17. InStep'
  <2>1. ASSUME ~late PROVE /\ served = Len(requested) - 1 /\ awaited # NoCall /\ N = 0
                           /\ c.id = awaited
    <3>1. served = Len(requested) - 1 /\ awaited # NoCall /\ inbox = << >>
      BY <1>1, <1>2, <2>1 DEF AgentKept, InStep
    <3>2. s = Len(requested)
      BY <1>2, <3>1 DEF s
    <3>3. requested[Len(requested)].id = awaited
      BY <3>1 DEF AgentKept, RequestsInOrder
    <3>4. Len(<< >>) = 0
      OBVIOUS
    <3>5. QED
      BY <1>4, <3>1, <3>2, <3>3, <3>4 DEF N
  <2>2. ASSUME ~late PROVE \A p \in 1 .. Len(inbox') : inbox'[p].of = awaited
    <3>1. N = 0 /\ c.id = awaited
      BY <2>1, <2>2
    <3>2. \A p \in 1 .. Len(inbox') : p \notin 1 .. N
      BY <3>1
    <3>3. QED
      BY <1>10, <3>1, <3>2
  <2>3. ~late => s = Len(requested)
    BY <1>2, <2>1 DEF s
  <2>4. QED
    BY <1>1, <2>1, <2>2, <2>3 DEF InStep
<1>18. GivenIsBehind' /\ AnswersAreOwn' /\ AnswersMoveForward'
  <2>1. ASSUME NEW k \in Spots', NEW i \in Held(k)'
        PROVE  k \in Spots /\ i \in Held(k) /\ talk'[k].results[i] = talk[k].results[i]
    BY <1>1, HeldSame DEF Spots
  <2>2. ASSUME NEW p \in 1 .. Len(inbox')
        PROVE  \/ \E q \in 1 .. Len(inbox) : inbox'[p].of = inbox[q].of
               \/ \E j \in served + 1 .. Len(requested) : inbox'[p].of = requested[j].id
    <3>1. s \in served + 1 .. Len(requested)
      BY <1>2, <1>3 DEF s
    <3>2. QED
      BY <1>4, <1>10, <3>1 DEF N
  <2>3. talk' \in Seq(Msg) /\ \A j \in 1 .. served : j \in 1 .. served' /\ requested'[j] = requested[j]
    BY <1>1, <1>11, <1>13 DEF AgentTypes
  <2>4. QED
    BY <1>1, <2>1, <2>2, <2>3, GivenAgain
<1>19. QED
  BY <1>13, <1>14, <1>15, <1>16, <1>17, <1>18 DEF AgentKept

-----------------------------------------------------------------------------
(***************************************************************************)
(* A result is added to the conversation                                   *)
(***************************************************************************)

LEMMA FinishTalk ==
  ASSUME AgentKept, stage = "tools", NEW answer \in ToolAnswer, Finish(Current, answer)
  PROVE  /\ talk' \in Seq(Msg) /\ Len(talk') = Len(talk)
         /\ \A k \in Spots : k # Len(talk) => talk'[k] = talk[k]
         /\ talk'[Len(talk)].role = "tool" /\ talk'[Len(talk)].results \in Seq(Result)
         /\ Len(talk'[Len(talk)].results) = todo
         /\ \A i \in 1 .. Len(ResultsOfLast) : talk'[Len(talk)].results[i] = ResultsOfLast[i]
         /\ talk'[Len(talk)].results[todo] = [of |-> Current.id, answer |-> answer]
<1>. DEFINE L == Len(talk)
            r == [of |-> Current.id, answer |-> answer]
<1>1. /\ L \in Spots /\ Resulting(talk, L) /\ ResultsOfLast \in Seq(Result)
      /\ Len(ResultsOfLast) \in Nat /\ todo = Len(ResultsOfLast) + 1 /\ Current.id \in Calls
  BY CurrentIs
<1>2. talk \in Seq(Msg) /\ DOMAIN talk = Spots /\ L \in Nat
  BY DEF AgentKept, AgentTypes, Spots
<1>3. talk[L] \in ToolMsg /\ talk[L].results = ResultsOfLast
  <2>1. talk[L] \in Msg /\ talk[L].role = "tool"
    BY <1>1, <1>2 DEF Spots, Resulting
  <2>2. QED
    BY <2>1, RoleIs DEF ResultsOfLast
<1>4. r \in Result
  BY <1>1 DEF Result
<1>5. ResultOf(Current, answer) = <<r>>
  BY DEF ResultOf
<1>. DEFINE results == ResultsOfLast \o <<r>>
            m == [role |-> "tool", results |-> results]
<1>6. talk' = [talk EXCEPT ![L] = [talk[L] EXCEPT !.results = results]]
  BY <1>3, <1>5 DEF Finish
<1>7. [talk[L] EXCEPT !.results = results] = m
  <2>1. talk[L] = [role |-> "tool", results |-> ResultsOfLast]
    BY <1>3 DEF ToolMsg
  <2>2. \A new : [talk[L] EXCEPT !.results = new] = [role |-> "tool", results |-> new]
    BY <2>1
  <2>. HIDE DEF results
  <2>3. QED
    BY <2>2 DEF m
<1>. HIDE DEF r
<1>8. /\ results \in Seq(Result) /\ Len(results) = todo
      /\ \A i \in 1 .. Len(ResultsOfLast) : results[i] = ResultsOfLast[i]
      /\ results[todo] = r
  <2>1. results = Append(ResultsOfLast, r)
    BY <1>1, <1>4, AppendIsConcat
  <2>. HIDE DEF results
  <2>2. QED
    BY <1>1, <1>4, <2>1, AppendProperties
<1>. HIDE DEF results
<1>9. m \in Msg /\ m.role = "tool" /\ m.results = results
  BY <1>8 DEF Msg, ToolMsg
<1>. HIDE DEF m
<1>10. talk' = [talk EXCEPT ![L] = m]
  BY <1>6, <1>7
<1>11. /\ talk' \in Seq(Msg) /\ Len(talk') = L
       /\ talk'[L] = m /\ \A k \in Spots : k # L => talk'[k] = talk[k]
  <2>1. talk' \in [Spots -> Msg]
    <3>1. talk \in [Spots -> Msg]
      BY <1>2, LenProperties DEF Spots
    <3>2. QED
      BY <1>1, <1>9, <1>10, <3>1
  <2>2. talk' \in [1 .. L -> Msg]
    BY <2>1 DEF Spots
  <2>3. talk' \in Seq(Msg)
    BY <1>2, <2>2, SeqDef
  <2>4. DOMAIN talk' = 1 .. L
    BY <2>2
  <2>5. Len(talk') = L
    BY <1>2, <2>3, <2>4, LenProperties
  <2>6. talk'[L] = m /\ \A k \in Spots : k # L => talk'[k] = talk[k]
    BY <1>1, <1>2, <1>10
  <2>7. QED
    BY <2>3, <2>5, <2>6
<1>12. QED
  BY <1>8, <1>9, <1>11 DEF r

\* The calls of the conversation are those they were, and the new result is that
\* of the call at hand.
LEMMA FinishKeepsTalk ==
  ASSUME AgentKept, stage = "tools", NEW answer \in ToolAnswer, Finish(Current, answer)
  PROVE  /\ TalkIsSound' /\ Turn' = Turn
         /\ Spots' = Spots
         /\ stage' \in {"ask", "tools"} /\ awaited' = NoCall /\ responses' = << >> /\ todo' \in Nat
         /\ stage' = "tools" => /\ Current' \in Call /\ Before(Current.id, Current'.id)
<1>. DEFINE L == Len(talk)
            N == Len(ResultsOfLast)
            C == CallsOfLast
<1>1. /\ L \in Spots /\ L - 1 \in Spots /\ Resulting(talk, L) /\ Calling(talk, L - 1)
      /\ C \in Seq(Call) /\ Len(C) \in Nat /\ N \in Nat
      /\ todo \in 1 .. Len(C) /\ todo = N + 1
      /\ Current \in Call /\ Current.id \in Calls /\ Numbered(C, Turn - 1)
  BY CurrentIs
<1>2. /\ talk' \in Seq(Msg) /\ Len(talk') = L
      /\ \A k \in Spots : k # L => talk'[k] = talk[k]
      /\ talk'[L].role = "tool" /\ talk'[L].results \in Seq(Result)
      /\ Len(talk'[L].results) = todo
      /\ \A i \in 1 .. N : talk'[L].results[i] = ResultsOfLast[i]
      /\ talk'[L].results[todo] = [of |-> Current.id, answer |-> answer]
  BY FinishTalk
<1>3. /\ todo' = todo + 1 /\ awaited' = NoCall /\ responses' = << >>
      /\ stage' = IF todo = Len(C) THEN "ask" ELSE "tools"
  BY DEF Finish, After
<1>4. L \in Nat /\ L > 1 /\ L - 1 # L /\ Spots = 1 .. L /\ Spots' = 1 .. L
  BY <1>1, <1>2 DEF Spots
<1>5. DOMAIN talk' = 1 .. L /\ DOMAIN talk = 1 .. L
  <2>1. talk \in Seq(Msg)
    BY DEF AgentKept, AgentTypes
  <2>2. QED
    BY <1>2, <2>1, LenProperties
<1>6. \A k \in 1 .. L : talk'[k].role = talk[k].role
  BY <1>1, <1>2, <1>4 DEF Resulting
<1>7. Turn' = Turn /\ Callings' = Callings
  <2>1. Callings' = Callings
    BY <1>5, <1>6 DEF Callings
  <2>2. Turn' = Cardinality(Callings') + 1 /\ Turn = Cardinality(Callings) + 1
    BY DEF Turn, Callings
  <2>3. QED
    BY <2>1, <2>2
<1>8. C' = C /\ ResultsOfLast' = talk'[L].results
  BY <1>1, <1>2, <1>4 DEF CallsOfLast, ResultsOfLast
<1>9. \A k \in 1 .. L + 1 : /\ Calling(talk', k) <=> Calling(talk, k)
                            /\ Resulting(talk', k) <=> Resulting(talk, k)
  BY <1>2, <1>6 DEF Calling, Resulting
<1>10. ~Calling(talk, L)
  BY <1>1 DEF Calling, Resulting
<1>11. TalkIsSound'
  <2>1. L >= 1 /\ Turn' \in Nat /\ IsFiniteSet(Callings')
    BY <1>4, <1>7 DEF AgentKept, TalkIsSound
  <2>2. ~Calling(talk', L)
    BY <1>4, <1>9, <1>10
  <2>3. ASSUME NEW k \in 1 .. L, Calling(talk', k)
        PROVE  Numbered(talk'[k].calls, Turn - 1) /\ (k < L => Resulting(talk', k + 1))
    <3>1. Calling(talk, k) /\ k # L
      BY <1>4, <1>9, <2>2, <2>3
    <3>2. Numbered(talk[k].calls, Turn - 1) /\ (k < L => Resulting(talk, k + 1))
      BY <1>4, <3>1 DEF AgentKept, TalkIsSound
    <3>3. k + 1 \in 1 .. L + 1
      BY <1>4
    <3>4. QED
      BY <1>2, <1>4, <1>9, <3>1, <3>2, <3>3
  <2>4. ASSUME NEW k \in 1 .. L, Resulting(talk', k)
        PROVE  AnswersTo(talk', k) /\ (Full(talk', k) \/ (stage' = "tools" /\ k = L))
    <3>1. Resulting(talk, k)
      BY <1>4, <1>9, <2>4
    <3>2. AnswersTo(talk, k) /\ (k # L => Full(talk, k))
      BY <1>4, <3>1 DEF AgentKept, TalkIsSound
    <3>3. k - 1 \in 1 .. L /\ k - 1 # L /\ Calling(talk', k - 1) /\ talk'[k - 1] = talk[k - 1]
      BY <1>2, <1>4, <1>9, <3>2 DEF AnswersTo
    <3>4. CASE k # L
      <4>1. talk'[k] = talk[k]
        BY <1>2, <1>4, <3>4
      <4>2. QED
        BY <3>2, <3>3, <3>4, <4>1 DEF AnswersTo, Full
    <3>5. CASE k = L
      <4>1. talk'[k - 1].calls = C
        BY <3>3, <3>5 DEF CallsOfLast
      <4>2. ASSUME NEW i \in 1 .. todo PROVE talk'[k].results[i].of = C[i].id
        <5>1. CASE i = todo
          BY <1>2, <3>5, <5>1 DEF Current
        <5>2. CASE i # todo
          <6>1. i \in 1 .. N
            BY <1>1, <5>2
          <6>2. \A n \in 1 .. N : ResultsOfLast[n].of = C[n].id
            BY <3>2, <3>5 DEF AnswersTo, ResultsOfLast, CallsOfLast
          <6>3. QED
            BY <1>2, <3>5, <6>1, <6>2
        <5>3. QED
          BY <5>1, <5>2
      <4>3. AnswersTo(talk', k)
        BY <1>1, <1>2, <3>2, <3>3, <3>5, <4>1, <4>2, SMTT(30) DEF AnswersTo
      <4>4. stage' = "tools" \/ todo = Len(C)
        BY <1>3
      <4>5. QED
        BY <1>2, <3>5, <4>1, <4>3, <4>4 DEF Full
    <3>6. QED
      BY <3>4, <3>5
  <2>5. ASSUME stage' = "tools"
        PROVE  /\ Resulting(talk', L) /\ todo' = Len(talk'[L].results) + 1 /\ todo' <= Len(C)
    <3>1. todo # Len(C)
      BY <1>3, <2>5
    <3>2. QED
      BY <1>1, <1>2, <1>3, <1>4, <1>9, <3>1
  <2>6. QED
    BY <1>2, <1>4, <1>7, <1>8, <2>1, <2>2, <2>3, <2>4, <2>5 DEF TalkIsSound
<1>12. ASSUME stage' = "tools" PROVE Current' \in Call /\ Before(Current.id, Current'.id)
  <2>1. todo' \in 1 .. Len(C) /\ Current' = C[todo'] /\ todo' = todo + 1
    <3>1. todo # Len(C)
      BY <1>3, <1>12
    <3>2. todo' \in 1 .. Len(C)
      BY <1>1, <1>3, <3>1
    <3>3. QED
      BY <1>3, <1>8, <3>2 DEF Current
  <2>2. PICK t \in 1 .. Turn - 1 : \A i \in 1 .. Len(C) : C[i].id = <<t, i>>
    BY <1>1 DEF Numbered
  <2>3. Current.id = <<t, todo>> /\ Current'.id = <<t, todo + 1>>
    BY <1>1, <2>1, <2>2 DEF Current
  <2>4. Before(Current.id, Current'.id)
    BY <1>1, <2>3 DEF Before
  <2>5. QED
    BY <1>1, <2>1, <2>4
<1>13. todo' \in Nat /\ stage' \in {"ask", "tools"}
  BY <1>1, <1>3
<1>14. QED
  BY <1>3, <1>4, <1>7, <1>11, <1>12, <1>13

\* The client takes the first message.
LEMMA TakenIs ==
  ASSUME AgentKept, inbox # << >>, inbox' = Consumed(inbox), UNCHANGED <<served, requested>>
  PROVE  /\ inbox[1] \in PartOf /\ Head(inbox) = inbox[1]
         /\ inbox' \in Seq(PartOf) /\ Len(inbox) >= 1 /\ Len(inbox') = Len(inbox) - 1
         /\ \A p \in 1 .. Len(inbox') : p + 1 \in 2 .. Len(inbox) /\ inbox'[p] = inbox[p + 1]
         /\ \A p \in 1 .. Len(inbox') : \E j \in 1 .. served' : inbox'[p].of = requested'[j].id
         /\ \A p, q \in 1 .. Len(inbox') : p < q =>
              inbox'[p].of = inbox'[q].of \/ Before(inbox'[p].of, inbox'[q].of)
         /\ \A p, q \in 1 .. Len(inbox') : p < q /\ inbox'[p].kind # "value" =>
              Before(inbox'[p].of, inbox'[q].of)
         /\ \A p \in 1 .. Len(inbox') : inbox'[p].kind = "value" =>
              p < Len(inbox') /\ inbox'[p + 1] = [of |-> inbox'[p].of, kind |-> "done"]
<1>1. inbox \in Seq(PartOf) /\ Len(inbox) \in Nat
  BY DEF AgentKept, AgentTypes
<1>2. inbox' = Tail(inbox)
  BY DEF Consumed
<1>3. /\ inbox' \in Seq(PartOf) /\ Len(inbox) >= 1 /\ Len(inbox') = Len(inbox) - 1
      /\ \A p \in 1 .. Len(inbox') : inbox'[p] = inbox[p + 1]
      /\ Head(inbox) = inbox[1]
  BY <1>1, <1>2, HeadTailProperties, EmptySeq
<1>4. \A p \in 1 .. Len(inbox') : p \in Nat /\ p + 1 \in 2 .. Len(inbox) /\ p + 1 \in 1 .. Len(inbox)
  BY <1>1, <1>3
<1>5. inbox[1] \in PartOf
  BY <1>1, <1>3
<1>6. StreamInOrder
  BY DEF AgentKept
<1>7. \A p \in 1 .. Len(inbox') : \E j \in 1 .. served' : inbox'[p].of = requested'[j].id
  BY <1>3, <1>4, <1>6 DEF StreamInOrder
<1>8. ASSUME NEW p \in 1 .. Len(inbox'), NEW q \in 1 .. Len(inbox'), p < q
      PROVE  /\ inbox'[p].of = inbox'[q].of \/ Before(inbox'[p].of, inbox'[q].of)
             /\ inbox'[p].kind # "value" => Before(inbox'[p].of, inbox'[q].of)
  <2>1. p + 1 < q + 1
    BY <1>4, <1>8
  <2>2. QED
    BY <1>3, <1>4, <1>6, <2>1 DEF StreamInOrder
<1>9. ASSUME NEW p \in 1 .. Len(inbox'), inbox'[p].kind = "value"
      PROVE  p < Len(inbox') /\ inbox'[p + 1] = [of |-> inbox'[p].of, kind |-> "done"]
  <2>1. p + 1 < Len(inbox) /\ inbox[p + 1 + 1] = [of |-> inbox[p + 1].of, kind |-> "done"]
    BY <1>3, <1>4, <1>6, <1>9 DEF StreamInOrder
  <2>2. p < Len(inbox') /\ p + 1 \in 1 .. Len(inbox')
    BY <1>1, <1>3, <1>4, <2>1
  <2>3. QED
    BY <1>3, <2>1, <2>2
<1>10. QED
  BY <1>3, <1>4, <1>5, <1>7, <1>8, <1>9

\* Whatever ended the call: nothing was answered, or what its first message holds.
LEMMA FinishKept ==
  ASSUME AgentKept, stage = "tools", NEW answer \in ToolAnswer, Finish(Current, answer),
         UNCHANGED <<requested, served>>, late' \in BOOLEAN,
         \/ /\ inbox' = inbox /\ answer.of = NoCall
            /\ late' = TRUE \/ (late' = late /\ awaited = NoCall)
         \/ /\ inbox # << >> /\ inbox' = Consumed(inbox) /\ late' = late
            /\ awaited # NoCall /\ inbox[1].kind # "value"
            /\ answer.of = NoCall \/ answer.of = inbox[1].of
  PROVE  AgentKept'
<1>. DEFINE L == Len(talk)
            N == Len(ResultsOfLast)
<1>1. /\ L \in Spots /\ Resulting(talk, L) /\ N \in Nat /\ todo = N + 1
      /\ Current \in Call /\ Current.id \in Calls /\ ResultsOfLast \in Seq(Result)
  BY CurrentIs
<1>2. /\ talk' \in Seq(Msg) /\ Len(talk') = L
      /\ \A k \in Spots : k # L => talk'[k] = talk[k]
      /\ talk'[L].role = "tool" /\ talk'[L].results \in Seq(Result)
      /\ Len(talk'[L].results) = todo
      /\ \A i \in 1 .. N : talk'[L].results[i] = ResultsOfLast[i]
      /\ talk'[L].results[todo] = [of |-> Current.id, answer |-> answer]
  BY FinishTalk
<1>3. /\ TalkIsSound' /\ Turn' = Turn /\ Spots' = Spots
      /\ stage' \in {"ask", "tools"} /\ awaited' = NoCall /\ responses' = << >> /\ todo' \in Nat
      /\ stage' = "tools" => Current' \in Call /\ Before(Current.id, Current'.id)
  BY FinishKeepsTalk
<1>4. inbox \in Seq(PartOf) /\ Len(requested) \in Nat /\ requested \in Seq(Call)
      /\ served \in 0 .. Len(requested)
  BY DEF AgentKept, AgentTypes
<1>5. /\ inbox' \in Seq(PartOf)
      /\ \A p \in 1 .. Len(inbox') : \E q \in 1 .. Len(inbox) : inbox'[p] = inbox[q]
  <2>1. CASE inbox' = inbox
    BY <1>4, <2>1
  <2>2. CASE inbox # << >> /\ inbox' = Consumed(inbox)
    <3>1. /\ inbox' \in Seq(PartOf) /\ Len(inbox) \in Nat
          /\ \A p \in 1 .. Len(inbox') : p + 1 \in 2 .. Len(inbox) /\ inbox'[p] = inbox[p + 1]
      BY <1>4, <2>2, TakenIs
    <3>2. \A p \in 1 .. Len(inbox') : p + 1 \in 1 .. Len(inbox)
      BY <3>1
    <3>3. QED
      BY <3>1, <3>2
  <2>3. QED
    BY <2>1, <2>2
<1>6. AgentTypes'
  <2>1. << >> \in Seq(PartOf)
    BY EmptySeq
  <2>2. QED
    BY <1>2, <1>3, <1>4, <1>5, <2>1 DEF AgentKept, AgentTypes
<1>7. RequestsInOrder'
  <2>1. ASSUME stage' = "tools", NEW j \in 1 .. Len(requested)
        PROVE  Before(requested[j].id, Current'.id)
    <3>1. requested[j].id \in Calls /\ Current.id \in Calls /\ Current'.id \in Calls
      BY <1>1, <1>3, <1>4, <2>1, CallIs
    <3>2. Before(requested[j].id, Current.id) \/ requested[j].id = Current.id
      <4>1. CASE awaited = NoCall
        BY <4>1 DEF AgentKept, RequestsInOrder
      <4>2. CASE awaited # NoCall
        <5>1. Current.id = requested[Len(requested)].id /\ Len(requested) >= 1
          BY <4>2 DEF AgentKept, RequestsInOrder
        <5>2. j = Len(requested) \/ (j < Len(requested) /\ Len(requested) \in 1 .. Len(requested))
          BY <1>4
        <5>3. QED
          BY <5>1, <5>2 DEF AgentKept, RequestsInOrder
      <4>3. QED
        BY <4>1, <4>2
    <3>3. QED
      BY <1>3, <2>1, <3>1, <3>2, BeforeIsOrder
  <2>2. QED
    BY <1>3, <2>1 DEF AgentKept, RequestsInOrder
<1>8. StreamInOrder'
  <2>1. CASE inbox' = inbox
    BY <1>3, <2>1 DEF AgentKept, StreamInOrder
  <2>2. CASE inbox # << >> /\ inbox' = Consumed(inbox)
    BY <1>3, <2>2, TakenIs DEF StreamInOrder
  <2>3. QED
    BY <2>1, <2>2
<1>9. InStep'
  <2>1. ASSUME ~late', NEW p \in 1 .. Len(inbox') PROVE FALSE
    <3>1. ~late
      BY <2>1
    <3>2. CASE inbox' = inbox /\ awaited = NoCall
      BY <2>1, <3>1, <3>2 DEF AgentKept, InStep
    <3>3. CASE inbox # << >> /\ inbox' = Consumed(inbox) /\ inbox[1].kind # "value"
      <4>1. p + 1 \in 2 .. Len(inbox) /\ Len(inbox) \in Nat /\ inbox[1] \in PartOf
        BY <1>4, <2>1, <3>3, TakenIs
      <4>2. 1 \in 1 .. Len(inbox) /\ p + 1 \in 1 .. Len(inbox) /\ 1 < p + 1
        BY <4>1
      <4>3. Before(inbox[1].of, inbox[p + 1].of)
        BY <3>3, <4>2 DEF AgentKept, StreamInOrder
      <4>4. inbox[1].of = inbox[p + 1].of /\ inbox[1].of \in Calls
        BY <3>1, <4>1, <4>2, CallIs DEF AgentKept, InStep
      <4>5. QED
        BY <4>3, <4>4, BeforeIsOrder
    <3>4. QED
      BY <2>1, <3>2, <3>3
  <2>2. ASSUME ~late' PROVE served = Len(requested)
    <3>1. ~late /\ (awaited = NoCall \/ inbox # << >>)
      BY <2>2
    <3>2. QED
      BY <3>1 DEF AgentKept, InStep
  <2>3. QED
    BY <2>1, <2>2 DEF InStep
<1>10. DOMAIN talk' = Spots /\ DOMAIN talk = Spots /\ L \in Nat /\ Spots = 1 .. L
  <2>1. talk \in Seq(Msg)
    BY DEF AgentKept, AgentTypes
  <2>2. QED
    BY <1>2, <2>1, LenProperties DEF Spots
<1>11. ASSUME NEW k \in Spots, NEW i \in Held(k)'
       PROVE  \/ i \in Held(k) /\ talk'[k].results[i] = talk[k].results[i] /\ i \in Nat
                 /\ (k = L => i < todo)
              \/ /\ k = L /\ i = todo /\ answer.of # NoCall
                 /\ talk'[k].results[i] = [of |-> Current.id, answer |-> answer]
  <2>1. CASE k # L
    <3>1. talk'[k] = talk[k]
      BY <1>2, <2>1
    <3>2. i \in Held(k)
      BY <1>11, <3>1, HeldSame
    <3>3. AgentTypes
      BY DEF AgentKept
    <3>4. i \in Nat
      BY <3>2, <3>3, HeldIs
    <3>5. QED
      BY <2>1, <3>1, <3>2, <3>4
  <2>2. CASE k = L
    <3>1. i \in DOMAIN talk'[L].results /\ talk'[L].results[i].answer.of # NoCall
      BY <1>2, <1>11, <2>2 DEF Held
    <3>2. i \in 1 .. N + 1
      BY <1>1, <1>2, <3>1
    <3>3. CASE i = todo
      BY <1>2, <2>2, <3>1, <3>3
    <3>4. CASE i # todo
      <4>1. i \in 1 .. N /\ i < todo /\ i \in Nat
        BY <1>1, <3>2, <3>4
      <4>2. talk'[L].results[i] = talk[L].results[i]
        BY <1>2, <4>1 DEF ResultsOfLast
      <4>3. DOMAIN talk[L].results = 1 .. N
        BY <1>1 DEF ResultsOfLast
      <4>4. i \in Held(L)
        BY <1>1, <3>1, <4>1, <4>2, <4>3 DEF Held, Resulting
      <4>5. QED
        BY <2>2, <4>1, <4>2, <4>4
    <3>5. QED
      BY <3>3, <3>4
  <2>3. QED
    BY <2>1, <2>2
<1>12. ASSUME answer.of # NoCall
       PROVE  /\ answer.of = inbox[1].of /\ awaited # NoCall /\ inbox # << >>
              /\ 1 \in 1 .. Len(inbox) /\ inbox' = Consumed(inbox) /\ answer.of \in Calls
              /\ inbox[1].kind # "value" /\ late' = late
  <2>1. /\ answer.of = inbox[1].of /\ awaited # NoCall /\ inbox # << >> /\ inbox' = Consumed(inbox)
        /\ inbox[1].kind # "value" /\ late' = late
    BY <1>12
  <2>2. inbox[1] \in PartOf /\ Len(inbox) \in Nat /\ Len(inbox) >= 1
    BY <1>4, <2>1, TakenIs
  <2>3. QED
    BY <2>1, <2>2, CallIs
<1>13. ASSUME NEW k \in Spots, NEW i \in Held(k), answer.of # NoCall
       PROVE  Before(talk[k].results[i].answer.of, answer.of)
  BY <1>12, <1>13 DEF AgentKept, GivenIsBehind
<1>14. GivenIsBehind'
  <2>1. ASSUME NEW k \in Spots, NEW i \in Held(k)'
        PROVE  LET c == talk'[k].results[i].answer.of IN
               /\ \E j \in 1 .. served : c = requested[j].id
               /\ \A p \in 1 .. Len(inbox') : Before(c, inbox'[p].of)
    <3>1. CASE i \in Held(k) /\ talk'[k].results[i] = talk[k].results[i]
      <4>1. /\ \E j \in 1 .. served : talk[k].results[i].answer.of = requested[j].id
            /\ \A p \in 1 .. Len(inbox) : Before(talk[k].results[i].answer.of, inbox[p].of)
        BY <3>1 DEF AgentKept, GivenIsBehind
      <4>2. QED
        BY <1>5, <3>1, <4>1
    <3>2. CASE answer.of # NoCall /\ talk'[k].results[i] = [of |-> Current.id, answer |-> answer]
      <4>1. talk'[k].results[i].answer.of = inbox[1].of
        BY <1>12, <3>2
      <4>2. \E j \in 1 .. served : inbox[1].of = requested[j].id
        BY <1>12, <3>2 DEF AgentKept, StreamInOrder
      <4>3. ASSUME NEW p \in 1 .. Len(inbox') PROVE Before(inbox[1].of, inbox'[p].of)
        <5>1. p + 1 \in 2 .. Len(inbox) /\ inbox'[p] = inbox[p + 1] /\ Len(inbox) \in Nat
          BY <1>4, <1>12, <3>2, TakenIs
        <5>2. p + 1 \in 1 .. Len(inbox) /\ 1 < p + 1
          BY <5>1
        <5>3. QED
          BY <1>12, <3>2, <5>1, <5>2 DEF AgentKept, StreamInOrder
      <4>4. QED
        BY <4>1, <4>2, <4>3
    <3>3. QED
      BY <1>11, <3>1, <3>2
  <2>2. QED
    BY <1>3, <2>1 DEF GivenIsBehind
<1>15. AnswersAreOwn'
  <2>1. ASSUME ~late', NEW k \in Spots, NEW i \in Held(k)'
        PROVE  talk'[k].results[i].answer.of = talk'[k].results[i].of
    <3>1. ~late
      BY <2>1
    <3>2. CASE i \in Held(k) /\ talk'[k].results[i] = talk[k].results[i]
      BY <1>10, <3>1, <3>2 DEF AgentKept, AnswersAreOwn
    <3>3. CASE answer.of # NoCall /\ talk'[k].results[i] = [of |-> Current.id, answer |-> answer]
      <4>1. inbox[1].of = awaited
        BY <1>12, <3>1, <3>3 DEF AgentKept, InStep
      <4>2. awaited = Current.id
        BY <1>12, <3>3 DEF AgentKept, RequestsInOrder
      <4>3. QED
        BY <1>12, <3>3, <4>1, <4>2
    <3>4. QED
      BY <1>11, <3>2, <3>3
  <2>2. QED
    BY <1>10, <2>1 DEF AnswersAreOwn
<1>16. AnswersMoveForward'
  <2>1. ASSUME NEW k \in Spots, NEW i \in Held(k)'
        PROVE  ~Before(talk'[k].results[i].of, talk'[k].results[i].answer.of)
    <3>1. CASE i \in Held(k) /\ talk'[k].results[i] = talk[k].results[i]
      BY <1>10, <3>1 DEF AgentKept, AnswersMoveForward
    <3>2. CASE answer.of # NoCall /\ talk'[k].results[i] = [of |-> Current.id, answer |-> answer]
      <4>1. PICK j \in 1 .. served : inbox[1].of = requested[j].id
        BY <1>12, <3>2 DEF AgentKept, StreamInOrder
      <4>2. j \in 1 .. Len(requested)
        BY <1>4
      <4>3. Current.id = requested[Len(requested)].id /\ Len(requested) >= 1
        BY <1>12, <3>2 DEF AgentKept, RequestsInOrder
      <4>4. j = Len(requested) \/ (j < Len(requested) /\ Len(requested) \in 1 .. Len(requested))
        BY <1>4, <4>2
      <4>5. answer.of = Current.id \/ Before(answer.of, Current.id)
        BY <1>12, <3>2, <4>1, <4>2, <4>3, <4>4 DEF AgentKept, RequestsInOrder
      <4>6. ~Before(Current.id, answer.of)
        BY <1>1, <1>12, <3>2, <4>5, BeforeIsOrder
      <4>7. QED
        BY <3>2, <4>6
    <3>3. QED
      BY <1>11, <3>1, <3>2
  <2>2. ASSUME NEW k \in Spots, NEW i \in Held(k)', NEW l \in Spots, NEW j \in Held(l)',
               k < l \/ (k = l /\ i < j)
        PROVE  Before(talk'[k].results[i].answer.of, talk'[l].results[j].answer.of)
    <3>1. CASE i \in Held(k) /\ talk'[k].results[i] = talk[k].results[i]
      <4>1. CASE j \in Held(l) /\ talk'[l].results[j] = talk[l].results[j]
        BY <1>10, <2>2, <3>1, <4>1 DEF AgentKept, AnswersMoveForward
      <4>2. CASE answer.of # NoCall /\ talk'[l].results[j] = [of |-> Current.id, answer |-> answer]
        BY <1>13, <3>1, <4>2
      <4>3. QED
        BY <1>11, <4>1, <4>2
    <3>2. CASE k = L /\ i = todo
      <4>1. l = L /\ todo < j
        <5>1. l <= L /\ l \in Nat /\ L \in Nat
          BY <1>10
        <5>2. ~(k < l)
          BY <3>2, <5>1
        <5>3. QED
          BY <2>2, <3>2, <5>2
      <4>2. j = todo \/ (j \in Nat /\ j < todo)
        BY <1>11, <4>1
      <4>3. QED
        BY <1>1, <4>1, <4>2
    <3>3. QED
      BY <1>11, <3>1, <3>2
  <2>3. QED
    BY <1>10, <2>1, <2>2 DEF AnswersMoveForward
<1>17. QED
  BY <1>3, <1>6, <1>7, <1>8, <1>9, <1>14, <1>15, <1>16 DEF AgentKept

\* Texts of the client itself answer nothing.
LEMMA OwnIs ==
  \A kind \in {"error", "unknown", "ok"} : Own(kind) \in ToolAnswer /\ Own(kind).of = NoCall
BY DEF Own, Part, ToolAnswer

LEMMA CannotSendKept ==
  ASSUME AgentKept, CannotSend PROVE AgentKept'
<1>1. /\ stage = "tools" /\ awaited = NoCall
      /\ Finish(Current, Own("unknown")) \/ Finish(Current, Own("error"))
      /\ UNCHANGED <<requested, served, inbox, late>>
  BY DEF CannotSend
<1>2. late' \in BOOLEAN
  BY <1>1 DEF AgentKept, AgentTypes
<1>3. CASE Finish(Current, Own("unknown"))
  BY <1>1, <1>2, <1>3, OwnIs, FinishKept
<1>4. CASE Finish(Current, Own("error"))
  BY <1>1, <1>2, <1>4, OwnIs, FinishKept
<1>5. QED
  BY <1>1, <1>3, <1>4

LEMMA ReadTimesOutKept ==
  ASSUME AgentKept, ReadTimesOut PROVE AgentKept'
<1>1. /\ awaited # NoCall /\ Finish(Current, Own("error")) /\ late' = TRUE
      /\ UNCHANGED <<requested, served, inbox>>
  BY DEF ReadTimesOut
<1>2. stage = "tools"
  BY <1>1 DEF AgentKept, RequestsInOrder
<1>3. QED
  BY <1>1, <1>2, OwnIs, FinishKept

\* The text of a result is the client's own, or of the request whose answer ends.
LEMMA FormattedIs ==
  ASSUME AgentKept, inbox # << >>, Ends(Head(inbox)), NEW tool
  PROVE  /\ Formatted(tool, Append(responses, Head(inbox))) \in ToolAnswer
         /\ \/ Formatted(tool, Append(responses, Head(inbox))).of = NoCall
            \/ Formatted(tool, Append(responses, Head(inbox))).of = inbox[1].of
         /\ inbox[1].kind # "value"
<1>1. inbox \in Seq(PartOf) /\ Len(inbox) \in Nat /\ responses \in Seq(PartOf)
  BY DEF AgentKept, AgentTypes
<1>2. Len(inbox) >= 1 /\ Head(inbox) = inbox[1]
  BY <1>1, HeadTailProperties, EmptySeq
<1>3. inbox[1] \in PartOf
  BY <1>1, <1>2
<1>4. PICK h \in PartOf : h = inbox[1]
  BY <1>3
<1>5. h.kind \in {"done", "whole"} /\ h.of = inbox[1].of
  BY <1>2, <1>4 DEF Ends
<1>. DEFINE parts == Append(responses, h)
            values == {i \in DOMAIN parts : parts[i].kind = "value"}
<1>6. /\ Last(parts) = h
      /\ \/ values = {}
         \/ /\ values = {1} /\ parts[1] \in PartOf /\ parts[1].of = h.of
  <2>1. CASE responses = << >>
    <3>1. parts = <<h>>
      BY <2>1
    <3>2. Len(<<h>>) = 1 /\ DOMAIN <<h>> = {1} /\ <<h>>[1] = h
      OBVIOUS
    <3>. HIDE DEF parts
    <3>3. values = {}
      BY <1>5, <3>1, <3>2
    <3>4. QED
      BY <3>1, <3>2, <3>3 DEF Last
  <2>2. CASE responses # << >>
    <3>1. Len(responses) = 1 /\ responses[1].kind = "value" /\ inbox[1] = [of |-> responses[1].of, kind |-> "done"]
      BY <2>2 DEF AgentKept, StreamInOrder
    <3>2. h.of = responses[1].of /\ responses[1] \in PartOf
      <4>. HIDE DEF parts, values
      <4>1. h = [of |-> responses[1].of, kind |-> "done"]
        BY <1>4, <3>1
      <4>2. h.of = responses[1].of
        BY <4>1
      <4>3. Len(responses) = 1 /\ 1 \in 1 .. Len(responses)
        BY <3>1
      <4>4. responses[1] \in PartOf
        BY <1>1, <4>3, ElementOfSeq
      <4>5. QED
        BY <4>2, <4>4
    <3>3. /\ parts \in Seq(PartOf) /\ Len(parts) = 2 /\ parts[1] = responses[1] /\ parts[2] = h
          /\ DOMAIN parts = {1, 2}
      <4>1. /\ parts \in Seq(PartOf) /\ Len(parts) = Len(responses) + 1 /\ parts[Len(responses) + 1] = h
            /\ \A i \in 1 .. Len(responses) : parts[i] = responses[i]
        BY <1>1, AppendProperties
      <4>. HIDE DEF parts, values
      <4>2. Len(parts) = 2 /\ parts[1] = responses[1] /\ parts[2] = h
        <5>1. Len(responses) = 1
          BY <3>1
        <5>2. Len(responses) + 1 = 2 /\ 1 \in 1 .. Len(responses)
          BY <5>1
        <5>3. QED
          BY <4>1, <5>2
      <4>3. DOMAIN parts = 1 .. 2
        BY <4>1, <4>2, LenProperties
      <4>4. 1 .. 2 = {1, 2}
        OBVIOUS
      <4>5. DOMAIN parts = {1, 2}
        BY <4>3, <4>4
      <4>6. parts \in Seq(PartOf)
        BY <4>1
      <4>7. QED
        BY <4>2, <4>5, <4>6
    <3>. HIDE DEF parts
    <3>4. values = {1}
      BY <1>5, <3>1, <3>3
    <3>5. QED
      BY <3>2, <3>3, <3>4 DEF Last
  <2>3. QED
    BY <2>1, <2>2
<1>. HIDE DEF parts
<1>7. values = {1} => (CHOOSE i \in values : \A j \in values : i <= j) = 1
  <2>1. (CHOOSE i \in {1} : \A j \in {1} : i <= j) = 1
    OBVIOUS
  <2>2. QED
    BY <2>1
<1>8. Formatted(tool, parts) =
        CASE tool # "eval" -> Last(parts)
          [] tool = "eval" /\ values # {} -> parts[CHOOSE i \in values : \A j \in values : i <= j]
          [] OTHER -> Own("ok")
  BY DEF Formatted
<1>. HIDE DEF values
<1>9. Formatted(tool, parts) \in {h, Own("ok")} \/ (values = {1} /\ Formatted(tool, parts) = parts[1])
  <2>1. CASE tool # "eval"
    BY <1>6, <1>8, <2>1
  <2>2. CASE tool = "eval" /\ values = {1}
    BY <1>7, <1>8, <2>2
  <2>3. CASE tool = "eval" /\ values = {}
    BY <1>8, <2>3
  <2>4. QED
    BY <1>6, <2>1, <2>2, <2>3
<1>10. /\ Formatted(tool, parts) \in ToolAnswer
       /\ Formatted(tool, parts).of = NoCall \/ Formatted(tool, parts).of = h.of
  <2>1. h \in ToolAnswer /\ Own("ok") \in ToolAnswer /\ Own("ok").of = NoCall
    BY CallIs, OwnIs
  <2>2. values = {1} => parts[1] \in ToolAnswer /\ parts[1].of = h.of
    BY <1>6, CallIs
  <2>3. QED
    BY <1>9, <2>1, <2>2
<1>11. QED
  BY <1>2, <1>4, <1>5, <1>10 DEF parts

LEMMA ReadMessageKept ==
  ASSUME AgentKept, ReadMessage PROVE AgentKept'
<1>1. /\ awaited # NoCall /\ inbox # << >> /\ inbox' = Consumed(inbox)
      /\ UNCHANGED <<requested, served, late>>
  BY DEF ReadMessage
<1>2. stage = "tools" /\ late \in BOOLEAN /\ responses \in Seq(PartOf)
  BY <1>1 DEF AgentKept, AgentTypes, RequestsInOrder
<1>3. CASE Ends(Head(inbox))
  <2>1. PICK answer : answer = Formatted(Current.tool, Append(responses, Head(inbox)))
    OBVIOUS
  <2>2. Finish(Current, answer)
    BY <1>3, <2>1 DEF ReadMessage
  <2>3. /\ answer \in ToolAnswer
        /\ answer.of = NoCall \/ answer.of = inbox[1].of
        /\ inbox[1].kind # "value"
    BY <1>1, <1>3, <2>1, FormattedIs
  <2>4. QED
    BY <1>1, <1>2, <2>2, <2>3, FinishKept
<1>4. CASE ~Ends(Head(inbox))
  <2>1. responses' = Append(responses, Head(inbox)) /\ UNCHANGED <<stage, talk, todo, awaited>>
    BY <1>4 DEF ReadMessage
  <2>2. /\ inbox[1] \in PartOf /\ Head(inbox) = inbox[1]
        /\ inbox' \in Seq(PartOf) /\ Len(inbox) >= 1 /\ Len(inbox') = Len(inbox) - 1
        /\ \A p \in 1 .. Len(inbox') : p + 1 \in 2 .. Len(inbox) /\ inbox'[p] = inbox[p + 1]
    BY <1>1, TakenIs
  <2>3. inbox[1].kind = "value" /\ Len(inbox) \in Nat
    BY <1>4, <2>2, CallIs DEF Ends, Kinds, AgentKept, AgentTypes
  <2>4. responses = << >>
    BY <2>3 DEF AgentKept, StreamInOrder
  <2>5. /\ responses' \in Seq(PartOf) /\ Len(responses') = 1 /\ responses'[1] = inbox[1]
    <3>1. PICK h \in PartOf : h = inbox[1]
      BY <2>2
    <3>2. responses' = <<h>>
      BY <2>1, <2>2, <2>4, <3>1
    <3>3. QED
      BY <3>1, <3>2
  <2>6. 1 < Len(inbox) /\ inbox[2] = [of |-> inbox[1].of, kind |-> "done"]
    <3>1. 1 \in 1 .. Len(inbox)
      BY <2>2, <2>3
    <3>2. 1 < Len(inbox) /\ inbox[1 + 1] = [of |-> inbox[1].of, kind |-> "done"]
      BY <2>3, <3>1 DEF AgentKept, StreamInOrder
    <3>3. QED
      BY <3>2
  <2>7. Len(inbox') >= 1 /\ inbox'[1] = inbox[2]
    <3>1. Len(inbox') >= 1 /\ 1 \in 1 .. Len(inbox')
      BY <2>2, <2>3, <2>6
    <3>2. inbox'[1] = inbox[1 + 1]
      BY <2>2, <3>1
    <3>3. QED
      BY <3>1, <3>2
  <2>8. AgentTypes'
    BY <1>1, <2>1, <2>2, <2>5 DEF AgentKept, AgentTypes
  <2>9. TalkIsSound'
    <3>1. Turn' = Turn /\ Spots' = Spots /\ Callings' = Callings
      BY <2>1 DEF Turn, Spots, Callings
    <3>2. ResultsOfLast' = ResultsOfLast /\ CallsOfLast' = CallsOfLast
      BY <2>1 DEF ResultsOfLast, CallsOfLast
    <3>3. QED
      BY <2>1, <3>1, <3>2 DEF AgentKept, TalkIsSound
  <2>10. RequestsInOrder'
    <3>1. Turn' = Turn /\ Current' = Current
      BY <2>1 DEF Turn, Current, CallsOfLast
    <3>2. QED
      BY <1>1, <2>1, <3>1 DEF AgentKept, RequestsInOrder
  <2>11. StreamInOrder'
    <3>1. inbox'[1] = [of |-> responses'[1].of, kind |-> "done"] /\ responses'[1].kind = "value"
      BY <2>3, <2>5, <2>6, <2>7
    <3>2. QED
      BY <1>1, <2>1, <2>5, <2>7, <3>1, TakenIs DEF StreamInOrder
  <2>12. \A p \in 1 .. Len(inbox') : p + 1 \in 1 .. Len(inbox) /\ inbox'[p].of = inbox[p + 1].of
    <3>1. \A p \in 1 .. Len(inbox') : p + 1 \in 1 .. Len(inbox)
      BY <2>2, <2>3
    <3>2. QED
      BY <2>2, <3>1
  <2>13. InStep'
    <3>1. ASSUME ~late PROVE served = Len(requested)
      BY <1>1, <3>1 DEF AgentKept, InStep
    <3>2. ASSUME ~late, NEW p \in 1 .. Len(inbox') PROVE inbox'[p].of = awaited
      BY <2>12, <3>2 DEF AgentKept, InStep
    <3>3. QED
      BY <1>1, <2>1, <3>1, <3>2 DEF InStep
  <2>14. GivenIsBehind' /\ AnswersAreOwn' /\ AnswersMoveForward'
    <3>1. ASSUME NEW k \in Spots', NEW i \in Held(k)'
          PROVE  k \in Spots /\ i \in Held(k) /\ talk'[k].results[i] = talk[k].results[i]
      BY <2>1, HeldSame DEF Spots
    <3>2. \A p \in 1 .. Len(inbox') : \E q \in 1 .. Len(inbox) : inbox'[p].of = inbox[q].of
      BY <2>12
    <3>3. /\ talk' \in Seq(Msg) /\ late' = late
          /\ \A j \in 1 .. served : j \in 1 .. served' /\ requested'[j] = requested[j]
      BY <1>1, <2>8 DEF AgentTypes
    <3>4. QED
      BY <3>1, <3>2, <3>3, GivenAgain
  <2>15. QED
    BY <2>8, <2>9, <2>10, <2>11, <2>13, <2>14 DEF AgentKept
<1>5. QED
  BY <1>3, <1>4

-----------------------------------------------------------------------------
(***************************************************************************)
(* The theorem                                                             *)
(***************************************************************************)

LEMMA AgentNextKept ==
  ASSUME AgentKept, [AgentNext]_agentVars PROVE AgentKept'
<1>1. CASE Start
  <2>1. stage = "start" /\ stage' \in {"ask", "stopped"}
    BY <1>1 DEF Start
  <2>2. UNCHANGED <<talk, todo, awaited, responses, requested, served, inbox, late>>
    BY <1>1 DEF Start
  <2>3. QED
    BY <2>1, <2>2, StageKept
<1>2. CASE LlmFails
  BY <1>2, StageKept DEF LlmFails
<1>3. CASE LlmAnswers
  BY <1>3, LlmAnswersKept
<1>4. CASE SendRequest
  BY <1>4, SendRequestKept
<1>5. CASE CannotSend
  BY <1>5, CannotSendKept
<1>6. CASE ServerAnswers
  BY <1>6, ServerAnswersKept
<1>7. CASE ReadMessage
  BY <1>7, ReadMessageKept
<1>8. CASE ReadTimesOut
  BY <1>8, ReadTimesOutKept
<1>9. CASE UNCHANGED agentVars
  <2>. USE <1>9 DEF agentVars
  <2>1. Turn' = Turn /\ Spots' = Spots /\ Callings' = Callings
    BY DEF Turn, Spots, Callings
  <2>2. ResultsOfLast' = ResultsOfLast /\ CallsOfLast' = CallsOfLast /\ Current' = Current
    BY DEF ResultsOfLast, CallsOfLast, Current
  <2>3. AgentTypes' /\ StreamInOrder' /\ InStep'
    BY DEF AgentKept, AgentTypes, StreamInOrder, InStep
  <2>4. TalkIsSound' /\ RequestsInOrder'
    BY <2>1, <2>2 DEF AgentKept, TalkIsSound, RequestsInOrder
  <2>5. GivenIsBehind' /\ AnswersAreOwn' /\ AnswersMoveForward'
    BY <2>1 DEF AgentKept, GivenIsBehind, AnswersAreOwn, AnswersMoveForward, Held
  <2>6. QED
    BY <2>3, <2>4, <2>5 DEF AgentKept
<1>10. QED
  BY <1>1, <1>2, <1>3, <1>4, <1>5, <1>6, <1>7, <1>8, <1>9 DEF AgentNext

LEMMA TalkKeptIsSound == AgentKept => ConversationIsSound
<1>. SUFFICES ASSUME AgentKept PROVE ConversationIsSound
  OBVIOUS
<1>1. DOMAIN talk = Spots /\ Len(talk) \in Nat
  BY DEF AgentKept, AgentTypes, Spots
<1>2. AgentTypeOK
  <2>1. \A k \in Spots : talk[k] \in Msg
    BY TalkIs DEF AgentKept
  <2>2. \A k \in DOMAIN talk : talk[k].role \in {"user", "assistant", "tool"}
    BY <1>1, <2>1, RoleIs
  <2>3. stage = "tools" => todo \in DOMAIN CallsOfLast
    BY CurrentIs
  <2>4. ASSUME NEW p \in DOMAIN inbox PROVE inbox[p].of \in {requested[j].id : j \in 1 .. served}
    <3>1. p \in 1 .. Len(inbox)
      BY DEF AgentKept, AgentTypes
    <3>2. QED
      BY <3>1 DEF AgentKept, StreamInOrder
  <2>5. awaited = NoCall \/ (stage = "tools" /\ awaited = Current.id)
    BY DEF AgentKept, RequestsInOrder
  <2>6. stage \in {"start", "ask", "tools", "stopped"} /\ served \in 0 .. Len(requested)
    BY DEF AgentKept, AgentTypes
  <2>7. QED
    BY <2>2, <2>3, <2>4, <2>5, <2>6 DEF AgentTypeOK
<1>3. CallsAreAnswered
  <2>1. ASSUME stage = "ask", NEW k \in DOMAIN talk, talk[k].role = "assistant"
        PROVE  /\ k < Len(talk) /\ talk[k + 1].role = "tool"
               /\ Len(talk[k + 1].results) = Len(talk[k].calls)
               /\ \A i \in DOMAIN talk[k + 1].results :
                    talk[k + 1].results[i].of = talk[k].calls[i].id
    <3>1. k \in Spots /\ Calling(talk, k)
      BY <1>1, <2>1 DEF Spots, Calling
    <3>2. k # Len(talk)
      BY <2>1, <3>1 DEF AgentKept, TalkIsSound
    <3>3. k < Len(talk) /\ k + 1 \in Spots /\ k \in Nat
      BY <1>1, <3>1, <3>2 DEF Spots
    <3>4. Resulting(talk, k + 1)
      BY <3>1, <3>3 DEF AgentKept, TalkIsSound
    <3>5. AnswersTo(talk, k + 1) /\ Full(talk, k + 1)
      BY <2>1, <3>3, <3>4 DEF AgentKept, TalkIsSound
    <3>6. DOMAIN talk[k + 1].results = 1 .. Len(talk[k + 1].results)
      BY <3>3, <3>4, TalkIs DEF AgentKept
    <3>7. k + 1 - 1 = k
      BY <3>3
    <3>8. QED
      BY <3>3, <3>4, <3>5, <3>6, <3>7 DEF AnswersTo, Full, Resulting
  <2>2. QED
    BY <2>1 DEF CallsAreAnswered
<1>4. QED
  BY <1>2, <1>3 DEF AgentKept, ConversationIsSound

\* Whatever the LLM and the server do, and however late the answers are: a
\* conversation that is sent answers every call once, right behind it and in order;
\* an answer is given at most once and never before its call, and as long as no read
\* times out it is the answer to the call it is given for (agent.rs, nrepl.rs).
THEOREM ConversationsAreAlwaysSound == AgentSpec => []ConversationIsSound
<1>1. AgentInit => AgentKept
  BY AgentInitKept
<1>2. AgentKept /\ [AgentNext]_agentVars => AgentKept'
  BY AgentNextKept
<1>3. AgentKept => ConversationIsSound
  BY TalkKeptIsSound
<1>4. QED
  BY <1>1, <1>2, <1>3, PTL DEF AgentSpec
===========================================================================
