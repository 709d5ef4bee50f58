--------------------------- MODULE OcapnProofs ----------------------------
(***************************************************************************)
(* Proofs about Ocapn, for any processes, nodes, scripts, calls and        *)
(* restarts: the objects, and the numbers of messages.                     *)
(***************************************************************************)
EXTENDS Ocapn, FiniteSetTheorems, SequenceTheorems, TLAPS

Holds(q, m) == \E k \in 1 .. Len(q) : q[k] = m

-----------------------------------------------------------------------------
(***************************************************************************)
(* The invariant of objects: slots, keys, evaluations                      *)
(***************************************************************************)

\* A number of a call that is rounded is not that of another call.
RoundedAreNew == \A id \in RequestIds : Rounded(id) \in RequestIds => Rounded(id) = id

CallMessage ==
  [kind : {"call", "only", "result"}, from : Machines, to : Swiss,
   method : {"get", "set"}, value : Nat, id : RequestIds, known : SUBSET Nat]
Reading == [pos : Nat, id : RequestIds \cup {-1}, value : Nat]
Context == [busy : {TRUE}, counter : Nat, made : Nat, sends : SUBSET CallMessage, read : Reading]
Outcome == [node : Nodes, ok : BOOLEAN, sends : SUBSET CallMessage, read : Reading]
Answered == [id : RequestIds, to : Swiss, value : Nat, known : SUBSET Nat]

ObjectsTyped ==
  /\ starts \in [Machines -> 0 .. 1]
  /\ slots \in [Machines -> Seq(Seq(Nat))]
  /\ farWrite \in [Machines -> Seq(Nat)]
  /\ DOMAIN byKey = Machines /\ DOMAIN owners = Machines
  /\ mail \in [Nodes -> Seq(RequestIds)]
  /\ taken \in [Nodes -> Seq(RequestIds)]
  /\ pendingNodes \in SUBSET Nodes /\ asked \in SUBSET Nodes /\ missed \in SUBSET Nodes
  /\ running \in [Nodes -> Context \cup {Idle}]
  /\ finished \in [Machines -> Seq(Outcome)]
  /\ wire \in SUBSET CallMessage
  /\ events \in [Machines -> Seq(CallMessage)]
  /\ DOMAIN results = Machines
  /\ \A p \in Machines : \A id \in DOMAIN results[p] : id \in RequestIds /\ results[p][id] \in Nat
  /\ display \in [Nodes -> Reading]
  /\ requests \in [Nodes -> SUBSET RequestIds]
  /\ values \in Nat
  /\ answered \in SUBSET Answered

\* A slot has a value, and was written at least as often as from afar.
SlotsAreWritten == \A p \in Machines :
  /\ Len(farWrite[p]) = Len(slots[p])
  /\ \A pos \in 1 .. Len(slots[p]) : slots[p][pos] # << >> /\ farWrite[p][pos] <= Len(slots[p][pos])

\* A node has one evaluation, which runs or waits for the owner of its process.
OneAtATime == \A p \in Machines : \A k \in 1 .. Len(finished[p]) :
  /\ Home[finished[p][k].node] = p /\ ~ running[finished[p][k].node].busy
  /\ \A j \in 1 .. Len(finished[p]) : finished[p][j].node = finished[p][k].node => j = k

EventsAddressed == \A p \in Machines : \A k \in 1 .. Len(events[p]) :
  IF events[p][k].kind = "result" THEN events[p][k].from = p ELSE events[p][k].to.peer = p

\* A key is that of the slot of one export of its node; a node has keys from 0 on,
\* and those of the exports of its evaluation.
KeysFound(p) ==
  /\ DOMAIN owners[p] \subseteq 1 .. Len(slots[p])
  /\ \A pos \in DOMAIN owners[p] : \E k \in DOMAIN byKey[p] : byKey[p][k] = pos
  /\ \A k \in DOMAIN byKey[p] :
       /\ k \in Nodes \X Nat
       /\ byKey[p][k] \in DOMAIN owners[p] /\ owners[p][byKey[p][k]] = k[1]
       /\ \A l \in DOMAIN byKey[p] : byKey[p][k] = byKey[p][l] => k = l
       /\ \A j \in 0 .. k[2] : <<k[1], j>> \in DOMAIN byKey[p]
KeysAreExports == \A p \in Machines : KeysFound(p)

KeysAreCounted == \A n \in Nodes : running[n].busy =>
  /\ running[n].counter = running[n].made
  /\ \A k \in 0 .. running[n].counter - 1 : <<n, k>> \in DOMAIN byKey[Home[n]]

ObjectsKept ==
  /\ ObjectsTyped /\ SlotsAreWritten /\ OneAtATime /\ EventsAddressed
  /\ KeysAreExports /\ KeysAreCounted

-----------------------------------------------------------------------------
(***************************************************************************)
(* Queues, slots and evaluations                                           *)
(***************************************************************************)

LEMMA QueueTail ==
  ASSUME NEW S, NEW q \in Seq(S), q # << >>
  PROVE  /\ Head(q) \in S /\ Head(q) = q[1] /\ Tail(q) \in Seq(S)
         /\ Len(q) \in Nat \ {0} /\ Len(Tail(q)) = Len(q) - 1
         /\ \A k \in 1 .. Len(q) - 1 : Tail(q)[k] = q[k + 1]
BY HeadTailProperties, EmptySeq, SMT

LEMMA QueueAppend ==
  ASSUME NEW S, NEW q \in Seq(S), NEW m \in S
  PROVE  /\ Append(q, m) \in Seq(S) /\ Len(q) \in Nat /\ Append(q, m) # << >>
         /\ Len(Append(q, m)) = Len(q) + 1 /\ Append(q, m)[Len(q) + 1] = m
         /\ \A k \in 1 .. Len(q) : Append(q, m)[k] = q[k]
BY AppendProperties, LenProperties, SMT

\* The queues of all processes or nodes.
LEMMA QueuesAppend ==
  ASSUME NEW P, NEW S, NEW f \in [P -> Seq(S)], NEW p \in P, NEW m \in S,
         NEW g, g = [f EXCEPT ![p] = Append(@, m)]
  PROVE  /\ g \in [P -> Seq(S)] /\ \A q \in P : q # p => g[q] = f[q]
         /\ Len(f[p]) \in Nat /\ Len(g[p]) = Len(f[p]) + 1 /\ g[p][Len(f[p]) + 1] = m
         /\ \A k \in 1 .. Len(f[p]) : g[p][k] = f[p][k]
<1>1. f[p] \in Seq(S) /\ g[p] = Append(f[p], m) /\ \A q \in P : q # p => g[q] = f[q]
  OBVIOUS
<1>2. /\ Append(f[p], m) \in Seq(S) /\ Len(f[p]) \in Nat
      /\ Len(Append(f[p], m)) = Len(f[p]) + 1 /\ Append(f[p], m)[Len(f[p]) + 1] = m
      /\ \A k \in 1 .. Len(f[p]) : Append(f[p], m)[k] = f[p][k]
  BY <1>1, QueueAppend
<1>3. g \in [P -> Seq(S)]
  BY <1>2
<1>4. QED
  BY <1>1, <1>2, <1>3

LEMMA QueuesTail ==
  ASSUME NEW P, NEW S, NEW f \in [P -> Seq(S)], NEW p \in P, f[p] # << >>,
         NEW g, g = [f EXCEPT ![p] = Tail(@)]
  PROVE  /\ g \in [P -> Seq(S)] /\ \A q \in P : q # p => g[q] = f[q]
         /\ Len(f[p]) \in Nat \ {0} /\ Len(g[p]) = Len(f[p]) - 1
         /\ Head(f[p]) = f[p][1] /\ Head(f[p]) \in S
         /\ \A k \in 1 .. Len(f[p]) - 1 : k + 1 \in 1 .. Len(f[p]) /\ g[p][k] = f[p][k + 1]
<1>1. f[p] \in Seq(S) /\ g[p] = Tail(f[p]) /\ \A q \in P : q # p => g[q] = f[q]
  OBVIOUS
<1>2. /\ Head(f[p]) \in S /\ Head(f[p]) = f[p][1] /\ Tail(f[p]) \in Seq(S)
      /\ Len(f[p]) \in Nat \ {0} /\ Len(Tail(f[p])) = Len(f[p]) - 1
      /\ \A k \in 1 .. Len(f[p]) - 1 : Tail(f[p])[k] = f[p][k + 1]
  BY <1>1, QueueTail
<1>3. g \in [P -> Seq(S)]
  BY <1>2
<1>4. QED
  BY <1>1, <1>2, <1>3

LEMMA SlotAfter ==
  ASSUME NEW s \in Seq(Seq(Nat)), NEW pos \in 1 .. Len(s), NEW v \in Nat
  PROVE  /\ Written(s, pos, v) \in Seq(Seq(Nat))
         /\ Len(Written(s, pos, v)) = Len(s)
         /\ Written(s, pos, v)[pos] = Append(s[pos], v)
         /\ \A k \in 1 .. Len(s) : k # pos => Written(s, pos, v)[k] = s[k]
<1>1. s[pos] \in Seq(Nat)
  BY ElementOfSeq
<1>2. Append(s[pos], v) \in Seq(Nat)
  BY <1>1, QueueAppend
<1>3. Written(s, pos, v) = [s EXCEPT ![pos] = Append(s[pos], v)]
  BY DEF Written
<1>4. /\ [s EXCEPT ![pos] = Append(s[pos], v)] \in Seq(Seq(Nat))
      /\ Len([s EXCEPT ![pos] = Append(s[pos], v)]) = Len(s)
      /\ \A j \in 1 .. Len(s) :
           [s EXCEPT ![pos] = Append(s[pos], v)][j] = IF j = pos THEN Append(s[pos], v) ELSE s[j]
  BY <1>2, ExceptSeq
<1>5. QED
  BY <1>3, <1>4

LEMMA FarWriteAfter ==
  ASSUME NEW s \in Seq(Nat), NEW pos \in 1 .. Len(s), NEW v \in Nat
  PROVE  /\ [s EXCEPT ![pos] = v] \in Seq(Nat) /\ Len([s EXCEPT ![pos] = v]) = Len(s)
         /\ \A j \in 1 .. Len(s) : [s EXCEPT ![pos] = v][j] = IF j = pos THEN v ELSE s[j]
BY ExceptSeq

LEMMA ContextOf ==
  ASSUME ObjectsTyped, NEW n \in Nodes
  PROVE  /\ running[n] \in Context \cup {Idle}
         /\ running[n].busy => running[n] \in Context
         /\ ~ running[n].busy => running[n] = Idle
<1>1. running[n] \in Context \cup {Idle}
  BY DEF ObjectsTyped
<1>2. \A r \in Context : r.busy = TRUE
  BY DEF Context
<1>3. Idle.busy = FALSE
  BY DEF Idle
<1>4. QED
  BY <1>1, <1>2, <1>3

LEMMA ContextFields ==
  ASSUME NEW r \in Context
  PROVE  /\ r.busy = TRUE /\ r.counter \in Nat /\ r.made \in Nat
         /\ r.sends \in SUBSET CallMessage /\ r.read \in Reading
BY DEF Context

LEMMA ContextEdits ==
  ASSUME NEW r \in Context, NEW x, NEW y
  PROVE  /\ [[r EXCEPT !.counter = x] EXCEPT !.made = y] =
              [busy |-> TRUE, counter |-> x, made |-> y, sends |-> r.sends, read |-> r.read]
         /\ [r EXCEPT !.sends = x] =
              [busy |-> TRUE, counter |-> r.counter, made |-> r.made, sends |-> x, read |-> r.read]
         /\ [r EXCEPT !.read = x] =
              [busy |-> TRUE, counter |-> r.counter, made |-> r.made, sends |-> r.sends, read |-> x]
<1>1. r.busy = TRUE
  BY ContextFields
<1>2. [r EXCEPT !.sends = x] =
        [busy |-> r.busy, counter |-> r.counter, made |-> r.made, sends |-> x, read |-> r.read]
  BY DEF Context
<1>3. [r EXCEPT !.read = x] =
        [busy |-> r.busy, counter |-> r.counter, made |-> r.made, sends |-> r.sends, read |-> x]
  BY DEF Context
<1>4. [[r EXCEPT !.counter = x] EXCEPT !.made = y] =
        [busy |-> r.busy, counter |-> x, made |-> y, sends |-> r.sends, read |-> r.read]
  <2>1. [r EXCEPT !.counter = x] =
          [busy |-> r.busy, counter |-> x, made |-> r.made, sends |-> r.sends, read |-> r.read]
    BY DEF Context
  <2>2. [[busy |-> r.busy, counter |-> x, made |-> r.made, sends |-> r.sends, read |-> r.read] EXCEPT !.made = y] =
          [busy |-> r.busy, counter |-> x, made |-> y, sends |-> r.sends, read |-> r.read]
    OBVIOUS
  <2>3. QED
    BY <2>1, <2>2
<1>5. QED
  BY <1>1, <1>2, <1>3, <1>4

\* The evaluation of n goes on with other data.
Runs(n, counter, made, sends, read) ==
  /\ running' \in [Nodes -> Context \cup {Idle}]
  /\ \A o \in Nodes : o # n => running'[o] = running[o]
  /\ running'[n] = [busy |-> TRUE, counter |-> counter, made |-> made, sends |-> sends, read |-> read]
  /\ running'[n] \in Context

LEMMA RunsFrom ==
  ASSUME ObjectsTyped, NEW n \in Nodes,
         NEW counter \in Nat, NEW made \in Nat, NEW sends \in SUBSET CallMessage, NEW read \in Reading,
         running' = [running EXCEPT ![n] = [busy |-> TRUE, counter |-> counter, made |-> made,
                                            sends |-> sends, read |-> read]]
  PROVE  Runs(n, counter, made, sends, read)
<1>1. running \in [Nodes -> Context \cup {Idle}]
  BY DEF ObjectsTyped
<1>2. [busy |-> TRUE, counter |-> counter, made |-> made, sends |-> sends, read |-> read] \in Context
  BY DEF Context
<1>3. QED
  BY <1>1, <1>2 DEF Runs

LEMMA EvaluateRuns ==
  ASSUME ObjectsTyped, NEW n \in Nodes, Evaluate(n)
  PROVE  Runs(n, 0, 0, {}, NothingShown) /\ NothingShown \in Reading
<1>1. NothingShown \in Reading
  BY DEF NothingShown, Reading
<1>2. running' = [running EXCEPT ![n] = [busy |-> TRUE, counter |-> 0, made |-> 0, sends |-> {}, read |-> NothingShown]]
  BY DEF Evaluate, Reset
<1>3. QED
  BY <1>1, <1>2, RunsFrom

LEMMA ExportRuns ==
  ASSUME ObjectsTyped, NEW n \in Nodes, Export(n)
  PROVE  /\ running[n] \in Context
         /\ Runs(n, running[n].counter + 1, running[n].made + 1, running[n].sends, running[n].read)
<1>1. running[n] \in Context
  BY ContextOf DEF Export, Scripting
<1>2. running \in [Nodes -> Context \cup {Idle}]
  BY DEF ObjectsTyped
<1>3. running' = [running EXCEPT ![n] =
         [[running[n] EXCEPT !.counter = running[n].counter + 1] EXCEPT !.made = running[n].made + 1]]
  <2>1. running' = [running EXCEPT ![n].counter = @ + 1, ![n].made = @ + 1]
    BY DEF Export
  <2>2. [running EXCEPT ![n].counter = @ + 1, ![n].made = @ + 1] =
          [running EXCEPT ![n] = [[running[n] EXCEPT !.counter = @ + 1] EXCEPT !.made = @ + 1]]
    BY <1>2
  <2>3. [[running[n] EXCEPT !.counter = @ + 1] EXCEPT !.made = @ + 1] =
          [[running[n] EXCEPT !.counter = running[n].counter + 1] EXCEPT !.made = running[n].made + 1]
    BY <1>1 DEF Context
  <2>4. QED
    BY <2>1, <2>2, <2>3
<1>4. running' = [running EXCEPT ![n] = [busy |-> TRUE, counter |-> running[n].counter + 1,
         made |-> running[n].made + 1, sends |-> running[n].sends, read |-> running[n].read]]
  <2>1. [[running[n] EXCEPT !.counter = running[n].counter + 1] EXCEPT !.made = running[n].made + 1] =
          [busy |-> TRUE, counter |-> running[n].counter + 1,
           made |-> running[n].made + 1, sends |-> running[n].sends, read |-> running[n].read]
    BY <1>1, ContextEdits
  <2>2. QED
    BY <1>3, <2>1
<1>5. running[n].counter + 1 \in Nat /\ running[n].made + 1 \in Nat
      /\ running[n].sends \in SUBSET CallMessage /\ running[n].read \in Reading
  <2>1. /\ running[n].counter \in Nat /\ running[n].made \in Nat
        /\ running[n].sends \in SUBSET CallMessage /\ running[n].read \in Reading
    BY <1>1, ContextFields
  <2>2. QED
    BY <2>1
<1>6. QED
  BY <1>1, <1>4, <1>5, RunsFrom

LEMMA ReceiveSlotRuns ==
  ASSUME ObjectsTyped, SlotsAreWritten, NEW n \in Nodes, NEW pos \in 1 .. MaxValues, ReceiveSlot(n, pos)
  PROVE  /\ running[n] \in Context /\ Home[n] \in Machines
         /\ Last(slots[Home[n]][pos]) \in Nat
         /\ Runs(n, running[n].counter, running[n].made, running[n].sends,
                 [pos |-> pos, id |-> -1, value |-> Last(slots[Home[n]][pos])])
<1>1. running[n] \in Context /\ Home[n] \in Machines
  BY ContextOf, OcapnAssumption DEF ReceiveSlot, Scripting
<1>2. Last(slots[Home[n]][pos]) \in Nat
  <2>1. pos \in 1 .. Len(slots[Home[n]]) /\ slots[Home[n]] \in Seq(Seq(Nat))
    BY <1>1 DEF ReceiveSlot, ObjectsTyped
  <2>2. slots[Home[n]][pos] \in Seq(Nat) /\ slots[Home[n]][pos] # << >>
    BY <1>1, <2>1, ElementOfSeq DEF SlotsAreWritten
  <2>3. Len(slots[Home[n]][pos]) \in 1 .. Len(slots[Home[n]][pos])
    BY <2>2, QueueTail
  <2>4. QED
    BY <2>2, <2>3, ElementOfSeq DEF Last
<1>3. [pos |-> pos, id |-> -1, value |-> Last(slots[Home[n]][pos])] \in Reading
  BY <1>2 DEF Reading
<1>4. running' = [running EXCEPT ![n] = [busy |-> TRUE, counter |-> running[n].counter,
         made |-> running[n].made, sends |-> running[n].sends,
         read |-> [pos |-> pos, id |-> -1, value |-> Last(slots[Home[n]][pos])]]]
  <2>1. running' = [running EXCEPT ![n].read = [pos |-> pos, id |-> -1, value |-> Last(slots[Home[n]][pos])]]
    BY DEF ReceiveSlot
  <2>2. running \in [Nodes -> Context \cup {Idle}]
    BY DEF ObjectsTyped
  <2>3. running' = [running EXCEPT ![n] = [running[n] EXCEPT
          !.read = [pos |-> pos, id |-> -1, value |-> Last(slots[Home[n]][pos])]]]
    BY <2>1, <2>2
  <2>. DEFINE x == [pos |-> pos, id |-> -1, value |-> Last(slots[Home[n]][pos])]
  <2>4. [running[n] EXCEPT !.read = x] =
          [busy |-> TRUE, counter |-> running[n].counter,
           made |-> running[n].made, sends |-> running[n].sends, read |-> x]
    BY <1>1, ContextEdits
  <2>5. QED
    BY <2>3, <2>4
<1>5. QED
  BY <1>1, <1>2, <1>3, <1>4, RunsFrom, ContextFields

LEMMA ReadResultRuns ==
  ASSUME ObjectsTyped, NEW n \in Nodes, NEW id \in RequestIds, ReadResult(n, id)
  PROVE  /\ running[n] \in Context /\ Home[n] \in Machines
         /\ Runs(n, running[n].counter, running[n].made, running[n].sends,
                 [pos |-> 0, id |-> id, value |-> IF Rounded(id) \in DOMAIN results[Home[n]]
                                                  THEN results[Home[n]][Rounded(id)] ELSE 0])
<1>. DEFINE v == IF Rounded(id) \in DOMAIN results[Home[n]] THEN results[Home[n]][Rounded(id)] ELSE 0
<1>1. running[n] \in Context /\ Home[n] \in Machines
  BY ContextOf, OcapnAssumption DEF ReadResult, Scripting
<1>2. v \in Nat
  BY <1>1 DEF ObjectsTyped
<1>3. running' = [running EXCEPT ![n].read = [pos |-> 0, id |-> id, value |-> v]]
  BY DEF ReadResult
<1>. HIDE DEF v
<1>4. [pos |-> 0, id |-> id, value |-> v] \in Reading
  BY <1>2 DEF Reading
<1>5. running' = [running EXCEPT ![n] = [busy |-> TRUE, counter |-> running[n].counter,
         made |-> running[n].made, sends |-> running[n].sends,
         read |-> [pos |-> 0, id |-> id, value |-> v]]]
  <2>1. running \in [Nodes -> Context \cup {Idle}]
    BY DEF ObjectsTyped
  <2>2. running' = [running EXCEPT ![n] = [running[n] EXCEPT !.read = [pos |-> 0, id |-> id, value |-> v]]]
    BY <1>3, <2>1
  <2>. DEFINE x == [pos |-> 0, id |-> id, value |-> v]
  <2>3. [running[n] EXCEPT !.read = x] =
          [busy |-> TRUE, counter |-> running[n].counter,
           made |-> running[n].made, sends |-> running[n].sends, read |-> x]
    BY <1>1, ContextEdits
  <2>4. QED
    BY <2>2, <2>3
<1>6. Runs(n, running[n].counter, running[n].made, running[n].sends, [pos |-> 0, id |-> id, value |-> v])
  BY <1>1, <1>4, <1>5, RunsFrom, ContextFields
<1>7. QED
  BY <1>1, <1>6 DEF v

\* The message of a call, and what its caller knew.
Called(n, kind, method, to, id) ==
  [kind |-> kind, from |-> Home[n], to |-> to, method |-> method, value |-> values', id |-> id,
   known |-> {a.value : a \in {a \in answered : a.to = to}}]

\* The request has the number id.
AsksAs(n, kind, method, to, id) ==
  /\ running[n] \in Context /\ running[n].sends = {}
  /\ Called(n, kind, method, to, id) \in CallMessage
  /\ requests' = [requests EXCEPT ![n] = @ \cup {id}]
  /\ Runs(n, running[n].counter, running[n].made, {Called(n, kind, method, to, id)}, running[n].read)

LEMMA RequestRuns ==
  ASSUME ObjectsTyped, NEW n \in Nodes, NEW kind \in {"call", "only"}, NEW method \in {"get", "set"},
         NEW to \in Swiss, Request(n, kind, method, to)
  PROVE  \E id \in Unused : AsksAs(n, kind, method, to, id)
<1>1. running[n] \in Context /\ Home[n] \in Machines /\ running[n].sends = {}
  BY ContextOf, OcapnAssumption DEF Request, Scripting
<1>2. PICK id \in Unused :
        /\ requests' = [requests EXCEPT ![n] = @ \cup {id}]
        /\ running' = [running EXCEPT ![n].sends = @ \cup {Called(n, kind, method, to, id)}]
  BY DEF Request, Called
<1>3. values' \in Nat
  BY DEF Request, ObjectsTyped
<1>4. {a.value : a \in {a \in answered : a.to = to}} \in SUBSET Nat
  BY DEF ObjectsTyped, Answered
<1>5. Called(n, kind, method, to, id) \in CallMessage
  BY <1>1, <1>2, <1>3, <1>4 DEF Called, CallMessage, Unused
<1>6. running' = [running EXCEPT ![n] = [busy |-> TRUE, counter |-> running[n].counter,
         made |-> running[n].made, sends |-> {Called(n, kind, method, to, id)}, read |-> running[n].read]]
  <2>1. running[n].sends \cup {Called(n, kind, method, to, id)} = {Called(n, kind, method, to, id)}
    BY <1>1
  <2>2. running \in [Nodes -> Context \cup {Idle}]
    BY DEF ObjectsTyped
  <2>3. running' = [running EXCEPT ![n] = [running[n] EXCEPT !.sends = {Called(n, kind, method, to, id)}]]
    BY <1>2, <2>1, <2>2
  <2>4. QED
    BY <1>1, <2>3, ContextEdits
<1>7. Runs(n, running[n].counter, running[n].made, {Called(n, kind, method, to, id)}, running[n].read)
  <2>1. running[n].counter \in Nat /\ running[n].made \in Nat /\ running[n].read \in Reading
    BY <1>1, ContextFields
  <2>2. {Called(n, kind, method, to, id)} \in SUBSET CallMessage
    BY <1>5
  <2>3. QED
    BY <1>6, <2>1, <2>2, RunsFrom
<1>8. QED
  BY <1>1, <1>2, <1>5, <1>7 DEF AsksAs

-----------------------------------------------------------------------------
(***************************************************************************)
(* What is written to a slot                                               *)
(***************************************************************************)

LEMMA SlotAppend ==
  ASSUME NEW s \in Seq(Nat), NEW v \in Nat
  PROVE  /\ Append(s, v) \in Seq(Nat) /\ Append(s, v) # << >> /\ Len(s) \in Nat
         /\ Len(Append(s, v)) = Len(s) + 1 /\ Last(Append(s, v)) = v
         /\ \A k \in 1 .. Len(s) : Append(s, v)[k] = s[k]
         /\ Append(s, v)[Len(s) + 1] = v
<1>1. /\ Append(s, v) \in Seq(Nat) /\ Append(s, v) # << >> /\ Len(s) \in Nat
      /\ Len(Append(s, v)) = Len(s) + 1 /\ Append(s, v)[Len(s) + 1] = v
      /\ \A k \in 1 .. Len(s) : Append(s, v)[k] = s[k]
  BY QueueAppend
<1>2. QED
  BY <1>1 DEF Last

\* How far a slot is known to one who knows v.
LEMMA UptoGrows ==
  ASSUME NEW s \in Seq(Nat), NEW v \in Nat, NEW w \in Nat
  PROVE  /\ Upto(s, v) \in 0 .. Len(s) /\ Len(s) \in Nat
         /\ Upto(s, v) <= Upto(Append(s, w), v) /\ Upto(Append(s, w), v) \in Nat
         /\ v # w => Upto(Append(s, w), v) = Upto(s, v)
         /\ s # << >> => Upto(s, Last(s)) = Len(s)
<1>. DEFINE U == {k \in 1 .. Len(s) : \E j \in k .. Len(s) : s[j] = v}
<1>. DEFINE t == Append(s, w)
<1>. DEFINE T == {k \in 1 .. Len(t) : \E j \in k .. Len(t) : t[j] = v}
<1>1. /\ Len(s) \in Nat /\ Len(t) = Len(s) + 1 /\ t[Len(s) + 1] = w
      /\ \A k \in 1 .. Len(s) : t[k] = s[k]
  BY QueueAppend
<1>. HIDE DEF t
<1>2. \A n \in Nat : IsFiniteSet(1 .. n) /\ Cardinality(1 .. n) = n
  BY FS_Interval
<1>3. U \subseteq T /\ U \in SUBSET (1 .. Len(s)) /\ T \in SUBSET (1 .. Len(t))
  BY <1>1
<1>4. v # w => T \subseteq U
  <2>1. ASSUME v # w, NEW k \in 1 .. Len(t), NEW j \in k .. Len(t), t[j] = v
        PROVE  k \in 1 .. Len(s) /\ j \in k .. Len(s) /\ s[j] = v
    <3>1. j # Len(s) + 1
      BY <1>1, <2>1
    <3>2. k \in 1 .. Len(s) /\ j \in k .. Len(s)
      BY <1>1, <3>1
    <3>3. QED
      BY <1>1, <2>1, <3>2
  <2>2. QED
    BY <2>1
<1>5. Upto(s, v) = Cardinality(U) /\ Upto(t, v) = Cardinality(T)
  BY DEF Upto
<1>. HIDE DEF U, T
<1>6. IsFiniteSet(T) /\ IsFiniteSet(U) /\ Cardinality(U) <= Len(s)
  <2>1. IsFiniteSet(T)
    <3>1. IsFiniteSet(1 .. Len(t))
      BY <1>1, <1>2
    <3>2. QED
      BY <1>3, <3>1, FS_Subset
  <2>2. IsFiniteSet(1 .. Len(s)) /\ Cardinality(1 .. Len(s)) = Len(s)
    BY <1>1, <1>2
  <2>3. QED
    BY <1>3, <2>1, <2>2, FS_Subset
<1>7. Cardinality(U) <= Cardinality(T) /\ Cardinality(U) \in Nat /\ Cardinality(T) \in Nat
  <2>1. Cardinality(U) <= Cardinality(T)
    BY <1>3, <1>6, FS_Subset
  <2>2. QED
    BY <1>6, <2>1, FS_CardinalityType
<1>8. s # << >> => Upto(s, Last(s)) = Len(s)
  <2>1. SUFFICES ASSUME s # << >> PROVE Upto(s, Last(s)) = Len(s)
    OBVIOUS
  <2>2. {k \in 1 .. Len(s) : \E j \in k .. Len(s) : s[j] = Last(s)} = 1 .. Len(s)
    BY <1>1 DEF Last
  <2>3. Cardinality(1 .. Len(s)) = Len(s)
    BY <1>1, <1>2
  <2>4. QED
    BY <2>2, <2>3 DEF Upto
<1>9. v # w => Cardinality(T) = Cardinality(U)
  <2>1. v # w => T = U
    BY <1>3, <1>4
  <2>2. QED
    BY <2>1
<1>10. QED
  BY <1>1, <1>5, <1>6, <1>7, <1>8, <1>9 DEF t

\* v is written to the slot at pos of p.
Rewrites(p, pos, v) ==
  /\ slots' \in [Machines -> Seq(Seq(Nat))] /\ farWrite' \in [Machines -> Seq(Nat)]
  /\ \A q \in Machines : q # p => slots'[q] = slots[q] /\ farWrite'[q] = farWrite[q]
  /\ pos \in 1 .. Len(slots[p]) /\ slots'[p][pos] = Append(slots[p][pos], v)
  /\ Len(slots'[p]) = Len(slots[p]) /\ Len(farWrite'[p]) = Len(farWrite[p])
  /\ \A k \in 1 .. Len(slots[p]) : k # pos => slots'[p][k] = slots[p][k] /\ farWrite'[p][k] = farWrite[p][k]
  /\ farWrite'[p][pos] \in {farWrite[p][pos], Len(slots[p][pos]) + 1}

\* v is the value of a new slot of p.
Adds(p, v) ==
  /\ slots' \in [Machines -> Seq(Seq(Nat))] /\ farWrite' \in [Machines -> Seq(Nat)]
  /\ \A q \in Machines : q # p => slots'[q] = slots[q] /\ farWrite'[q] = farWrite[q]
  /\ Len(slots'[p]) = Len(slots[p]) + 1 /\ Len(farWrite'[p]) = Len(farWrite[p]) + 1
  /\ \A k \in 1 .. Len(slots[p]) : slots'[p][k] = slots[p][k] /\ farWrite'[p][k] = farWrite[p][k]
  /\ slots'[p][Len(slots[p]) + 1] = <<v>> /\ farWrite'[p][Len(slots[p]) + 1] = 0

LEMMA SlotFacts ==
  ASSUME ObjectsTyped, SlotsAreWritten, NEW p \in Machines
  PROVE  /\ slots[p] \in Seq(Seq(Nat)) /\ farWrite[p] \in Seq(Nat)
         /\ Len(slots[p]) \in Nat /\ Len(farWrite[p]) = Len(slots[p])
         /\ \A pos \in 1 .. Len(slots[p]) :
              /\ slots[p][pos] \in Seq(Nat) /\ slots[p][pos] # << >> /\ Len(slots[p][pos]) \in Nat
              /\ farWrite[p][pos] \in Nat /\ farWrite[p][pos] <= Len(slots[p][pos])
              /\ Last(slots[p][pos]) \in Nat
<1>1. slots[p] \in Seq(Seq(Nat)) /\ farWrite[p] \in Seq(Nat)
  BY DEF ObjectsTyped
<1>2. Len(slots[p]) \in Nat /\ Len(farWrite[p]) = Len(slots[p])
  BY <1>1, LenProperties DEF SlotsAreWritten
<1>3. ASSUME NEW pos \in 1 .. Len(slots[p])
      PROVE  /\ slots[p][pos] \in Seq(Nat) /\ slots[p][pos] # << >> /\ Len(slots[p][pos]) \in Nat
             /\ farWrite[p][pos] \in Nat /\ farWrite[p][pos] <= Len(slots[p][pos])
             /\ Last(slots[p][pos]) \in Nat
  <2>1. slots[p][pos] \in Seq(Nat) /\ farWrite[p][pos] \in Nat
    BY <1>1, <1>2, ElementOfSeq
  <2>2. slots[p][pos] # << >> /\ farWrite[p][pos] <= Len(slots[p][pos])
    BY DEF SlotsAreWritten
  <2>3. Len(slots[p][pos]) \in 1 .. Len(slots[p][pos]) /\ Len(slots[p][pos]) \in Nat
    BY <2>1, <2>2, QueueTail
  <2>4. Last(slots[p][pos]) \in Nat
    BY <2>1, <2>3, ElementOfSeq DEF Last
  <2>5. QED
    BY <2>1, <2>2, <2>3, <2>4
<1>4. QED
  BY <1>1, <1>2, <1>3

LEMMA RewriteKeeps ==
  ASSUME ObjectsTyped, SlotsAreWritten, NEW p \in Machines, NEW pos, NEW v \in Nat, Rewrites(p, pos, v)
  PROVE  SlotsAreWritten'
<1>1. ASSUME NEW q \in Machines, NEW k \in 1 .. Len(slots'[q])
      PROVE  slots'[q][k] # << >> /\ farWrite'[q][k] <= Len(slots'[q][k])
  <2>1. CASE q # p
    <3>1. slots'[q] = slots[q] /\ farWrite'[q] = farWrite[q]
      BY <2>1 DEF Rewrites
    <3>2. QED
      BY <1>1, <3>1 DEF SlotsAreWritten
  <2>2. CASE q = p /\ k # pos
    BY <1>1, <2>2, SlotFacts DEF Rewrites
  <2>3. CASE q = p /\ k = pos
    <3>1. slots[p][pos] \in Seq(Nat) /\ farWrite[p][pos] <= Len(slots[p][pos]) /\ farWrite[p][pos] \in Nat
      BY <1>1, <2>3, SlotFacts DEF Rewrites
    <3>2. Append(slots[p][pos], v) # << >> /\ Len(Append(slots[p][pos], v)) = Len(slots[p][pos]) + 1
          /\ Len(slots[p][pos]) \in Nat
      BY <3>1, SlotAppend
    <3>3. slots'[p][pos] = Append(slots[p][pos], v) /\ farWrite'[p][pos] \in {farWrite[p][pos], Len(slots[p][pos]) + 1}
      BY DEF Rewrites
    <3>4. farWrite'[p][pos] <= Len(slots[p][pos]) + 1
      <4>1. CASE farWrite'[p][pos] = farWrite[p][pos]
        BY <3>1, <3>2, <4>1
      <4>2. CASE farWrite'[p][pos] = Len(slots[p][pos]) + 1
        BY <3>2, <4>2
      <4>3. QED
        BY <3>3, <4>1, <4>2
    <3>5. slots'[q][k] = Append(slots[p][pos], v) /\ farWrite'[q][k] = farWrite'[p][pos]
      BY <2>3, <3>3
    <3>6. QED
      BY <3>2, <3>4, <3>5
  <2>4. QED
    BY <2>1, <2>2, <2>3
<1>2. ASSUME NEW q \in Machines PROVE Len(farWrite'[q]) = Len(slots'[q])
  BY SlotFacts DEF Rewrites
<1>3. QED
  BY <1>1, <1>2 DEF SlotsAreWritten

LEMMA AddKeeps ==
  ASSUME ObjectsTyped, SlotsAreWritten, NEW p \in Machines, NEW v \in Nat, Adds(p, v)
  PROVE  SlotsAreWritten'
<1>1. ASSUME NEW q \in Machines, NEW k \in 1 .. Len(slots'[q])
      PROVE  slots'[q][k] # << >> /\ farWrite'[q][k] <= Len(slots'[q][k])
  <2>1. CASE q # p
    <3>1. slots'[q] = slots[q] /\ farWrite'[q] = farWrite[q]
      BY <2>1 DEF Adds
    <3>2. QED
      BY <1>1, <3>1 DEF SlotsAreWritten
  <2>2. CASE q = p /\ k \in 1 .. Len(slots[p])
    BY <1>1, <2>2, SlotFacts DEF Adds
  <2>3. CASE q = p /\ k = Len(slots[p]) + 1
    <3>1. <<v>> # << >> /\ Len(<<v>>) = 1
      OBVIOUS
    <3>2. slots'[q][k] = <<v>> /\ farWrite'[q][k] = 0
      BY <2>3 DEF Adds
    <3>3. QED
      BY <3>1, <3>2
  <2>4. q = p => k \in 1 .. Len(slots[p]) + 1 /\ Len(slots[p]) \in Nat
    BY <1>1, SlotFacts DEF Adds
  <2>5. QED
    BY <2>1, <2>2, <2>3, <2>4
<1>2. ASSUME NEW q \in Machines PROVE Len(farWrite'[q]) = Len(slots'[q])
  BY SlotFacts DEF Adds
<1>3. QED
  BY <1>1, <1>2 DEF SlotsAreWritten

LEMMA AddsFrom ==
  ASSUME ObjectsTyped, SlotsAreWritten, NEW p \in Machines, NEW v \in Nat,
         slots' = [slots EXCEPT ![p] = Append(@, <<v>>)],
         farWrite' = [farWrite EXCEPT ![p] = Append(@, 0)]
  PROVE  Adds(p, v)
<1>1. slots[p] \in Seq(Seq(Nat)) /\ farWrite[p] \in Seq(Nat) /\ Len(farWrite[p]) = Len(slots[p]) /\ <<v>> \in Seq(Nat)
  BY SlotFacts
<1>2. slots'[p] = Append(slots[p], <<v>>) /\ farWrite'[p] = Append(farWrite[p], 0)
  BY DEF ObjectsTyped
<1>3. \A q \in Machines : q # p => slots'[q] = slots[q] /\ farWrite'[q] = farWrite[q]
  BY DEF ObjectsTyped
<1>4. /\ slots'[p] \in Seq(Seq(Nat)) /\ Len(slots'[p]) = Len(slots[p]) + 1
      /\ slots'[p][Len(slots[p]) + 1] = <<v>>
      /\ \A k \in 1 .. Len(slots[p]) : slots'[p][k] = slots[p][k]
  BY <1>1, <1>2, QueueAppend
<1>5. /\ farWrite'[p] \in Seq(Nat) /\ Len(farWrite'[p]) = Len(farWrite[p]) + 1
      /\ farWrite'[p][Len(slots[p]) + 1] = 0
      /\ \A k \in 1 .. Len(slots[p]) : farWrite'[p][k] = farWrite[p][k]
  BY <1>1, <1>2, QueueAppend
<1>6. slots' \in [Machines -> Seq(Seq(Nat))] /\ farWrite' \in [Machines -> Seq(Nat)]
  BY <1>4, <1>5, <1>2 DEF ObjectsTyped
<1>7. QED
  BY <1>3, <1>4, <1>5, <1>6 DEF Adds

\* The position that an export has.
PositionOf(n) ==
  IF ExportKey(n, running[n].counter) \in DOMAIN byKey[Home[n]]
  THEN byKey[Home[n]][ExportKey(n, running[n].counter)] ELSE NextPosition(Home[n])

LEMMA ExportWrites ==
  ASSUME ObjectsTyped, SlotsAreWritten, NEW n \in Nodes, Export(n),
         PositionOf(n) \in 1 .. Len(slots[Home[n]]) + 1
  PROVE  /\ Home[n] \in Machines /\ values' = values + 1
         /\ \/ Rewrites(Home[n], PositionOf(n), values + 1) /\ farWrite' = farWrite
            \/ PositionOf(n) = Len(slots[Home[n]]) + 1 /\ Adds(Home[n], values + 1)
<1>. DEFINE p == Home[n]
<1>. DEFINE pos == PositionOf(n)
<1>1. p \in Machines
  BY OcapnAssumption
<1>2. /\ values' = values + 1
      /\ slots' = [slots EXCEPT ![p] = Written(@, pos, values + 1)]
      /\ farWrite' = IF pos <= Len(slots[p]) THEN farWrite ELSE [farWrite EXCEPT ![p] = Append(@, 0)]
  BY DEF Export, PositionOf
<1>3. values + 1 \in Nat /\ pos \in 1 .. Len(slots[p]) + 1
  BY DEF ObjectsTyped
<1>. HIDE DEF p, pos
<1>4. slots[p] \in Seq(Seq(Nat)) /\ Len(slots[p]) \in Nat /\ pos \in Nat \ {0}
  BY <1>1, <1>3, SlotFacts
<1>5. CASE pos <= Len(slots[p])
  <2>1. slots'[p] = Written(slots[p], pos, values + 1) /\ \A q \in Machines : q # p => slots'[q] = slots[q]
    BY <1>1, <1>2 DEF ObjectsTyped
  <2>2. farWrite' = farWrite /\ farWrite \in [Machines -> Seq(Nat)]
    BY <1>2, <1>5 DEF ObjectsTyped
  <2>3. /\ slots'[p] \in Seq(Seq(Nat))
        /\ Len(slots'[p]) = Len(slots[p]) /\ slots'[p][pos] = Append(slots[p][pos], values + 1)
        /\ \A k \in 1 .. Len(slots[p]) : k # pos => slots'[p][k] = slots[p][k]
    <3>1. /\ Written(slots[p], pos, values + 1) \in Seq(Seq(Nat))
          /\ Len(Written(slots[p], pos, values + 1)) = Len(slots[p])
          /\ Written(slots[p], pos, values + 1)[pos] = Append(slots[p][pos], values + 1)
          /\ \A k \in 1 .. Len(slots[p]) : k # pos => Written(slots[p], pos, values + 1)[k] = slots[p][k]
      <4>1. pos \in 1 .. Len(slots[p])
        BY <1>3, <1>4, <1>5
      <4>2. QED
        BY <1>3, <1>4, <4>1, SlotAfter
    <3>2. QED
      BY <2>1, <3>1
  <2>4. slots' \in [Machines -> Seq(Seq(Nat))]
    BY <1>2, <2>1, <2>3 DEF ObjectsTyped
  <2>5. Rewrites(p, pos, values + 1)
    <3>1. pos \in 1 .. Len(slots[p])
      BY <1>3, <1>4, <1>5
    <3>2. QED
      BY <2>1, <2>2, <2>3, <2>4, <3>1 DEF Rewrites
  <2>6. QED
    BY <1>1, <1>2, <2>2, <2>5 DEF p, pos
<1>6. CASE pos = Len(slots[p]) + 1
  <2>1. Written(slots[p], pos, values + 1) = Append(slots[p], <<values + 1>>)
    BY <1>4, <1>6 DEF Written
  <2>2. slots' = [slots EXCEPT ![p] = Append(@, <<values + 1>>)]
    BY <1>2, <2>1
  <2>3. farWrite' = [farWrite EXCEPT ![p] = Append(@, 0)]
    BY <1>2, <1>4, <1>6
  <2>4. Adds(p, values + 1)
    BY <1>1, <1>3, <2>2, <2>3, AddsFrom
  <2>5. QED
    BY <1>1, <1>2, <1>6, <2>4 DEF p, pos
<1>7. QED
  BY <1>3, <1>4, <1>5, <1>6

LEMMA DeliveryWrites ==
  ASSUME ObjectsTyped, SlotsAreWritten, NEW p \in Machines, NEW m \in CallMessage,
         m.to.peer = p, Lookup(p, m.to), slots' = Delivered(p, m), farWrite' = FarWritten(p, m)
  PROVE  /\ m.to.pos \in 1 .. Len(slots[p])
         /\ m.method = "set" => Rewrites(p, m.to.pos, m.value) /\ m.value \in Nat
         /\ m.method # "set" => slots' = slots /\ farWrite' = farWrite
<1>. DEFINE pos == m.to.pos
<1>1. pos \in 1 .. Len(slots[p]) /\ m.value \in Nat
  <2>1. m.to \in Swiss /\ m.value \in Nat
    BY DEF CallMessage
  <2>2. pos \in Nat \ {0} /\ pos <= Len(slots[p])
    BY <2>1, OcapnAssumption DEF Swiss, Lookup
  <2>3. QED
    BY <2>1, <2>2, SlotFacts
<1>2. slots[p] \in Seq(Seq(Nat)) /\ farWrite[p] \in Seq(Nat) /\ Len(slots[p]) \in Nat
      /\ Len(farWrite[p]) = Len(slots[p]) /\ Len(slots[p][pos]) \in Nat
  BY <1>1, SlotFacts
<1>3. CASE m.method = "set"
  <2>1. /\ slots' = [slots EXCEPT ![p] = Written(@, pos, m.value)]
        /\ farWrite' = [farWrite EXCEPT ![p][pos] = Len(slots[p][pos]) + 1]
    BY <1>3 DEF Delivered, FarWritten
  <2>. HIDE DEF pos
  <2>2. /\ slots'[p] = Written(slots[p], pos, m.value)
        /\ farWrite'[p] = [farWrite[p] EXCEPT ![pos] = Len(slots[p][pos]) + 1]
        /\ \A q \in Machines : q # p => slots'[q] = slots[q] /\ farWrite'[q] = farWrite[q]
    BY <2>1 DEF ObjectsTyped
  <2>3. /\ slots'[p] \in Seq(Seq(Nat))
        /\ Len(slots'[p]) = Len(slots[p]) /\ slots'[p][pos] = Append(slots[p][pos], m.value)
        /\ \A k \in 1 .. Len(slots[p]) : k # pos => slots'[p][k] = slots[p][k]
    <3>1. pos \in 1 .. Len(slots[p])
      BY <1>1 DEF pos
    <3>2. /\ Written(slots[p], pos, m.value) \in Seq(Seq(Nat))
          /\ Len(Written(slots[p], pos, m.value)) = Len(slots[p])
          /\ Written(slots[p], pos, m.value)[pos] = Append(slots[p][pos], m.value)
          /\ \A k \in 1 .. Len(slots[p]) : k # pos => Written(slots[p], pos, m.value)[k] = slots[p][k]
      <4>1. slots[p] \in Seq(Seq(Nat)) /\ m.value \in Nat
        BY <1>1, <1>2
      <4>2. QED
        BY <3>1, <4>1, SlotAfter
    <3>3. QED
      BY <2>2, <3>2
  <2>4. /\ farWrite'[p] \in Seq(Nat) /\ Len(farWrite'[p]) = Len(farWrite[p])
        /\ \A k \in 1 .. Len(slots[p]) : farWrite'[p][k] = IF k = pos THEN Len(slots[p][pos]) + 1 ELSE farWrite[p][k]
    <3>. DEFINE s == farWrite[p]
                v == Len(slots[p][pos]) + 1
    <3>1. s \in Seq(Nat) /\ Len(s) = Len(slots[p]) /\ pos \in 1 .. Len(s) /\ v \in Nat
      BY <1>1, <1>2 DEF pos
    <3>2. farWrite'[p] = [s EXCEPT ![pos] = v]
      BY <2>2
    <3>. HIDE DEF s, v
    <3>3. /\ [s EXCEPT ![pos] = v] \in Seq(Nat) /\ Len([s EXCEPT ![pos] = v]) = Len(s)
          /\ \A j \in 1 .. Len(s) : [s EXCEPT ![pos] = v][j] = IF j = pos THEN v ELSE s[j]
      BY <3>1, FarWriteAfter
    <3>4. /\ farWrite'[p] \in Seq(Nat) /\ Len(farWrite'[p]) = Len(s)
          /\ \A k \in 1 .. Len(slots[p]) : farWrite'[p][k] = IF k = pos THEN v ELSE s[k]
      BY <3>1, <3>2, <3>3
    <3>5. QED
      BY <3>4 DEF s, v
  <2>5. slots' \in [Machines -> Seq(Seq(Nat))] /\ farWrite' \in [Machines -> Seq(Nat)]
    BY <2>1, <2>2, <2>3, <2>4 DEF ObjectsTyped
  <2>6. Rewrites(p, pos, m.value)
    BY <1>1, <2>2, <2>3, <2>4, <2>5 DEF Rewrites
  <2>7. QED
    BY <1>1, <1>3, <2>6 DEF pos
<1>4. CASE m.method # "set"
  BY <1>1, <1>4 DEF Delivered, FarWritten
<1>5. QED
  BY <1>3, <1>4

-----------------------------------------------------------------------------
(***************************************************************************)
(* The steps of scripts                                                    *)
(***************************************************************************)

LEMMA Homes == \A n \in Nodes : Home[n] \in Machines
BY OcapnAssumption

LEMMA OneAtATimeStill ==
  ASSUME ObjectsTyped, OneAtATime, finished' = finished,
         \A o \in Nodes : running'[o].busy => running[o].busy
  PROVE  OneAtATime'
<1>1. ASSUME NEW p \in Machines, NEW k \in 1 .. Len(finished[p])
      PROVE  finished[p][k].node \in Nodes
  <2>1. finished[p] \in Seq(Outcome)
    BY DEF ObjectsTyped
  <2>2. finished[p][k] \in Outcome
    BY <2>1, ElementOfSeq
  <2>3. QED
    BY <2>2 DEF Outcome
<1>2. QED
  BY <1>1 DEF OneAtATime

\* The slot of an export is its own, or a new one.
LEMMA PositionFound ==
  ASSUME ObjectsKept, NEW n \in Nodes
  PROVE  /\ PositionOf(n) \in 1 .. Len(slots[Home[n]]) + 1
         /\ ExportKey(n, running[n].counter) \in DOMAIN byKey[Home[n]] =>
              PositionOf(n) \in 1 .. Len(slots[Home[n]]) /\ PositionOf(n) \in DOMAIN owners[Home[n]]
         /\ ExportKey(n, running[n].counter) \notin DOMAIN byKey[Home[n]] =>
              PositionOf(n) = Len(slots[Home[n]]) + 1
<1>1. Home[n] \in Machines /\ Len(slots[Home[n]]) \in Nat
  BY Homes, SlotFacts DEF ObjectsKept
<1>2. QED
  BY <1>1 DEF ObjectsKept, KeysAreExports, KeysFound, PositionOf, NextPosition

LEMMA RunsFacts ==
  ASSUME NEW n \in Nodes, NEW counter, NEW made, NEW sends, NEW read,
         Runs(n, counter, made, sends, read)
  PROVE  /\ running' \in [Nodes -> Context \cup {Idle}]
         /\ running'[n].busy /\ running'[n].counter = counter /\ running'[n].made = made
         /\ running'[n].sends = sends /\ running'[n].read = read
         /\ \A o \in Nodes : o # n => running'[o] = running[o]
BY DEF Runs

LEMMA ExportKeeps ==
  ASSUME ObjectsKept, NEW n \in Nodes, Export(n)
  PROVE  /\ ObjectsKept'
         /\ Len(slots[Home[n]]) \in Nat
         /\ Len(slots'[Home[n]]) = IF <<n, running[n].counter>> \in DOMAIN byKey[Home[n]]
                                  THEN Len(slots[Home[n]]) ELSE Len(slots[Home[n]]) + 1
<1>. DEFINE p == Home[n]
<1>. DEFINE key == <<n, running[n].counter>>
<1>. DEFINE pos == PositionOf(n)
<1>0. /\ ObjectsTyped /\ SlotsAreWritten /\ OneAtATime /\ EventsAddressed
      /\ KeysAreExports /\ KeysAreCounted
  BY DEF ObjectsKept
<1>1. /\ running[n] \in Context /\ running[n].busy = TRUE /\ running[n].counter \in Nat
      /\ running' \in [Nodes -> Context \cup {Idle}]
      /\ running'[n].counter = running[n].counter + 1 /\ running'[n].made = running[n].made + 1
      /\ \A o \in Nodes : o # n => running'[o] = running[o]
  <2>1. /\ running[n] \in Context
        /\ Runs(n, running[n].counter + 1, running[n].made + 1, running[n].sends, running[n].read)
    BY <1>0, ExportRuns
  <2>2. running[n].busy = TRUE /\ running[n].counter \in Nat
    BY <2>1, ContextFields
  <2>3. QED
    BY <2>1, <2>2 DEF Runs
<1>2. /\ UNCHANGED <<starts, mail, pendingNodes, asked, finished, wire, events, results, display,
                     requests, edits, answered, missed, taken>>
      /\ values' = values + 1
  BY DEF Export
<1>3. /\ byKey' = [byKey EXCEPT ![p] =
                   [k \in DOMAIN @ \cup {key} |-> IF k = key THEN pos ELSE @[k]]]
      /\ owners' = [owners EXCEPT ![p] = [k \in DOMAIN @ \cup {pos} |-> IF k = pos THEN n ELSE @[k]]]
  BY DEF Export, PositionOf, ExportKey
<1>4. p \in Machines /\ Len(slots[p]) \in Nat
  BY <1>0, Homes, SlotFacts
<1>5. /\ pos \in 1 .. Len(slots[p]) + 1
      /\ key \in DOMAIN byKey[p] => pos \in 1 .. Len(slots[p]) /\ pos = byKey[p][key] /\ pos \in DOMAIN owners[p]
      /\ key \notin DOMAIN byKey[p] => pos = Len(slots[p]) + 1
  BY PositionFound DEF PositionOf, ExportKey
<1>6. \/ Rewrites(p, pos, values + 1) /\ farWrite' = farWrite
      \/ pos = Len(slots[p]) + 1 /\ Adds(p, values + 1)
  BY <1>0, <1>5, ExportWrites
<1>. HIDE DEF pos, p
<1>7. /\ slots' \in [Machines -> Seq(Seq(Nat))] /\ farWrite' \in [Machines -> Seq(Nat)]
      /\ \A q \in Machines : q # p => slots'[q] = slots[q]
      /\ Len(slots'[p]) = IF key \in DOMAIN byKey[p] THEN Len(slots[p]) ELSE Len(slots[p]) + 1
  <2>1. CASE Rewrites(p, pos, values + 1)
    <3>0. pos \in 1 .. Len(slots[p])
      BY <2>1 DEF Rewrites
    <3>1. key \in DOMAIN byKey[p]
      BY <1>4, <1>5, <3>0
    <3>2. QED
      BY <2>1, <3>1 DEF Rewrites
  <2>2. CASE pos = Len(slots[p]) + 1 /\ Adds(p, values + 1)
    <3>1. key \notin DOMAIN byKey[p]
      BY <1>4, <1>5, <2>2
    <3>2. QED
      BY <2>2, <3>1 DEF Adds
  <2>3. QED
    BY <1>6, <2>1, <2>2
<1>8. values + 1 \in Nat
  BY <1>0 DEF ObjectsTyped
<1>9. SlotsAreWritten'
  BY <1>0, <1>4, <1>6, <1>8, RewriteKeeps, AddKeeps
<1>10. DOMAIN byKey' = Machines /\ DOMAIN owners' = Machines
  BY <1>0, <1>3 DEF ObjectsTyped
<1>11. ObjectsTyped'
  BY <1>0, <1>1, <1>2, <1>7, <1>8, <1>10 DEF ObjectsTyped
<1>12. OneAtATime' /\ EventsAddressed'
  <2>1. OneAtATime'
    BY <1>0, <1>1, <1>2, OneAtATimeStill
  <2>2. QED
    BY <1>0, <1>2, <2>1 DEF EventsAddressed
<1>13. /\ \A q \in Machines : q # p => byKey'[q] = byKey[q] /\ owners'[q] = owners[q]
       /\ DOMAIN byKey'[p] = DOMAIN byKey[p] \cup {key}
       /\ \A k \in DOMAIN byKey'[p] : byKey'[p][k] = IF k = key THEN pos ELSE byKey[p][k]
       /\ DOMAIN owners'[p] = DOMAIN owners[p] \cup {pos}
       /\ \A k \in DOMAIN owners'[p] : owners'[p][k] = IF k = pos THEN n ELSE owners[p][k]
  BY <1>0, <1>3, <1>4 DEF ObjectsTyped
<1>14. /\ DOMAIN owners[p] \subseteq 1 .. Len(slots[p])
       /\ \A k \in DOMAIN owners[p] : \E l \in DOMAIN byKey[p] : byKey[p][l] = k
       /\ \A k \in DOMAIN byKey[p] :
            /\ k \in Nodes \X Nat
            /\ byKey[p][k] \in DOMAIN owners[p] /\ owners[p][byKey[p][k]] = k[1]
            /\ \A l \in DOMAIN byKey[p] : byKey[p][k] = byKey[p][l] => k = l
            /\ \A j \in 0 .. k[2] : <<k[1], j>> \in DOMAIN byKey[p]
  BY <1>0, <1>4 DEF KeysAreExports, KeysFound
<1>15. \A k \in DOMAIN byKey[p] : k # key => byKey[p][k] # pos
  BY <1>4, <1>5, <1>14
<1>16. KeysAreExports'
  <2>1. DOMAIN owners'[p] \subseteq 1 .. Len(slots'[p])
    BY <1>4, <1>5, <1>7, <1>13, <1>14
  <2>2. ASSUME NEW k \in DOMAIN owners'[p] PROVE \E l \in DOMAIN byKey'[p] : byKey'[p][l] = k
    <3>1. CASE k = pos
      BY <1>13, <3>1
    <3>2. CASE k # pos
      <4>1. PICK l \in DOMAIN byKey[p] : byKey[p][l] = k
        BY <1>13, <1>14, <2>2, <3>2
      <4>2. l # key
        BY <1>5, <3>2, <4>1
      <4>3. QED
        BY <1>13, <4>1, <4>2
    <3>3. QED
      BY <3>1, <3>2
  <2>3. ASSUME NEW k \in DOMAIN byKey'[p]
        PROVE  /\ k \in Nodes \X Nat
               /\ byKey'[p][k] \in DOMAIN owners'[p] /\ owners'[p][byKey'[p][k]] = k[1]
               /\ \A l \in DOMAIN byKey'[p] : byKey'[p][k] = byKey'[p][l] => k = l
               /\ \A j \in 0 .. k[2] : <<k[1], j>> \in DOMAIN byKey'[p]
    <3>1. CASE k = key
      <4>1. k \in Nodes \X Nat /\ k[1] = n /\ k[2] = running[n].counter
        BY <1>1, <3>1
      <4>2. byKey'[p][k] = pos /\ owners'[p][pos] = n
        BY <1>13, <3>1
      <4>3. \A l \in DOMAIN byKey'[p] : byKey'[p][k] = byKey'[p][l] => k = l
        BY <1>13, <1>15, <3>1, <4>2
      <4>4. ASSUME NEW j \in 0 .. k[2] PROVE <<n, j>> \in DOMAIN byKey'[p]
        <5>1. CASE j = k[2]
          BY <1>13, <4>1, <5>1
        <5>2. CASE j # k[2]
          <6>1. j \in 0 .. running[n].counter - 1
            BY <1>1, <4>1, <4>4, <5>2
          <6>2. <<n, j>> \in DOMAIN byKey[p]
            BY <1>0, <1>1, <6>1 DEF KeysAreCounted, p
          <6>3. QED
            BY <1>13, <6>2
        <5>3. QED
          BY <5>1, <5>2
      <4>5. QED
        BY <1>13, <4>1, <4>2, <4>3, <4>4
    <3>2. CASE k # key
      <4>1. k \in DOMAIN byKey[p] /\ byKey'[p][k] = byKey[p][k] /\ byKey[p][k] # pos
        BY <1>13, <1>15, <3>2
      <4>2. k \in Nodes \X Nat /\ byKey[p][k] \in DOMAIN owners[p] /\ owners[p][byKey[p][k]] = k[1]
            /\ \A j \in 0 .. k[2] : <<k[1], j>> \in DOMAIN byKey[p]
        BY <1>14, <4>1
      <4>3. ASSUME NEW l \in DOMAIN byKey'[p], byKey'[p][k] = byKey'[p][l] PROVE k = l
        <5>1. l # key
          BY <1>13, <4>1, <4>3
        <5>2. l \in DOMAIN byKey[p] /\ byKey'[p][l] = byKey[p][l]
          BY <1>13, <4>3, <5>1
        <5>3. QED
          BY <1>14, <4>1, <4>3, <5>2
      <4>4. QED
        BY <1>13, <4>1, <4>2, <4>3
    <3>3. QED
      BY <3>1, <3>2
  <2>4. ASSUME NEW q \in Machines, q # p
        PROVE  byKey'[q] = byKey[q] /\ owners'[q] = owners[q] /\ slots'[q] = slots[q]
    BY <1>7, <1>13, <2>4
  <2>5. QED
    <3>1. KeysFound(p)'
      BY <2>1, <2>2, <2>3 DEF KeysFound
    <3>2. ASSUME NEW q \in Machines, q # p PROVE KeysFound(q)'
      BY <1>0, <2>4, <3>2 DEF KeysFound, KeysAreExports
    <3>3. QED
      BY <3>1, <3>2 DEF KeysAreExports
<1>17. KeysAreCounted'
  <2>1. ASSUME NEW o \in Nodes, running'[o].busy
        PROVE  /\ running'[o].counter = running'[o].made
               /\ \A k \in 0 .. running'[o].counter - 1 : <<o, k>> \in DOMAIN byKey'[Home[o]]
    <3>0. \A q \in Machines : DOMAIN byKey[q] \subseteq DOMAIN byKey'[q]
      BY <1>13
    <3>1. CASE o = n
      <4>1. running[n].counter = running[n].made /\ \A k \in 0 .. running[n].counter - 1 : <<n, k>> \in DOMAIN byKey[p]
        BY <1>0, <1>1 DEF KeysAreCounted, p
      <4>2. running'[n].counter = running[n].counter + 1 /\ running'[n].made = running[n].made + 1
        BY <1>1
      <4>3. ASSUME NEW k \in 0 .. running'[n].counter - 1 PROVE <<n, k>> \in DOMAIN byKey'[p]
        <5>1. k = running[n].counter \/ k \in 0 .. running[n].counter - 1
          BY <1>1, <4>2
        <5>2. QED
          BY <1>13, <4>1, <5>1
      <4>4. QED
        BY <3>1, <4>1, <4>2, <4>3 DEF p
    <3>2. CASE o # n
      BY <1>0, <1>1, <2>1, <3>0, <3>2, Homes DEF KeysAreCounted
    <3>3. QED
      BY <3>1, <3>2
  <2>2. QED
    BY <2>1 DEF KeysAreCounted
<1>18. QED
  BY <1>4, <1>7, <1>9, <1>11, <1>12, <1>16, <1>17 DEF ObjectsKept, p

LEMMA OutcomeOf ==
  ASSUME ObjectsTyped, NEW p \in Machines, NEW k \in 1 .. Len(finished[p])
  PROVE  /\ finished[p] \in Seq(Outcome) /\ k \in DOMAIN finished[p]
         /\ finished[p][k] \in Outcome /\ finished[p][k].node \in Nodes
         /\ finished[p][k].sends \in SUBSET CallMessage /\ finished[p][k].read \in Reading
         /\ finished[p][k].ok \in BOOLEAN
<1>1. finished[p] \in Seq(Outcome)
  BY DEF ObjectsTyped
<1>2. finished[p][k] \in Outcome /\ k \in DOMAIN finished[p]
  BY <1>1, ElementOfSeq, LenProperties
<1>3. QED
  BY <1>1, <1>2 DEF Outcome

LEMMA KeysStill ==
  ASSUME ObjectsKept, byKey' = byKey, owners' = owners,
         slots' \in [Machines -> Seq(Seq(Nat))],
         \A p \in Machines : Len(slots[p]) <= Len(slots'[p])
  PROVE  KeysAreExports'
<1>1. ASSUME NEW p \in Machines PROVE KeysFound(p)'
  <2>1. Len(slots[p]) \in Nat /\ Len(slots'[p]) \in Nat /\ Len(slots[p]) <= Len(slots'[p])
    <3>1. slots[p] \in Seq(Seq(Nat)) /\ slots'[p] \in Seq(Seq(Nat))
      BY DEF ObjectsKept, ObjectsTyped
    <3>2. QED
      BY <3>1, LenProperties
  <2>2. 1 .. Len(slots[p]) \subseteq 1 .. Len(slots'[p])
    BY <2>1
  <2>3. KeysFound(p)
    BY DEF ObjectsKept, KeysAreExports
  <2>4. QED
    BY <2>2, <2>3 DEF KeysFound
<1>2. QED
  BY <1>1 DEF KeysAreExports

LEMMA CountsStill ==
  ASSUME ObjectsKept, byKey' = byKey, NEW n \in Nodes, NEW sends, NEW read,
         Runs(n, running[n].counter, running[n].made, sends, read), running[n].busy
  PROVE  KeysAreCounted'
<1>1. ASSUME NEW o \in Nodes, running'[o].busy
      PROVE  /\ running'[o].counter = running'[o].made
             /\ \A k \in 0 .. running'[o].counter - 1 : <<o, k>> \in DOMAIN byKey'[Home[o]]
  <2>1. running'[o].counter = running[o].counter /\ running'[o].made = running[o].made /\ running[o].busy
    <3>1. CASE o = n
      BY <3>1 DEF Runs
    <3>2. CASE o # n
      BY <1>1, <3>2 DEF Runs
    <3>3. QED
      BY <3>1, <3>2
  <2>2. QED
    BY <2>1 DEF ObjectsKept, KeysAreCounted
<1>2. QED
  BY <1>1 DEF KeysAreCounted

LEMMA EvaluateKeeps ==
  ASSUME ObjectsKept, NEW n \in Nodes, Evaluate(n)
  PROVE  ObjectsKept'
<1>0. /\ ObjectsTyped /\ SlotsAreWritten /\ OneAtATime /\ EventsAddressed
      /\ KeysAreExports /\ KeysAreCounted
  BY DEF ObjectsKept
<1>1. Runs(n, 0, 0, {}, NothingShown)
  BY <1>0, EvaluateRuns
<1>2. /\ asked' = asked \ {n} /\ ~ InFlight(n)
      /\ UNCHANGED <<starts, slots, byKey, owners, mail, pendingNodes, finished, wire, events, results,
                     display, values, requests, edits, answered, missed, farWrite, taken>>
  BY DEF Evaluate
<1>3. ObjectsTyped'
  BY <1>0, <1>1, <1>2 DEF ObjectsTyped, Runs
<1>4. SlotsAreWritten' /\ EventsAddressed' /\ KeysAreExports'
  <2>1. SlotsAreWritten' /\ EventsAddressed'
    BY <1>0, <1>2 DEF SlotsAreWritten, EventsAddressed
  <2>2. QED
    BY <1>0, <1>2, <2>1 DEF KeysAreExports, KeysFound
<1>5. OneAtATime'
  <2>1. ASSUME NEW p \in Machines, NEW k \in 1 .. Len(finished[p]) PROVE ~ running'[finished[p][k].node].busy
    <3>1. ~ running[finished[p][k].node].busy /\ finished[p][k].node \in Nodes /\ Home[finished[p][k].node] = p
      BY <1>0, OutcomeOf DEF OneAtATime
    <3>2. finished[p][k].node # n
      <4>1. k \in DOMAIN finished[p]
        BY <1>0, OutcomeOf
      <4>2. QED
        BY <1>2, <3>1, <4>1 DEF InFlight
    <3>3. QED
      BY <1>1, <3>1, <3>2 DEF Runs
  <2>2. QED
    BY <1>0, <1>2, <2>1 DEF OneAtATime
<1>6. KeysAreCounted'
  <2>1. ASSUME NEW o \in Nodes, running'[o].busy
        PROVE  /\ running'[o].counter = running'[o].made
               /\ \A k \in 0 .. running'[o].counter - 1 : <<o, k>> \in DOMAIN byKey'[Home[o]]
    <3>1. CASE o = n
      <4>1. running'[o].counter = 0 /\ running'[o].made = 0
        BY <1>1, <3>1 DEF Runs
      <4>2. QED
        BY <4>1
    <3>2. CASE o # n
      BY <1>0, <1>1, <1>2, <2>1, <3>2 DEF KeysAreCounted, Runs
    <3>3. QED
      BY <3>1, <3>2
  <2>2. QED
    BY <2>1 DEF KeysAreCounted
<1>7. QED
  BY <1>3, <1>4, <1>5, <1>6 DEF ObjectsKept

LEMMA ExportNodeAdds ==
  ASSUME ObjectsTyped, SlotsAreWritten, NEW n \in Nodes, ExportNode(n)
  PROVE  /\ Home[n] \in Machines /\ Adds(Home[n], values + 1)
         /\ values' = values + 1 /\ values + 1 \in Nat
<1>1. values + 1 \in Nat
  BY DEF ObjectsTyped
<1>2. /\ slots' = [slots EXCEPT ![Home[n]] = Append(@, <<values + 1>>)]
      /\ farWrite' = [farWrite EXCEPT ![Home[n]] = Append(@, 0)]
      /\ values' = values + 1
  BY DEF ExportNode
<1>3. QED
  BY <1>1, <1>2, AddsFrom, Homes

\* A slot more, or a value more in a slot.
LEMMA GrowthOf ==
  ASSUME ObjectsTyped, SlotsAreWritten, NEW p \in Machines, NEW pos, NEW v \in Nat,
         Rewrites(p, pos, v) \/ Adds(p, v)
  PROVE  /\ SlotsAreWritten' /\ slots' \in [Machines -> Seq(Seq(Nat))]
         /\ farWrite' \in [Machines -> Seq(Nat)]
         /\ \A q \in Machines : Len(slots[q]) <= Len(slots'[q])
<1>1. \A q \in Machines : Len(slots[q]) \in Nat
  BY SlotFacts
<1>2. CASE Rewrites(p, pos, v)
  <2>1. \A q \in Machines : Len(slots'[q]) = Len(slots[q])
    BY <1>2 DEF Rewrites
  <2>2. \A q \in Machines : Len(slots[q]) <= Len(slots'[q])
    BY <1>1, <2>1
  <2>3. SlotsAreWritten'
    BY <1>2, RewriteKeeps
  <2>4. QED
    BY <1>2, <2>2, <2>3 DEF Rewrites
<1>3. CASE Adds(p, v)
  <2>1. \A q \in Machines : Len(slots'[q]) = Len(slots[q]) \/ Len(slots'[q]) = Len(slots[q]) + 1
    BY <1>3 DEF Adds
  <2>2. \A q \in Machines : Len(slots[q]) <= Len(slots'[q])
    BY <1>1, <2>1
  <2>3. SlotsAreWritten'
    BY <1>3, AddKeeps
  <2>4. QED
    BY <1>3, <2>2, <2>3 DEF Adds
<1>4. QED
  BY <1>2, <1>3

LEMMA ExportNodeKeeps ==
  ASSUME ObjectsKept, NEW n \in Nodes, ExportNode(n)
  PROVE  ObjectsKept'
<1>0. /\ ObjectsTyped /\ SlotsAreWritten /\ OneAtATime /\ EventsAddressed
      /\ KeysAreExports /\ KeysAreCounted
  BY DEF ObjectsKept
<1>1. /\ SlotsAreWritten' /\ slots' \in [Machines -> Seq(Seq(Nat))]
      /\ farWrite' \in [Machines -> Seq(Nat)]
      /\ \A q \in Machines : Len(slots[q]) <= Len(slots'[q])
      /\ values' \in Nat
  BY <1>0, ExportNodeAdds, GrowthOf
<1>2. UNCHANGED <<starts, byKey, owners, mail, pendingNodes, asked, running, finished, wire, events,
                  results, display, requests, edits, answered, missed, taken>>
  BY DEF ExportNode
<1>3. ObjectsTyped'
  BY <1>0, <1>1, <1>2 DEF ObjectsTyped
<1>4. OneAtATime' /\ EventsAddressed' /\ KeysAreCounted'
  BY <1>0, <1>2 DEF OneAtATime, EventsAddressed, KeysAreCounted
<1>5. KeysAreExports'
  BY <1>1, <1>2, KeysStill
<1>6. QED
  BY <1>1, <1>3, <1>4, <1>5 DEF ObjectsKept

\* A step of a script that changes only what it sends and has read.
LEMMA ScriptKeeps ==
  ASSUME ObjectsKept, NEW n \in Nodes, NEW sends, NEW read, running[n] \in Context,
         Runs(n, running[n].counter, running[n].made, sends, read),
         requests' \in [Nodes -> SUBSET RequestIds], values' \in Nat,
         UNCHANGED <<starts, slots, byKey, owners, mail, pendingNodes, asked, finished, wire, events, results,
                     display, answered, missed, farWrite, taken>>
  PROVE  ObjectsKept'
<1>0. /\ ObjectsTyped /\ SlotsAreWritten /\ OneAtATime /\ EventsAddressed
      /\ KeysAreExports /\ KeysAreCounted
  BY DEF ObjectsKept
<1>1. /\ running' \in [Nodes -> Context \cup {Idle}] /\ running[n].busy
      /\ \A o \in Nodes : o # n => running'[o] = running[o]
  BY ContextFields DEF Runs
<1>2. ObjectsTyped'
  BY <1>0, <1>1 DEF ObjectsTyped
<1>3. SlotsAreWritten' /\ EventsAddressed'
  BY <1>0 DEF SlotsAreWritten, EventsAddressed
<1>4. KeysAreExports'
  BY <1>0 DEF KeysAreExports, KeysFound
<1>5. OneAtATime'
  BY <1>0, <1>1, OneAtATimeStill
<1>6. KeysAreCounted'
  BY <1>1, CountsStill
<1>7. QED
  BY <1>2, <1>3, <1>4, <1>5, <1>6 DEF ObjectsKept

LEMMA ReceiveSlotKeeps ==
  ASSUME ObjectsKept, NEW n \in Nodes, NEW pos \in 1 .. MaxValues, ReceiveSlot(n, pos)
  PROVE  ObjectsKept'
<1>0. /\ ObjectsTyped /\ SlotsAreWritten /\ OneAtATime /\ EventsAddressed
      /\ KeysAreExports /\ KeysAreCounted
  BY DEF ObjectsKept
<1>1. /\ running[n] \in Context
      /\ Runs(n, running[n].counter, running[n].made, running[n].sends,
              [pos |-> pos, id |-> -1, value |-> Last(slots[Home[n]][pos])])
  BY <1>0, ReceiveSlotRuns
<1>2. UNCHANGED <<starts, slots, byKey, owners, mail, pendingNodes, asked, finished, wire, events, results,
                  display, values, requests, edits, answered, missed, farWrite, taken>>
  BY DEF ReceiveSlot
<1>3. requests' \in [Nodes -> SUBSET RequestIds] /\ values' \in Nat
  BY <1>0, <1>2 DEF ObjectsTyped
<1>4. QED
  BY <1>1, <1>2, <1>3, ScriptKeeps

LEMMA ReadResultKeeps ==
  ASSUME ObjectsKept, NEW n \in Nodes, NEW id \in RequestIds, ReadResult(n, id)
  PROVE  ObjectsKept'
<1>0. ObjectsTyped
  BY DEF ObjectsKept
<1>1. PICK x :
        /\ running[n] \in Context
        /\ Runs(n, running[n].counter, running[n].made, running[n].sends, x)
  BY <1>0, ReadResultRuns
<1>2. UNCHANGED <<starts, slots, byKey, owners, mail, pendingNodes, asked, finished, wire, events, results,
                  display, values, requests, edits, answered, missed, farWrite, taken>>
  BY DEF ReadResult
<1>3. requests' \in [Nodes -> SUBSET RequestIds] /\ values' \in Nat
  BY <1>0, <1>2 DEF ObjectsTyped
<1>4. QED
  BY <1>1, <1>2, <1>3, ScriptKeeps

LEMMA RequestKeeps ==
  ASSUME ObjectsKept, NEW n \in Nodes, NEW kind \in {"call", "only"}, NEW method \in {"get", "set"},
         NEW to \in Swiss, Request(n, kind, method, to)
  PROVE  ObjectsKept'
<1>0. ObjectsTyped
  BY DEF ObjectsKept
<1>. PICK id \in Unused : AsksAs(n, kind, method, to, id)
  BY <1>0, RequestRuns
<1>1. /\ running[n] \in Context /\ running[n].sends = {}
      /\ Called(n, kind, method, to, id) \in CallMessage
      /\ requests' = [requests EXCEPT ![n] = @ \cup {id}]
      /\ Runs(n, running[n].counter, running[n].made, {Called(n, kind, method, to, id)}, running[n].read)
  BY DEF AsksAs
<1>2. requests' \in [Nodes -> SUBSET RequestIds]
  BY <1>0, <1>1 DEF ObjectsTyped, Unused
<1>3. values' \in Nat
  BY <1>0 DEF ObjectsTyped, Request
<1>4. UNCHANGED <<starts, slots, byKey, owners, mail, pendingNodes, asked, finished, wire, events, results,
                  display, edits, answered, missed, farWrite, taken>>
  BY DEF Request
<1>5. QED
  BY <1>1, <1>2, <1>3, <1>4, ScriptKeeps

LEMMA TakeMailKeeps ==
  ASSUME ObjectsKept, NEW n \in Nodes, TakeMail(n)
  PROVE  ObjectsKept'
<1>0. /\ ObjectsTyped /\ SlotsAreWritten /\ OneAtATime /\ EventsAddressed
      /\ KeysAreExports /\ KeysAreCounted
  BY DEF ObjectsKept
<1>1. /\ mail[n] # << >> /\ mail' = [mail EXCEPT ![n] = Tail(@)]
      /\ taken' = [taken EXCEPT ![n] = Append(@, Head(mail[n]))]
      /\ UNCHANGED <<starts, slots, byKey, owners, pendingNodes, asked, running, finished, wire, events,
                     results, display, values, requests, edits, answered, missed, farWrite>>
  BY DEF TakeMail
<1>2. mail \in [Nodes -> Seq(RequestIds)] /\ taken \in [Nodes -> Seq(RequestIds)]
  BY <1>0 DEF ObjectsTyped
<1>3. mail' \in [Nodes -> Seq(RequestIds)] /\ Head(mail[n]) \in RequestIds
  BY <1>1, <1>2, QueuesTail
<1>4. taken' \in [Nodes -> Seq(RequestIds)]
  BY <1>1, <1>2, <1>3, QueuesAppend
<1>5. ObjectsTyped'
  BY <1>0, <1>1, <1>3, <1>4 DEF ObjectsTyped
<1>6. SlotsAreWritten' /\ OneAtATime' /\ EventsAddressed' /\ KeysAreExports' /\ KeysAreCounted'
  <2>1. SlotsAreWritten' /\ OneAtATime' /\ EventsAddressed'
    BY <1>0, <1>1 DEF SlotsAreWritten, OneAtATime, EventsAddressed
  <2>2. KeysAreExports' /\ KeysAreCounted'
    BY <1>0, <1>1 DEF KeysAreExports, KeysFound, KeysAreCounted
  <2>3. QED
    BY <2>1, <2>2
<1>7. QED
  BY <1>5, <1>6 DEF ObjectsKept

LEMMA EditScriptKeeps ==
  ASSUME ObjectsKept, NEW n \in Nodes, EditScript(n)
  PROVE  ObjectsKept'
<1>0. /\ ObjectsTyped /\ SlotsAreWritten /\ OneAtATime /\ EventsAddressed
      /\ KeysAreExports /\ KeysAreCounted
  BY DEF ObjectsKept
<1>1. /\ asked' = asked \cup {n} /\ pendingNodes' = pendingNodes \cup {n} /\ missed' = missed \ {n}
      /\ UNCHANGED <<starts, slots, byKey, owners, mail, running, finished, wire, events,
                     results, display, values, requests, answered, farWrite, taken>>
  BY DEF EditScript
<1>2. ObjectsTyped'
  BY <1>0, <1>1 DEF ObjectsTyped
<1>3. SlotsAreWritten' /\ OneAtATime' /\ EventsAddressed'
  BY <1>0, <1>1 DEF SlotsAreWritten, OneAtATime, EventsAddressed
<1>4. KeysAreExports' /\ KeysAreCounted'
  BY <1>0, <1>1 DEF KeysAreExports, KeysFound, KeysAreCounted
<1>5. QED
  BY <1>2, <1>3, <1>4 DEF ObjectsKept

-----------------------------------------------------------------------------
(***************************************************************************)
(* The steps of the owner and of the transport thread                      *)
(***************************************************************************)

LEMMA EventsAfter ==
  ASSUME ObjectsTyped, EventsAddressed, NEW p \in Machines, events[p] # << >>,
         events' = [events EXCEPT ![p] = Tail(@)]
  PROVE  /\ events' \in [Machines -> Seq(CallMessage)] /\ EventsAddressed'
         /\ Head(events[p]) \in CallMessage
         /\ 1 \in 1 .. Len(events[p]) /\ Head(events[p]) = events[p][1]
         /\ IF Head(events[p]).kind = "result" THEN Head(events[p]).from = p ELSE Head(events[p]).to.peer = p
         /\ \A q \in Machines : q # p => events'[q] = events[q]
         /\ Len(events[p]) \in Nat /\ Len(events'[p]) = Len(events[p]) - 1
         /\ \A k \in 1 .. Len(events'[p]) : k + 1 \in 1 .. Len(events[p]) /\ events'[p][k] = events[p][k + 1]
<1>1. events \in [Machines -> Seq(CallMessage)]
  BY DEF ObjectsTyped
<1>2. /\ events' \in [Machines -> Seq(CallMessage)] /\ \A q \in Machines : q # p => events'[q] = events[q]
      /\ Len(events[p]) \in Nat \ {0} /\ Len(events'[p]) = Len(events[p]) - 1
      /\ Head(events[p]) = events[p][1] /\ Head(events[p]) \in CallMessage
      /\ \A k \in 1 .. Len(events[p]) - 1 : k + 1 \in 1 .. Len(events[p]) /\ events'[p][k] = events[p][k + 1]
  BY <1>1, QueuesTail
<1>3. 1 \in 1 .. Len(events[p])
  BY <1>2
<1>4. IF Head(events[p]).kind = "result" THEN Head(events[p]).from = p ELSE Head(events[p]).to.peer = p
  BY <1>2, <1>3 DEF EventsAddressed
<1>5. EventsAddressed'
  <2>1. ASSUME NEW q \in Machines, NEW k \in 1 .. Len(events'[q])
        PROVE  IF events'[q][k].kind = "result" THEN events'[q][k].from = q ELSE events'[q][k].to.peer = q
    <3>1. CASE q = p
      <4>1. k + 1 \in 1 .. Len(events[p]) /\ events'[p][k] = events[p][k + 1]
        BY <1>2, <2>1, <3>1
      <4>2. QED
        BY <3>1, <4>1 DEF EventsAddressed
    <3>2. CASE q # p
      BY <1>2, <2>1, <3>2 DEF EventsAddressed
    <3>3. QED
      BY <3>1, <3>2
  <2>2. QED
    BY <2>1 DEF EventsAddressed
<1>6. QED
  BY <1>2, <1>3, <1>4, <1>5

LEMMA EventsTold ==
  ASSUME ObjectsTyped, EventsAddressed, NEW p \in Machines, NEW m \in CallMessage,
         IF m.kind = "result" THEN m.from = p ELSE m.to.peer = p,
         events' = Told(p, m)
  PROVE  /\ events' \in [Machines -> Seq(CallMessage)] /\ EventsAddressed'
         /\ \A q \in Machines : q # p => events'[q] = events[q]
         /\ Len(events[p]) \in Nat /\ Len(events'[p]) = Len(events[p]) + 1
         /\ events'[p][Len(events[p]) + 1] = m
         /\ \A k \in 1 .. Len(events[p]) : events'[p][k] = events[p][k]
<1>1. events \in [Machines -> Seq(CallMessage)] /\ events' = [events EXCEPT ![p] = Append(@, m)]
  BY DEF ObjectsTyped, Told
<1>2. /\ events' \in [Machines -> Seq(CallMessage)] /\ \A q \in Machines : q # p => events'[q] = events[q]
      /\ Len(events[p]) \in Nat /\ Len(events'[p]) = Len(events[p]) + 1
      /\ events'[p][Len(events[p]) + 1] = m
      /\ \A k \in 1 .. Len(events[p]) : events'[p][k] = events[p][k]
  BY <1>1, QueuesAppend
<1>3. EventsAddressed'
  <2>1. ASSUME NEW q \in Machines, NEW k \in 1 .. Len(events'[q])
        PROVE  IF events'[q][k].kind = "result" THEN events'[q][k].from = q ELSE events'[q][k].to.peer = q
    <3>1. CASE q = p
      <4>1. k \in 1 .. Len(events[p]) \/ k = Len(events[p]) + 1
        BY <1>2, <2>1, <3>1
      <4>2. QED
        BY <1>2, <3>1, <4>1 DEF EventsAddressed
    <3>2. CASE q # p
      BY <1>2, <2>1, <3>2 DEF EventsAddressed
    <3>3. QED
      BY <3>1, <3>2
  <2>2. QED
    BY <2>1 DEF EventsAddressed
<1>4. QED
  BY <1>2, <1>3

LEMMA ReadyNodes ==
  ASSUME ObjectsTyped, NEW p, NEW what, NEW others \in SUBSET Nodes, Recompute(p, what, others)
  PROVE  pendingNodes' \in SUBSET Nodes /\ asked' \in SUBSET Nodes /\ missed' \in SUBSET Nodes
BY DEF ObjectsTyped, Recompute, Marked, Concerned

\* A step that adds to slots, and changes no evaluation and no export.
LEMMA OwnerKeeps ==
  ASSUME ObjectsKept, ObjectsTyped', SlotsAreWritten', EventsAddressed',
         \A q \in Machines : Len(slots[q]) <= Len(slots'[q]),
         UNCHANGED <<byKey, owners, running, finished>>
  PROVE  ObjectsKept'
<1>1. OneAtATime' /\ KeysAreCounted'
  BY DEF ObjectsKept, OneAtATime, KeysAreCounted
<1>2. KeysAreExports'
  <2>1. slots' \in [Machines -> Seq(Seq(Nat))]
    BY DEF ObjectsTyped
  <2>2. QED
    BY <2>1, KeysStill
<1>3. QED
  BY <1>1, <1>2 DEF ObjectsKept

LEMMA SlotsStill ==
  ASSUME ObjectsTyped, SlotsAreWritten, slots' = slots, farWrite' = farWrite
  PROVE  SlotsAreWritten' /\ \A q \in Machines : Len(slots[q]) <= Len(slots'[q])
<1>1. \A q \in Machines : Len(slots[q]) \in Nat
  BY SlotFacts
<1>2. QED
  BY <1>1 DEF SlotsAreWritten

\* What a delivery leaves.
LEMMA DeliveryKeeps ==
  ASSUME ObjectsTyped, SlotsAreWritten, NEW p \in Machines, NEW m \in CallMessage, m.to.peer = p,
         \/ Lookup(p, m.to) /\ slots' = Delivered(p, m) /\ farWrite' = FarWritten(p, m)
         \/ slots' = slots /\ farWrite' = farWrite
  PROVE  /\ SlotsAreWritten' /\ slots' \in [Machines -> Seq(Seq(Nat))]
         /\ farWrite' \in [Machines -> Seq(Nat)]
         /\ \A q \in Machines : Len(slots[q]) <= Len(slots'[q])
<1>1. CASE slots' = slots /\ farWrite' = farWrite
  <2>1. slots \in [Machines -> Seq(Seq(Nat))] /\ farWrite \in [Machines -> Seq(Nat)]
    BY DEF ObjectsTyped
  <2>2. QED
    BY <1>1, <2>1, SlotsStill
<1>2. CASE Lookup(p, m.to) /\ slots' = Delivered(p, m) /\ farWrite' = FarWritten(p, m)
  <2>1. CASE m.method = "set"
    <3>1. Rewrites(p, m.to.pos, m.value) /\ m.value \in Nat
      BY <1>2, <2>1, DeliveryWrites
    <3>2. QED
      BY <3>1, GrowthOf
  <2>2. CASE m.method # "set"
    <3>1. slots' = slots /\ farWrite' = farWrite
      BY <1>2, <2>2, DeliveryWrites
    <3>2. QED
      BY <1>1, <3>1
  <2>3. QED
    BY <2>1, <2>2
<1>3. QED
  BY <1>1, <1>2

LEMMA FinishKeeps ==
  ASSUME ObjectsKept, NEW n \in Nodes, NEW ok \in BOOLEAN, Finish(n, ok)
  PROVE  ObjectsKept'
<1>. DEFINE p == Home[n]
<1>. DEFINE r == [node |-> n, ok |-> ok, sends |-> running[n].sends, read |-> running[n].read]
<1>0. /\ ObjectsTyped /\ SlotsAreWritten /\ OneAtATime /\ EventsAddressed
      /\ KeysAreExports /\ KeysAreCounted
  BY DEF ObjectsKept
<1>1. /\ running[n].busy /\ finished' = [finished EXCEPT ![p] = Append(@, r)]
      /\ running' = [running EXCEPT ![n] = Idle]
      /\ UNCHANGED <<starts, slots, byKey, owners, mail, pendingNodes, asked, wire, events, results,
                     display, values, requests, edits, answered, farWrite, taken>>
      /\ missed' = missed \/ missed' = missed \cup ({n} \ asked)
  BY DEF Finish
<1>2. r \in Outcome
  <2>1. running[n] \in Context
    BY <1>0, <1>1, ContextOf
  <2>2. running[n].sends \in SUBSET CallMessage /\ running[n].read \in Reading
    BY <2>1, ContextFields
  <2>3. QED
    BY <2>2 DEF Outcome
<1>3. p \in Machines /\ finished \in [Machines -> Seq(Outcome)]
  BY <1>0, Homes DEF ObjectsTyped
<1>. HIDE DEF r
<1>4. /\ finished' \in [Machines -> Seq(Outcome)] /\ \A q \in Machines : q # p => finished'[q] = finished[q]
      /\ Len(finished[p]) \in Nat /\ Len(finished'[p]) = Len(finished[p]) + 1
      /\ finished'[p][Len(finished[p]) + 1] = r
      /\ \A k \in 1 .. Len(finished[p]) : finished'[p][k] = finished[p][k]
  BY <1>1, <1>2, <1>3, QueuesAppend
<1>5. /\ running' \in [Nodes -> Context \cup {Idle}] /\ running'[n] = Idle
      /\ \A o \in Nodes : o # n => running'[o] = running[o]
  BY <1>0, <1>1 DEF ObjectsTyped
<1>6. Idle.busy = FALSE
  BY DEF Idle
<1>7. ObjectsTyped'
  BY <1>0, <1>1, <1>4, <1>5 DEF ObjectsTyped
<1>8. SlotsAreWritten' /\ EventsAddressed' /\ KeysAreExports'
  <2>1. SlotsAreWritten' /\ EventsAddressed'
    BY <1>0, <1>1 DEF SlotsAreWritten, EventsAddressed
  <2>2. QED
    BY <1>0, <1>1, <2>1 DEF KeysAreExports, KeysFound
<1>9. KeysAreCounted'
  <2>1. ASSUME NEW o \in Nodes, running'[o].busy PROVE running'[o] = running[o] /\ running[o].busy
    BY <1>5, <1>6, <2>1
  <2>2. QED
    BY <1>0, <1>1, <2>1 DEF KeysAreCounted
<1>10. OneAtATime'
  <2>1. ASSUME NEW q \in Machines, NEW k \in 1 .. Len(finished[q])
        PROVE  /\ finished[q][k].node # n /\ finished[q][k].node \in Nodes
               /\ ~ running'[finished[q][k].node].busy
    <3>1. ~ running[finished[q][k].node].busy /\ finished[q][k].node \in Nodes
      BY <1>0, OutcomeOf DEF OneAtATime
    <3>2. QED
      BY <1>1, <1>5, <3>1
  <2>2. r.node = n
    BY DEF r
  <2>3. ASSUME NEW q \in Machines, NEW k \in 1 .. Len(finished'[q])
        PROVE  /\ Home[finished'[q][k].node] = q /\ ~ running'[finished'[q][k].node].busy
               /\ \A j \in 1 .. Len(finished'[q]) : finished'[q][j].node = finished'[q][k].node => j = k
    <3>1. CASE q # p
      BY <1>0, <1>4, <2>1, <2>3, <3>1 DEF OneAtATime
    <3>2. CASE q = p /\ k \in 1 .. Len(finished[p])
      <4>1. finished'[q][k] = finished[p][k] /\ finished[p][k].node # n
        BY <1>3, <1>4, <2>1, <3>2
      <4>2. Home[finished[p][k].node] = p /\ ~ running'[finished[p][k].node].busy
        BY <1>0, <1>3, <2>1, <3>2 DEF OneAtATime
      <4>3. ASSUME NEW j \in 1 .. Len(finished'[q]), finished'[q][j].node = finished'[q][k].node PROVE j = k
        <5>1. j \in 1 .. Len(finished[p])
          BY <1>4, <2>2, <3>2, <4>1, <4>3
        <5>2. finished'[q][j] = finished[p][j]
          BY <1>4, <3>2, <5>1
        <5>3. QED
          BY <1>0, <1>3, <3>2, <4>1, <4>3, <5>1, <5>2 DEF OneAtATime
      <4>4. QED
        BY <3>2, <4>1, <4>2, <4>3
    <3>3. CASE q = p /\ k = Len(finished[p]) + 1
      <4>1. finished'[q][k].node = n
        BY <1>4, <2>2, <3>3
      <4>2. ASSUME NEW j \in 1 .. Len(finished'[q]), finished'[q][j].node = n PROVE j = k
        <5>1. j \in 1 .. Len(finished[p]) \/ j = k
          BY <1>4, <3>3, <4>2
        <5>2. CASE j \in 1 .. Len(finished[p])
          BY <1>3, <1>4, <2>1, <3>3, <4>2, <5>2
        <5>3. QED
          BY <5>1, <5>2
      <4>3. QED
        BY <1>5, <1>6, <3>3, <4>1, <4>2 DEF p
    <3>4. QED
      BY <1>4, <2>3, <3>1, <3>2, <3>3
  <2>4. QED
    BY <2>3 DEF OneAtATime
<1>11. QED
  BY <1>7, <1>8, <1>9, <1>10 DEF ObjectsKept

LEMMA ApplyKeeps ==
  ASSUME ObjectsKept, NEW p \in Machines, Apply(p)
  PROVE  /\ ObjectsKept' /\ Head(finished[p]) = finished[p][1] /\ 1 \in 1 .. Len(finished[p])
         /\ \A q \in Machines : q # p => finished'[q] = finished[q]
         /\ Len(finished[p]) \in Nat /\ Len(finished'[p]) = Len(finished[p]) - 1
         /\ \A k \in 1 .. Len(finished'[p]) : k + 1 \in 1 .. Len(finished[p]) /\ finished'[p][k] = finished[p][k + 1]
<1>. DEFINE r == finished[p][1]
<1>0. /\ ObjectsTyped /\ SlotsAreWritten /\ OneAtATime /\ EventsAddressed
      /\ KeysAreExports /\ KeysAreCounted
  BY DEF ObjectsKept
<1>1. finished \in [Machines -> Seq(Outcome)] /\ finished[p] # << >>
      /\ finished' = [finished EXCEPT ![p] = Tail(@)]
  BY <1>0 DEF ObjectsTyped, Apply
<1>2. /\ finished' \in [Machines -> Seq(Outcome)] /\ \A q \in Machines : q # p => finished'[q] = finished[q]
      /\ Len(finished[p]) \in Nat \ {0} /\ Len(finished'[p]) = Len(finished[p]) - 1
      /\ Head(finished[p]) = r
      /\ \A k \in 1 .. Len(finished[p]) - 1 : k + 1 \in 1 .. Len(finished[p]) /\ finished'[p][k] = finished[p][k + 1]
  BY <1>1, QueuesTail
<1>3. 1 \in 1 .. Len(finished[p])
  BY <1>2
<1>4. /\ r.node \in Nodes /\ r.sends \in SUBSET CallMessage /\ r.read \in Reading /\ r.ok \in BOOLEAN
  BY <1>0, <1>3, OutcomeOf
<1>5. /\ r.ok => wire' = wire \cup r.sends /\ display' = [display EXCEPT ![r.node] = r.read]
      /\ ~ r.ok => wire' = wire /\ display' = display
      /\ pendingNodes' = pendingNodes \ {r.node}
      /\ UNCHANGED <<starts, slots, byKey, owners, mail, asked, running, events, results,
                     values, requests, edits, answered, missed, farWrite, taken>>
  BY <1>2 DEF Apply
<1>. HIDE DEF r
<1>6. wire' \in SUBSET CallMessage /\ display' \in [Nodes -> Reading]
  BY <1>0, <1>4, <1>5 DEF ObjectsTyped
<1>7. ObjectsTyped'
  BY <1>0, <1>2, <1>5, <1>6 DEF ObjectsTyped
<1>8. SlotsAreWritten' /\ EventsAddressed' /\ KeysAreExports' /\ KeysAreCounted'
  <2>1. SlotsAreWritten' /\ EventsAddressed' /\ KeysAreCounted'
    BY <1>0, <1>5 DEF SlotsAreWritten, EventsAddressed, KeysAreCounted
  <2>2. QED
    BY <1>0, <1>5, <2>1 DEF KeysAreExports, KeysFound
<1>9. OneAtATime'
  <2>1. ASSUME NEW q \in Machines, NEW k \in 1 .. Len(finished'[q])
        PROVE  /\ Home[finished'[q][k].node] = q /\ ~ running'[finished'[q][k].node].busy
               /\ \A j \in 1 .. Len(finished'[q]) : finished'[q][j].node = finished'[q][k].node => j = k
    <3>1. CASE q # p
      BY <1>0, <1>2, <1>5, <2>1, <3>1 DEF OneAtATime
    <3>2. CASE q = p
      <4>1. k + 1 \in 1 .. Len(finished[p]) /\ finished'[q][k] = finished[p][k + 1]
        BY <1>2, <2>1, <3>2
      <4>2. ASSUME NEW j \in 1 .. Len(finished'[q]), finished'[q][j].node = finished'[q][k].node PROVE j = k
        <5>1. j + 1 \in 1 .. Len(finished[p]) /\ finished'[q][j] = finished[p][j + 1]
          BY <1>2, <3>2, <4>2
        <5>2. j + 1 = k + 1
          BY <1>0, <4>1, <4>2, <5>1 DEF OneAtATime
        <5>3. QED
          BY <5>2
      <4>3. QED
        BY <1>0, <1>5, <3>2, <4>1, <4>2 DEF OneAtATime
    <3>3. QED
      BY <3>1, <3>2
  <2>2. QED
    BY <2>1 DEF OneAtATime
<1>10. QED
  BY <1>2, <1>3, <1>7, <1>8, <1>9 DEF ObjectsKept, r

LEMMA ServedCall ==
  ASSUME ObjectsTyped, SlotsAreWritten, NEW p \in Machines, NEW m \in wire, ServeCall(p, m)
  PROVE  /\ m \in CallMessage /\ m.kind = "call" /\ m.to.peer = p
         /\ [m EXCEPT !.kind = "result", !.value = Answer(p, m)] =
              [kind |-> "result", from |-> m.from, to |-> m.to, method |-> m.method,
               value |-> Answer(p, m), id |-> m.id, known |-> m.known]
         /\ Lookup(p, m.to) => [m EXCEPT !.kind = "result", !.value = Answer(p, m)] \in CallMessage
         /\ wire' \in SUBSET CallMessage
<1>1. m \in CallMessage /\ wire \in SUBSET CallMessage
  BY DEF ObjectsTyped
<1>2. [m EXCEPT !.kind = "result", !.value = Answer(p, m)] =
        [kind |-> "result", from |-> m.from, to |-> m.to, method |-> m.method,
         value |-> Answer(p, m), id |-> m.id, known |-> m.known]
  <2>. DEFINE v == Answer(p, m)
  <2>. HIDE DEF v
  <2>1. [m EXCEPT !.kind = "result"] =
          [kind |-> "result", from |-> m.from, to |-> m.to, method |-> m.method,
           value |-> m.value, id |-> m.id, known |-> m.known]
    BY <1>1 DEF CallMessage
  <2>2. [m EXCEPT !.kind = "result", !.value = v] = [[m EXCEPT !.kind = "result"] EXCEPT !.value = v]
    BY <1>1 DEF CallMessage
  <2>3. [[kind |-> "result", from |-> m.from, to |-> m.to, method |-> m.method,
          value |-> m.value, id |-> m.id, known |-> m.known] EXCEPT !.value = v] =
          [kind |-> "result", from |-> m.from, to |-> m.to, method |-> m.method,
           value |-> v, id |-> m.id, known |-> m.known]
    OBVIOUS
  <2>4. [m EXCEPT !.kind = "result", !.value = v] =
          [kind |-> "result", from |-> m.from, to |-> m.to, method |-> m.method,
           value |-> v, id |-> m.id, known |-> m.known]
    BY <2>1, <2>2, <2>3
  <2>5. QED
    BY <2>4 DEF v
<1>3. /\ m.from \in Machines /\ m.to \in Swiss /\ m.method \in {"get", "set"} /\ m.value \in Nat
      /\ m.id \in RequestIds /\ m.known \in SUBSET Nat
  BY <1>1 DEF CallMessage
<1>4. m.kind = "call" /\ m.to.peer = p
  BY DEF ServeCall
<1>5. ASSUME Lookup(p, m.to) PROVE Answer(p, m) \in Nat
  <2>1. m.to.pos \in 1 .. Len(slots[p])
    <3>1. m.to.pos \in Nat \ {0} /\ m.to.pos <= Len(slots[p])
      BY <1>3, <1>5, OcapnAssumption DEF Swiss, Lookup
    <3>2. QED
      BY <3>1, SlotFacts
  <2>2. Last(slots[p][m.to.pos]) \in Nat
    BY <2>1, SlotFacts
  <2>3. QED
    BY <1>3, <2>2 DEF Answer
<1>6. ASSUME Lookup(p, m.to)
      PROVE  [m EXCEPT !.kind = "result", !.value = Answer(p, m)] \in CallMessage
  BY <1>2, <1>3, <1>5, <1>6 DEF CallMessage
<1>7. wire' \in SUBSET CallMessage
  <2>1. wire' = (wire \ {m}) \cup
          IF Lookup(p, m.to) THEN {[m EXCEPT !.kind = "result", !.value = Answer(p, m)]} ELSE {}
    BY DEF ServeCall
  <2>2. CASE Lookup(p, m.to)
    BY <1>1, <1>6, <2>1, <2>2
  <2>3. CASE ~ Lookup(p, m.to)
    BY <1>1, <2>1, <2>3
  <2>4. QED
    BY <2>2, <2>3
<1>8. QED
  BY <1>1, <1>2, <1>4, <1>6, <1>7

LEMMA ServeCallKeeps ==
  ASSUME ObjectsKept, NEW p \in Machines, NEW m \in wire, ServeCall(p, m)
  PROVE  ObjectsKept'
<1>0. ObjectsTyped /\ SlotsAreWritten /\ EventsAddressed
  BY DEF ObjectsKept
<1>1. m \in CallMessage /\ m.kind = "call" /\ m.to.peer = p /\ wire' \in SUBSET CallMessage
  BY <1>0, ServedCall
<1>2. /\ \/ Lookup(p, m.to) /\ slots' = Delivered(p, m) /\ farWrite' = FarWritten(p, m)
         \/ slots' = slots /\ farWrite' = farWrite
      /\ events' = Told(p, m)
      /\ UNCHANGED <<starts, byKey, owners, mail, pendingNodes, asked, running, finished, results,
                     display, values, requests, edits, answered, missed, taken>>
  BY DEF ServeCall
<1>3. /\ SlotsAreWritten' /\ slots' \in [Machines -> Seq(Seq(Nat))]
      /\ farWrite' \in [Machines -> Seq(Nat)]
      /\ \A q \in Machines : Len(slots[q]) <= Len(slots'[q])
  BY <1>0, <1>1, <1>2, DeliveryKeeps
<1>4. events' \in [Machines -> Seq(CallMessage)] /\ EventsAddressed'
  BY <1>0, <1>1, <1>2, EventsTold
<1>5. ObjectsTyped'
  BY <1>0, <1>1, <1>2, <1>3, <1>4 DEF ObjectsTyped
<1>6. QED
  BY <1>2, <1>3, <1>4, <1>5, OwnerKeeps

LEMMA HandOverKeeps ==
  ASSUME ObjectsKept, NEW p \in Machines, NEW m \in wire, HandOver(p, m)
  PROVE  ObjectsKept'
<1>0. ObjectsTyped /\ SlotsAreWritten /\ EventsAddressed
  BY DEF ObjectsKept
<1>1. m \in CallMessage /\ IF m.kind = "result" THEN m.from = p ELSE m.to.peer = p
  BY <1>0 DEF ObjectsTyped, HandOver
<1>2. /\ wire' = wire \ {m} /\ events' = Told(p, m)
      /\ UNCHANGED <<starts, slots, byKey, owners, mail, pendingNodes, asked, running, finished, results,
                     display, values, requests, edits, answered, missed, farWrite, taken>>
  BY DEF HandOver
<1>3. SlotsAreWritten' /\ \A q \in Machines : Len(slots[q]) <= Len(slots'[q])
  BY <1>0, <1>2, SlotsStill
<1>4. events' \in [Machines -> Seq(CallMessage)] /\ EventsAddressed'
  BY <1>0, <1>1, <1>2, EventsTold
<1>5. wire' \in SUBSET CallMessage
  BY <1>0, <1>2 DEF ObjectsTyped
<1>6. ObjectsTyped'
  BY <1>0, <1>2, <1>4, <1>5 DEF ObjectsTyped
<1>7. QED
  BY <1>2, <1>3, <1>4, <1>6, OwnerKeeps

LEMMA TakeDeliveryKeeps ==
  ASSUME ObjectsKept, NEW p \in Machines, TakeDelivery(p)
  PROVE  ObjectsKept'
<1>. DEFINE m == Head(events[p])
<1>0. ObjectsTyped /\ SlotsAreWritten /\ EventsAddressed
  BY DEF ObjectsKept
<1>1. /\ events[p] # << >> /\ m.kind = "only" /\ events' = [events EXCEPT ![p] = Tail(@)]
      /\ \/ /\ Lookup(p, m.to) /\ slots' = Delivered(p, m) /\ farWrite' = FarWritten(p, m)
            /\ mail' = [n \in Nodes |-> IF n \in Owner(p, m) THEN Append(mail[n], m.id) ELSE mail[n]]
            /\ Recompute(p, "receive", Woken(p, m))
         \/ UNCHANGED <<slots, farWrite, mail, pendingNodes, asked, missed>>
      /\ UNCHANGED <<starts, byKey, owners, running, finished, wire, results, display,
                     values, requests, edits, answered, taken>>
  BY DEF TakeDelivery
<1>2. m \in CallMessage /\ m.to.peer = p /\ m.id \in RequestIds
      /\ events' \in [Machines -> Seq(CallMessage)] /\ EventsAddressed'
  <2>1. /\ m \in CallMessage /\ IF m.kind = "result" THEN m.from = p ELSE m.to.peer = p
        /\ events' \in [Machines -> Seq(CallMessage)] /\ EventsAddressed'
    BY <1>0, <1>1, EventsAfter
  <2>2. m.kind # "result"
    BY <1>1
  <2>3. m.id \in RequestIds
    BY <2>1 DEF CallMessage
  <2>4. QED
    BY <2>1, <2>2, <2>3
<1>. HIDE DEF m
<1>3. /\ SlotsAreWritten' /\ slots' \in [Machines -> Seq(Seq(Nat))]
      /\ farWrite' \in [Machines -> Seq(Nat)]
      /\ \A q \in Machines : Len(slots[q]) <= Len(slots'[q])
  BY <1>0, <1>1, <1>2, DeliveryKeeps
<1>4. pendingNodes' \in SUBSET Nodes /\ asked' \in SUBSET Nodes /\ missed' \in SUBSET Nodes
  <2>1. CASE Recompute(p, "receive", Woken(p, m))
    <3>1. Woken(p, m) \in SUBSET Nodes
      BY DEF Woken, Owner
    <3>2. QED
      BY <1>0, <2>1, <3>1, ReadyNodes
  <2>2. CASE UNCHANGED <<pendingNodes, asked, missed>>
    BY <1>0, <2>2 DEF ObjectsTyped
  <2>3. QED
    BY <1>1, <2>1, <2>2
<1>5. mail' \in [Nodes -> Seq(RequestIds)]
  <2>1. mail \in [Nodes -> Seq(RequestIds)]
    BY <1>0 DEF ObjectsTyped
  <2>2. \A n \in Nodes : Append(mail[n], m.id) \in Seq(RequestIds)
    BY <1>2, <2>1, QueueAppend
  <2>3. QED
    BY <1>1, <2>1, <2>2
<1>6. ObjectsTyped'
  BY <1>0, <1>1, <1>2, <1>3, <1>4, <1>5 DEF ObjectsTyped
<1>7. QED
  BY <1>1, <1>2, <1>3, <1>6, OwnerKeeps

LEMMA NoticeCallKeeps ==
  ASSUME ObjectsKept, NEW p \in Machines, NoticeCall(p)
  PROVE  ObjectsKept'
<1>0. ObjectsTyped /\ SlotsAreWritten /\ EventsAddressed
  BY DEF ObjectsKept
<1>1. /\ events[p] # << >> /\ events' = [events EXCEPT ![p] = Tail(@)]
      /\ Recompute(p, "receive", {})
      /\ UNCHANGED <<starts, slots, byKey, owners, mail, running, finished, wire, results,
                     display, values, requests, edits, answered, farWrite, taken>>
  BY DEF NoticeCall
<1>2. events' \in [Machines -> Seq(CallMessage)] /\ EventsAddressed'
  BY <1>0, <1>1, EventsAfter
<1>3. SlotsAreWritten' /\ \A q \in Machines : Len(slots[q]) <= Len(slots'[q])
  BY <1>0, <1>1, SlotsStill
<1>4. pendingNodes' \in SUBSET Nodes /\ asked' \in SUBSET Nodes /\ missed' \in SUBSET Nodes
  <2>1. {} \in SUBSET Nodes
    OBVIOUS
  <2>2. QED
    BY <1>0, <1>1, <2>1, ReadyNodes
<1>5. ObjectsTyped'
  BY <1>0, <1>1, <1>2, <1>4 DEF ObjectsTyped
<1>6. QED
  BY <1>1, <1>2, <1>3, <1>5, OwnerKeeps

LEMMA TakeResultAfter ==
  ASSUME ObjectsTyped, NEW p \in Machines, NEW m \in CallMessage,
         results' = [results EXCEPT ![p] =
                       [k \in DOMAIN @ \cup {m.id} |-> IF k = m.id THEN m.value ELSE @[k]]]
  PROVE  /\ DOMAIN results' = Machines /\ \A q \in Machines : q # p => results'[q] = results[q]
         /\ DOMAIN results'[p] = DOMAIN results[p] \cup {m.id}
         /\ results'[p][m.id] = m.value
         /\ \A k \in DOMAIN results[p] : k # m.id => results'[p][k] = results[p][k]
         /\ \A q \in Machines : \A id \in DOMAIN results'[q] : id \in RequestIds /\ results'[q][id] \in Nat
<1>1. DOMAIN results = Machines /\ m.id \in RequestIds /\ m.value \in Nat
  BY DEF ObjectsTyped, CallMessage
<1>2. /\ DOMAIN results' = Machines /\ \A q \in Machines : q # p => results'[q] = results[q]
      /\ results'[p] = [k \in DOMAIN results[p] \cup {m.id} |-> IF k = m.id THEN m.value ELSE results[p][k]]
  BY <1>1
<1>3. /\ DOMAIN results'[p] = DOMAIN results[p] \cup {m.id}
      /\ results'[p][m.id] = m.value
      /\ \A k \in DOMAIN results[p] : k # m.id => results'[p][k] = results[p][k]
  BY <1>2
<1>4. ASSUME NEW q \in Machines, NEW id \in DOMAIN results'[q]
      PROVE  id \in RequestIds /\ results'[q][id] \in Nat
  <2>1. CASE q = p /\ id = m.id
    BY <1>1, <1>3, <2>1
  <2>2. CASE q = p /\ id # m.id
    BY <1>3, <1>4, <2>2 DEF ObjectsTyped
  <2>3. CASE q # p
    BY <1>2, <1>4, <2>3 DEF ObjectsTyped
  <2>4. QED
    BY <2>1, <2>2, <2>3
<1>5. QED
  BY <1>2, <1>3, <1>4

LEMMA TakeResultKeeps ==
  ASSUME ObjectsKept, NEW p \in Machines, TakeResult(p)
  PROVE  ObjectsKept'
<1>. DEFINE m == Head(events[p])
<1>0. ObjectsTyped /\ SlotsAreWritten /\ EventsAddressed
  BY DEF ObjectsKept
<1>1. /\ events[p] # << >> /\ m.kind = "result" /\ events' = [events EXCEPT ![p] = Tail(@)]
      /\ results' = [results EXCEPT ![p] =
                       [k \in DOMAIN @ \cup {m.id} |-> IF k = m.id THEN m.value ELSE @[k]]]
      /\ answered' = answered \cup {[id |-> m.id, to |-> m.to, value |-> m.value, known |-> m.known]}
      /\ Recompute(p, "call", {})
      /\ UNCHANGED <<starts, slots, byKey, owners, mail, running, finished, wire,
                     display, values, requests, edits, farWrite, taken>>
  BY DEF TakeResult
<1>2. events' \in [Machines -> Seq(CallMessage)] /\ EventsAddressed' /\ m \in CallMessage
  BY <1>0, <1>1, EventsAfter
<1>. HIDE DEF m
<1>3. SlotsAreWritten' /\ \A q \in Machines : Len(slots[q]) <= Len(slots'[q])
  BY <1>0, <1>1, SlotsStill
<1>4. pendingNodes' \in SUBSET Nodes /\ asked' \in SUBSET Nodes /\ missed' \in SUBSET Nodes
  <2>1. {} \in SUBSET Nodes
    OBVIOUS
  <2>2. QED
    BY <1>0, <1>1, <2>1, ReadyNodes
<1>5. /\ DOMAIN results' = Machines
      /\ \A q \in Machines : \A id \in DOMAIN results'[q] : id \in RequestIds /\ results'[q][id] \in Nat
  BY <1>0, <1>1, <1>2, TakeResultAfter
<1>6. answered' \in SUBSET Answered
  <2>1. m.id \in RequestIds /\ m.to \in Swiss /\ m.value \in Nat /\ m.known \in SUBSET Nat
    BY <1>2 DEF CallMessage
  <2>2. QED
    BY <1>0, <1>1, <2>1 DEF ObjectsTyped, Answered
<1>7. ObjectsTyped'
  BY <1>0, <1>1, <1>2, <1>4, <1>5, <1>6 DEF ObjectsTyped
<1>8. QED
  BY <1>1, <1>2, <1>3, <1>7, OwnerKeeps

LEMMA EmptyQueues ==
  ASSUME NEW P, NEW S, NEW f \in [P -> Seq(S)], NEW p \in P, NEW g, g = [f EXCEPT ![p] = << >>]
  PROVE  /\ g \in [P -> Seq(S)] /\ g[p] = << >> /\ Len(g[p]) = 0
         /\ \A q \in P : q # p => g[q] = f[q]
<1>1. << >> \in Seq(S) /\ Len(<< >>) = 0
  BY EmptySeq
<1>2. QED
  BY <1>1

LEMMA RestartFacts ==
  ASSUME ObjectsTyped, NEW p \in Machines, RestartPeer(p)
  PROVE  /\ starts[p] = 0 /\ starts'[p] = 1 /\ \A q \in Machines : q # p => starts'[q] = starts[q]
         /\ Len(slots'[p]) = 0 /\ slots'[p] = << >> /\ \A q \in Machines : q # p => slots'[q] = slots[q]
         /\ Len(farWrite'[p]) = 0 /\ \A q \in Machines : q # p => farWrite'[q] = farWrite[q]
         /\ Len(finished'[p]) = 0 /\ \A q \in Machines : q # p => finished'[q] = finished[q]
         /\ Len(events'[p]) = 0 /\ \A q \in Machines : q # p => events'[q] = events[q]
         /\ byKey'[p] = << >> /\ owners'[p] = << >> /\ results'[p] = << >>
         /\ \A q \in Machines : q # p => byKey'[q] = byKey[q] /\ owners'[q] = owners[q] /\ results'[q] = results[q]
         /\ \A n \in Nodes : Home[n] = p =>
              /\ mail'[n] = << >> /\ running'[n] = Idle /\ display'[n] = NothingShown
              /\ n \in asked' /\ n \in pendingNodes' /\ n \notin missed'
         /\ \A n \in Nodes : Home[n] # p =>
              /\ mail'[n] = mail[n] /\ running'[n] = running[n] /\ display'[n] = display[n]
              /\ (n \in asked' <=> n \in asked) /\ (n \in missed' <=> n \in missed)
         /\ wire' = {m \in wire : m.from # p /\ m.to.peer # p}
         /\ UNCHANGED <<values, requests, edits, answered, taken>>
         /\ ObjectsTyped'
<1>1. /\ starts[p] = 0 /\ starts' = [starts EXCEPT ![p] = 1]
      /\ slots' = [slots EXCEPT ![p] = << >>] /\ byKey' = [byKey EXCEPT ![p] = << >>]
      /\ owners' = [owners EXCEPT ![p] = << >>] /\ farWrite' = [farWrite EXCEPT ![p] = << >>]
      /\ finished' = [finished EXCEPT ![p] = << >>] /\ events' = [events EXCEPT ![p] = << >>]
      /\ results' = [results EXCEPT ![p] = << >>]
      /\ wire' = {m \in wire : m.from # p /\ m.to.peer # p}
      /\ UNCHANGED <<values, requests, edits, answered, taken>>
  BY DEF RestartPeer
<1>2. /\ mail' = [n \in Nodes |-> IF n \in {o \in Nodes : Home[o] = p} THEN << >> ELSE mail[n]]
      /\ running' = [n \in Nodes |-> IF n \in {o \in Nodes : Home[o] = p} THEN Idle ELSE running[n]]
      /\ display' = [n \in Nodes |-> IF n \in {o \in Nodes : Home[o] = p} THEN NothingShown ELSE display[n]]
      /\ asked' = asked \cup {o \in Nodes : Home[o] = p}
      /\ pendingNodes' = pendingNodes \cup {o \in Nodes : Home[o] = p}
      /\ missed' = missed \ {o \in Nodes : Home[o] = p}
  BY DEF RestartPeer
<1>3. /\ Len(slots'[p]) = 0 /\ slots'[p] = << >> /\ \A q \in Machines : q # p => slots'[q] = slots[q]
      /\ slots' \in [Machines -> Seq(Seq(Nat))]
  BY <1>1, EmptyQueues DEF ObjectsTyped
<1>4. /\ Len(farWrite'[p]) = 0 /\ \A q \in Machines : q # p => farWrite'[q] = farWrite[q]
      /\ farWrite' \in [Machines -> Seq(Nat)]
  BY <1>1, EmptyQueues DEF ObjectsTyped
<1>5. /\ Len(finished'[p]) = 0 /\ \A q \in Machines : q # p => finished'[q] = finished[q]
      /\ finished' \in [Machines -> Seq(Outcome)]
  BY <1>1, EmptyQueues DEF ObjectsTyped
<1>6. /\ Len(events'[p]) = 0 /\ \A q \in Machines : q # p => events'[q] = events[q]
      /\ events' \in [Machines -> Seq(CallMessage)]
  BY <1>1, EmptyQueues DEF ObjectsTyped
<1>7. /\ starts'[p] = 1 /\ starts' \in [Machines -> 0 .. 1]
      /\ \A q \in Machines : q # p => starts'[q] = starts[q]
  BY <1>1 DEF ObjectsTyped
<1>8. /\ byKey'[p] = << >> /\ owners'[p] = << >> /\ results'[p] = << >>
      /\ \A q \in Machines : q # p => byKey'[q] = byKey[q] /\ owners'[q] = owners[q] /\ results'[q] = results[q]
      /\ DOMAIN byKey' = Machines /\ DOMAIN owners' = Machines /\ DOMAIN results' = Machines
  BY <1>1 DEF ObjectsTyped
<1>9. \A q \in Machines : \A id \in DOMAIN results'[q] : id \in RequestIds /\ results'[q][id] \in Nat
  <2>1. ASSUME NEW q \in Machines, NEW id \in DOMAIN results'[q]
        PROVE  id \in RequestIds /\ results'[q][id] \in Nat
    <3>1. q # p
      BY <1>8, <2>1
    <3>2. QED
      BY <1>8, <2>1, <3>1 DEF ObjectsTyped
  <2>2. QED
    BY <2>1
<1>10. /\ mail' \in [Nodes -> Seq(RequestIds)] /\ running' \in [Nodes -> Context \cup {Idle}]
       /\ display' \in [Nodes -> Reading]
  <2>1. << >> \in Seq(RequestIds)
    BY EmptySeq
  <2>2. NothingShown \in Reading
    BY DEF NothingShown, Reading
  <2>3. /\ mail \in [Nodes -> Seq(RequestIds)] /\ running \in [Nodes -> Context \cup {Idle}]
        /\ display \in [Nodes -> Reading]
    BY DEF ObjectsTyped
  <2>4. QED
    BY <1>2, <2>1, <2>2, <2>3
<1>11. /\ asked' \in SUBSET Nodes /\ pendingNodes' \in SUBSET Nodes /\ missed' \in SUBSET Nodes
       /\ wire' \in SUBSET CallMessage
  BY <1>1, <1>2 DEF ObjectsTyped
<1>12. ObjectsTyped'
  <2>1. taken \in [Nodes -> Seq(RequestIds)] /\ requests \in [Nodes -> SUBSET RequestIds]
        /\ values \in Nat /\ answered \in SUBSET Answered
    BY DEF ObjectsTyped
  <2>2. QED
    BY <1>1, <1>3, <1>4, <1>5, <1>6, <1>7, <1>8, <1>9, <1>10, <1>11, <2>1 DEF ObjectsTyped
<1>13. \A n \in Nodes : Home[n] = p =>
         /\ mail'[n] = << >> /\ running'[n] = Idle /\ display'[n] = NothingShown
         /\ n \in asked' /\ n \in pendingNodes' /\ n \notin missed'
  BY <1>2
<1>14. \A n \in Nodes : Home[n] # p =>
         /\ mail'[n] = mail[n] /\ running'[n] = running[n] /\ display'[n] = display[n]
         /\ (n \in asked' <=> n \in asked) /\ (n \in missed' <=> n \in missed)
  BY <1>2
<1>15. QED
  BY <1>1, <1>3, <1>4, <1>5, <1>6, <1>7, <1>8, <1>12, <1>13, <1>14

LEMMA RestartPeerKeeps ==
  ASSUME ObjectsKept, NEW p \in Machines, RestartPeer(p)
  PROVE  ObjectsKept'
<1>0. /\ ObjectsTyped /\ SlotsAreWritten /\ OneAtATime /\ EventsAddressed
      /\ KeysAreExports /\ KeysAreCounted
  BY DEF ObjectsKept
<1>1. /\ Len(slots'[p]) = 0 /\ \A q \in Machines : q # p => slots'[q] = slots[q]
      /\ Len(farWrite'[p]) = 0 /\ \A q \in Machines : q # p => farWrite'[q] = farWrite[q]
      /\ Len(finished'[p]) = 0 /\ \A q \in Machines : q # p => finished'[q] = finished[q]
      /\ Len(events'[p]) = 0 /\ \A q \in Machines : q # p => events'[q] = events[q]
      /\ byKey'[p] = << >> /\ owners'[p] = << >>
      /\ \A q \in Machines : q # p => byKey'[q] = byKey[q] /\ owners'[q] = owners[q]
      /\ \A n \in Nodes : Home[n] = p => running'[n] = Idle
      /\ \A n \in Nodes : Home[n] # p => running'[n] = running[n]
      /\ ObjectsTyped'
  BY <1>0, RestartFacts
<1>2. SlotsAreWritten' /\ EventsAddressed'
  <2>1. ASSUME NEW q \in Machines
        PROVE  /\ Len(farWrite'[q]) = Len(slots'[q])
               /\ \A pos \in 1 .. Len(slots'[q]) : slots'[q][pos] # << >> /\ farWrite'[q][pos] <= Len(slots'[q][pos])
               /\ \A k \in 1 .. Len(events'[q]) :
                    IF events'[q][k].kind = "result" THEN events'[q][k].from = q ELSE events'[q][k].to.peer = q
    <3>1. CASE q = p
      BY <1>1, <3>1
    <3>2. CASE q # p
      <4>1. slots'[q] = slots[q] /\ farWrite'[q] = farWrite[q] /\ events'[q] = events[q]
        BY <1>1, <3>2
      <4>2. /\ Len(farWrite[q]) = Len(slots[q])
            /\ \A pos \in 1 .. Len(slots[q]) : slots[q][pos] # << >> /\ farWrite[q][pos] <= Len(slots[q][pos])
        BY <1>0 DEF SlotsAreWritten
      <4>3. \A k \in 1 .. Len(events[q]) :
              IF events[q][k].kind = "result" THEN events[q][k].from = q ELSE events[q][k].to.peer = q
        BY <1>0 DEF EventsAddressed
      <4>4. QED
        BY <4>1, <4>2, <4>3
    <3>3. QED
      BY <3>1, <3>2
  <2>2. QED
    BY <2>1 DEF SlotsAreWritten, EventsAddressed
<1>3. Idle.busy = FALSE
  BY DEF Idle
<1>4. OneAtATime'
  <2>1. ASSUME NEW q \in Machines, NEW k \in 1 .. Len(finished'[q])
        PROVE  /\ Home[finished'[q][k].node] = q /\ ~ running'[finished'[q][k].node].busy
               /\ \A j \in 1 .. Len(finished'[q]) : finished'[q][j].node = finished'[q][k].node => j = k
    <3>1. q # p
      BY <1>1, <2>1
    <3>2. finished'[q] = finished[q] /\ k \in 1 .. Len(finished[q])
      BY <1>1, <2>1, <3>1
    <3>3. /\ Home[finished[q][k].node] = q /\ ~ running[finished[q][k].node].busy
          /\ finished[q][k].node \in Nodes
          /\ \A j \in 1 .. Len(finished[q]) : finished[q][j].node = finished[q][k].node => j = k
      BY <1>0, <3>2, OutcomeOf DEF OneAtATime
    <3>4. QED
      BY <1>1, <3>1, <3>2, <3>3
  <2>2. QED
    BY <2>1 DEF OneAtATime
<1>5. KeysAreExports'
  <2>1. ASSUME NEW q \in Machines PROVE KeysFound(q)'
    <3>1. CASE q = p
      BY <1>1, <3>1 DEF KeysFound
    <3>2. CASE q # p
      BY <1>0, <1>1, <3>2 DEF KeysFound, KeysAreExports
    <3>3. QED
      BY <3>1, <3>2
  <2>2. QED
    BY <2>1 DEF KeysAreExports
<1>6. KeysAreCounted'
  <2>1. ASSUME NEW o \in Nodes, running'[o].busy
        PROVE  running'[o] = running[o] /\ byKey'[Home[o]] = byKey[Home[o]]
    BY <1>1, <1>3, <2>1, Homes
  <2>2. QED
    BY <1>0, <2>1 DEF KeysAreCounted
<1>7. QED
  BY <1>1, <1>2, <1>4, <1>5, <1>6 DEF ObjectsKept

LEMMA OcapnStarts ==
  ASSUME OcapnInit
  PROVE  ObjectsKept
<1>1. /\ starts = [p \in Machines |-> 0] /\ slots = [p \in Machines |-> << >>]
      /\ byKey = [p \in Machines |-> << >>] /\ owners = [p \in Machines |-> << >>]
      /\ mail = [n \in Nodes |-> << >>] /\ pendingNodes = Nodes /\ asked = Nodes
      /\ running = [n \in Nodes |-> Idle] /\ finished = [p \in Machines |-> << >>]
      /\ wire = {} /\ events = [p \in Machines |-> << >>] /\ results = [p \in Machines |-> << >>]
      /\ display = [n \in Nodes |-> NothingShown] /\ values = 0 /\ requests = [n \in Nodes |-> {}]
      /\ answered = {} /\ missed = {} /\ farWrite = [p \in Machines |-> << >>]
      /\ taken = [n \in Nodes |-> << >>]
  BY DEF OcapnInit
<1>2. /\ << >> \in Seq(Seq(Nat)) /\ << >> \in Seq(Nat) /\ << >> \in Seq(RequestIds)
      /\ << >> \in Seq(Outcome) /\ << >> \in Seq(CallMessage) /\ Len(<< >>) = 0
  BY EmptySeq
<1>3. NothingShown \in Reading /\ Idle.busy = FALSE
  BY DEF NothingShown, Reading, Idle
<1>4. /\ slots \in [Machines -> Seq(Seq(Nat))] /\ farWrite \in [Machines -> Seq(Nat)]
      /\ mail \in [Nodes -> Seq(RequestIds)] /\ taken \in [Nodes -> Seq(RequestIds)]
      /\ finished \in [Machines -> Seq(Outcome)] /\ events \in [Machines -> Seq(CallMessage)]
  BY <1>1, <1>2
<1>5. /\ starts \in [Machines -> 0 .. 1] /\ running \in [Nodes -> Context \cup {Idle}]
      /\ display \in [Nodes -> Reading] /\ requests \in [Nodes -> SUBSET RequestIds]
  BY <1>1, <1>3
<1>6. /\ DOMAIN byKey = Machines /\ DOMAIN owners = Machines /\ DOMAIN results = Machines
      /\ \A p \in Machines : byKey[p] = << >> /\ owners[p] = << >> /\ results[p] = << >>
                             /\ Len(slots[p]) = 0 /\ Len(farWrite[p]) = 0
                             /\ Len(finished[p]) = 0 /\ Len(events[p]) = 0
  BY <1>1, <1>2
<1>7. ObjectsTyped
  BY <1>1, <1>4, <1>5, <1>6 DEF ObjectsTyped
<1>8. SlotsAreWritten /\ OneAtATime /\ EventsAddressed
  BY <1>6 DEF SlotsAreWritten, OneAtATime, EventsAddressed
<1>9. KeysAreExports
  BY <1>6 DEF KeysAreExports, KeysFound
<1>10. KeysAreCounted
  BY <1>1, <1>3 DEF KeysAreCounted
<1>11. QED
  BY <1>7, <1>8, <1>9, <1>10 DEF ObjectsKept

\* Nothing happens, or another canvas is shown.
Untouched ==
  UNCHANGED <<starts, slots, byKey, owners, mail, pendingNodes, asked, running, finished, wire, events,
              results, display, values, requests, answered, missed, farWrite, taken>>

LEMMA NothingTouched ==
  ASSUME UNCHANGED ocapnVars \/ \E p \in Machines, c \in Sheets : ShowCanvas(p, c)
  PROVE  Untouched
BY DEF ocapnVars, ShowCanvas, Untouched

LEMMA ObjectsStill ==
  ASSUME ObjectsKept, Untouched
  PROVE  ObjectsKept'
<1>1. UNCHANGED <<starts, slots, byKey, owners, mail, pendingNodes, asked, running, finished, wire, events,
                  results, display, values, requests, answered, missed, farWrite, taken>>
  BY DEF Untouched
<1>2. ObjectsTyped' /\ SlotsAreWritten' /\ OneAtATime' /\ EventsAddressed'
  BY <1>1 DEF ObjectsKept, ObjectsTyped, SlotsAreWritten, OneAtATime, EventsAddressed
<1>3. KeysAreExports' /\ KeysAreCounted'
  BY <1>1 DEF ObjectsKept, KeysAreExports, KeysFound, KeysAreCounted
<1>4. QED
  BY <1>2, <1>3 DEF ObjectsKept

LEMMA ObjectsKeep ==
  ASSUME ObjectsKept, OcapnNext
  PROVE  ObjectsKept'
<1>1. ASSUME NEW n \in Nodes, Evaluate(n) \/ Export(n) \/ ExportNode(n) \/ TakeMail(n) \/ EditScript(n)
      PROVE  ObjectsKept'
  BY <1>1, EvaluateKeeps, ExportKeeps, ExportNodeKeeps, TakeMailKeeps, EditScriptKeeps
<1>2. ASSUME NEW n \in Nodes, NEW pos \in 1 .. MaxValues, ReceiveSlot(n, pos) PROVE ObjectsKept'
  BY <1>2, ReceiveSlotKeeps
<1>3. ASSUME NEW n \in Nodes, NEW kind \in {"call", "only"}, NEW method \in {"get", "set"}, NEW to \in Swiss,
             Request(n, kind, method, to)
      PROVE  ObjectsKept'
  BY <1>3, RequestKeeps
<1>4. ASSUME NEW n \in Nodes, NEW id \in RequestIds, ReadResult(n, id) PROVE ObjectsKept'
  BY <1>4, ReadResultKeeps
<1>5. ASSUME NEW n \in Nodes, NEW ok \in BOOLEAN, Finish(n, ok) PROVE ObjectsKept'
  BY <1>5, FinishKeeps
<1>6. ASSUME NEW p \in Machines, Apply(p) \/ TakeDelivery(p) \/ NoticeCall(p) \/ TakeResult(p) \/ RestartPeer(p)
      PROVE  ObjectsKept'
  BY <1>6, ApplyKeeps, TakeDeliveryKeeps, NoticeCallKeeps, TakeResultKeeps, RestartPeerKeeps
<1>7. ASSUME NEW p \in Machines, NEW m \in wire, ServeCall(p, m) \/ HandOver(p, m) PROVE ObjectsKept'
  BY <1>7, ServeCallKeeps, HandOverKeeps
<1>8. ASSUME NEW p \in Machines, NEW c \in Sheets, ShowCanvas(p, c) PROVE ObjectsKept'
  BY <1>8, NothingTouched, ObjectsStill
<1>9. QED
  BY <1>1, <1>2, <1>3, <1>4, <1>5, <1>6, <1>7, <1>8 DEF OcapnNext

\* Every reachable state: slots, queues and evaluations are as the code makes
\* them, and the keys of a node count its exports from 0 on.
THEOREM ObjectsAreKept == OcapnSpec => []ObjectsKept
<1>1. OcapnInit => ObjectsKept
  BY OcapnStarts
<1>2. ObjectsKept /\ [OcapnNext]_ocapnVars => ObjectsKept'
  BY ObjectsKeep, ObjectsStill, NothingTouched
<1>3. QED
  BY <1>1, <1>2, PTL DEF OcapnSpec

-----------------------------------------------------------------------------
(***************************************************************************)
(* Locators are stable                                                     *)
(***************************************************************************)

\* Only an export counts as one.
LEMMA OnlyExportsCount ==
  ASSUME ObjectsKept, OcapnNext, NEW n \in Nodes,
         running[n].busy, running'[n].busy, running'[n].made > running[n].made
  PROVE  Export(n)
<1>0. ObjectsTyped /\ SlotsAreWritten /\ running[n] \in Context /\ running[n].made \in Nat
  <2>1. ObjectsTyped /\ SlotsAreWritten /\ running[n] \in Context
    BY ContextOf DEF ObjectsKept
  <2>2. QED
    BY <2>1, ContextFields
<1>1. running'[n].made # running[n].made
  BY <1>0
<1>2. running' # running
  BY <1>1
<1>3. ASSUME NEW o \in Nodes, Evaluate(o) PROVE FALSE
  <2>1. o # n
    BY <1>3 DEF Evaluate, InFlight
  <2>2. Runs(o, 0, 0, {}, NothingShown)
    BY <1>0, <1>3, EvaluateRuns
  <2>3. QED
    BY <1>1, <2>1, <2>2 DEF Runs
<1>4. ASSUME NEW o \in Nodes, Export(o) PROVE o = n
  <2>1. Runs(o, running[o].counter + 1, running[o].made + 1, running[o].sends, running[o].read)
    BY <1>0, <1>4, ExportRuns
  <2>2. QED
    BY <1>1, <2>1 DEF Runs
<1>5. ASSUME NEW o \in Nodes, ExportNode(o) \/ TakeMail(o) \/ EditScript(o) PROVE FALSE
  BY <1>2, <1>5 DEF ExportNode, TakeMail, EditScript
<1>6. ASSUME NEW o \in Nodes, NEW sends, NEW read, Runs(o, running[o].counter, running[o].made, sends, read)
      PROVE  FALSE
  BY <1>1, <1>6 DEF Runs
<1>7. ASSUME NEW o \in Nodes, NEW pos \in 1 .. MaxValues, ReceiveSlot(o, pos) PROVE FALSE
  <2>1. Runs(o, running[o].counter, running[o].made, running[o].sends,
             [pos |-> pos, id |-> -1, value |-> Last(slots[Home[o]][pos])])
    BY <1>0, <1>7, ReceiveSlotRuns
  <2>2. QED
    BY <1>6, <2>1
<1>8. ASSUME NEW o \in Nodes, NEW kind \in {"call", "only"}, NEW method \in {"get", "set"}, NEW to \in Swiss,
             Request(o, kind, method, to)
      PROVE  FALSE
  <2>. PICK id \in Unused : AsksAs(o, kind, method, to, id)
    BY <1>0, <1>8, RequestRuns
  <2>1. Runs(o, running[o].counter, running[o].made, {Called(o, kind, method, to, id)}, running[o].read)
    BY DEF AsksAs
  <2>2. QED
    BY <1>6, <2>1
<1>9. ASSUME NEW o \in Nodes, NEW id \in RequestIds, ReadResult(o, id) PROVE FALSE
  <2>1. PICK x : Runs(o, running[o].counter, running[o].made, running[o].sends, x)
    BY <1>0, <1>9, ReadResultRuns
  <2>2. QED
    BY <1>6, <2>1
<1>10. ASSUME NEW o \in Nodes, NEW ok \in BOOLEAN, Finish(o, ok) PROVE FALSE
  <2>1. running' = [running EXCEPT ![o] = Idle] /\ Idle.busy = FALSE
    BY <1>10 DEF Finish, Idle
  <2>2. running'[n] = running[n] \/ running'[n] = Idle
    BY <1>0, <2>1 DEF ObjectsTyped
  <2>3. QED
    BY <1>1, <2>1, <2>2
<1>11. ASSUME NEW p \in Machines, Apply(p) \/ TakeDelivery(p) \/ NoticeCall(p) \/ TakeResult(p) PROVE FALSE
  BY <1>2, <1>11 DEF Apply, TakeDelivery, NoticeCall, TakeResult
<1>12. ASSUME NEW p \in Machines, RestartPeer(p) PROVE FALSE
  <2>1. running'[n] = running[n] \/ running'[n] = Idle
    BY <1>0, <1>12, RestartFacts
  <2>2. Idle.busy = FALSE
    BY DEF Idle
  <2>3. QED
    BY <1>1, <2>1, <2>2
<1>13. ASSUME NEW p \in Machines, NEW m \in wire, ServeCall(p, m) \/ HandOver(p, m) PROVE FALSE
  BY <1>2, <1>13 DEF ServeCall, HandOver
<1>14. ASSUME NEW p \in Machines, NEW c \in Sheets, ShowCanvas(p, c) PROVE FALSE
  BY <1>2, <1>14 DEF ShowCanvas
<1>15. QED
  BY <1>3, <1>4, <1>5, <1>7, <1>8, <1>9, <1>10, <1>11, <1>12, <1>13, <1>14 DEF OcapnNext

\* The slots of a node are as many as its keys.
LEMMA SlotsOfNode ==
  ASSUME ObjectsKept, NEW n \in Nodes, running[n].busy
  PROVE  LET owned == {pos \in DOMAIN owners[Home[n]] : owners[Home[n]][pos] = n} IN
         /\ Cardinality(owned) \in Nat /\ running[n].made \in Nat
         /\ Cardinality(owned) <= running[n].made <=>
              <<n, running[n].counter>> \notin DOMAIN byKey[Home[n]]
<1>. DEFINE p == Home[n]
<1>. DEFINE made == running[n].made
<1>. DEFINE owned == {pos \in DOMAIN owners[p] : owners[p][pos] = n}
<1>0. p \in Machines /\ made \in Nat /\ running[n].counter = made
  <2>1. running[n] \in Context
    BY ContextOf DEF ObjectsKept
  <2>2. QED
    BY <2>1, ContextFields, Homes DEF ObjectsKept, KeysAreCounted
<1>1. KeysFound(p) /\ Len(slots[p]) \in Nat
  BY <1>0, SlotFacts DEF ObjectsKept, KeysAreExports
<1>2. \A k \in 0 .. made - 1 : <<n, k>> \in DOMAIN byKey[p]
  BY <1>0 DEF ObjectsKept, KeysAreCounted
<1>3. IsFiniteSet(owned)
  <2>1. owned \in SUBSET (1 .. Len(slots[p]))
    BY <1>1 DEF KeysFound
  <2>2. IsFiniteSet(1 .. Len(slots[p]))
    BY <1>1, FS_Interval
  <2>3. QED
    BY <2>1, <2>2, FS_Subset
<1>. HIDE DEF p, made
<1>4. ASSUME <<n, made>> \in DOMAIN byKey[p]
      PROVE  Cardinality(owned) >= made + 1
  <2>. DEFINE f == [j \in 0 .. made |-> byKey[p][<<n, j>>]]
  <2>1. \A j \in 0 .. made : <<n, j>> \in DOMAIN byKey[p]
    BY <1>0, <1>2, <1>4
  <2>2. \A j \in 0 .. made : byKey[p][<<n, j>>] \in owned
    BY <1>1, <2>1 DEF KeysFound
  <2>3. \A i, j \in 0 .. made : f[i] = f[j] => i = j
    <3>1. ASSUME NEW i \in 0 .. made, NEW j \in 0 .. made, f[i] = f[j] PROVE i = j
      <4>1. byKey[p][<<n, i>>] = byKey[p][<<n, j>>]
        BY <3>1
      <4>2. <<n, i>> = <<n, j>>
        BY <1>1, <2>1, <4>1 DEF KeysFound
      <4>3. QED
        BY <4>2
    <3>2. QED
      BY <3>1
  <2>4. f \in [0 .. made -> owned]
    BY <2>2
  <2>. HIDE DEF f, owned
  <2>5. f \in Injection(0 .. made, owned)
    BY <2>3, <2>4 DEF Injection, IsInjective
  <2>6. Cardinality(0 .. made) <= Cardinality(owned)
    BY <1>3, <2>5, FS_Injection
  <2>7. Cardinality(0 .. made) = made + 1
    BY <1>0, FS_Interval
  <2>8. Cardinality(owned) \in Nat
    BY <1>3, FS_CardinalityType
  <2>9. QED
    BY <1>0, <2>6, <2>7, <2>8
<1>5. ASSUME <<n, made>> \notin DOMAIN byKey[p]
      PROVE  Cardinality(owned) <= made
  <2>. DEFINE f == [j \in 0 .. made - 1 |-> byKey[p][<<n, j>>]]
  <2>1. f \in [0 .. made - 1 -> owned]
    <3>1. \A j \in 0 .. made - 1 : byKey[p][<<n, j>>] \in owned
      BY <1>1, <1>2 DEF KeysFound
    <3>2. QED
      BY <3>1
  <2>2. ASSUME NEW pos \in owned PROVE \E j \in 0 .. made - 1 : f[j] = pos
    <3>1. PICK k \in DOMAIN byKey[p] : byKey[p][k] = pos
      BY <1>1, <2>2 DEF KeysFound
    <3>2. /\ k \in Nodes \X Nat /\ k[1] = n
          /\ \A j \in 0 .. k[2] : <<k[1], j>> \in DOMAIN byKey[p]
      BY <1>1, <2>2, <3>1 DEF KeysFound
    <3>3. k = <<n, k[2]>> /\ k[2] \in Nat
      BY <3>2
    <3>4. ~ (made <= k[2])
      BY <1>0, <1>5, <3>2, <3>3
    <3>5. k[2] \in 0 .. made - 1
      BY <1>0, <3>3, <3>4
    <3>6. QED
      BY <3>1, <3>3, <3>5
  <2>. HIDE DEF f, owned
  <2>3. f \in Surjection(0 .. made - 1, owned)
    BY <2>1, <2>2 DEF Surjection
  <2>4. IsFiniteSet(0 .. made - 1) /\ Cardinality(0 .. made - 1) = made
    BY <1>0, FS_Interval
  <2>5. Cardinality(owned) <= Cardinality(0 .. made - 1)
    BY <2>3, <2>4, FS_Surjection
  <2>6. QED
    BY <2>4, <2>5
<1>6. Cardinality(owned) \in Nat
  BY <1>3, FS_CardinalityType
<1>. HIDE DEF owned
<1>7. Cardinality(owned) <= made <=> <<n, running[n].counter>> \notin DOMAIN byKey[p]
  <2>1. <<n, running[n].counter>> = <<n, made>>
    BY <1>0
  <2>2. QED
    BY <1>0, <1>4, <1>5, <1>6, <2>1
<1>8. QED
  BY <1>0, <1>6, <1>7 DEF owned, made, p

\* The k-th export of every evaluation of a node has the locator of its k-th
\* export before, and no other (bridge.rs:643).
THEOREM LocatorsStayStable == OcapnSpec => LocatorsAreStable
<1>1. ASSUME ObjectsKept, OcapnNext, NEW n \in Nodes,
             running[n].busy, running'[n].busy, running'[n].made > running[n].made
      PROVE  Len(slots'[Home[n]]) > Len(slots[Home[n]]) <=>
               Cardinality({pos \in DOMAIN owners[Home[n]] : owners[Home[n]][pos] = n}) <= running[n].made
  <2>1. Export(n)
    BY <1>1, OnlyExportsCount
  <2>2. /\ Len(slots[Home[n]]) \in Nat
        /\ Len(slots'[Home[n]]) = IF <<n, running[n].counter>> \in DOMAIN byKey[Home[n]]
                                  THEN Len(slots[Home[n]]) ELSE Len(slots[Home[n]]) + 1
    BY <1>1, <2>1, ExportKeeps
  <2>3. Cardinality({pos \in DOMAIN owners[Home[n]] : owners[Home[n]][pos] = n}) <= running[n].made <=>
          <<n, running[n].counter>> \notin DOMAIN byKey[Home[n]]
    BY <1>1, SlotsOfNode
  <2>4. Len(slots'[Home[n]]) > Len(slots[Home[n]]) <=> <<n, running[n].counter>> \notin DOMAIN byKey[Home[n]]
    BY <2>2
  <2>5. QED
    BY <2>3, <2>4
<1>2. ASSUME ObjectsKept, UNCHANGED ocapnVars, NEW n \in Nodes,
             running[n].busy, running'[n].busy, running'[n].made > running[n].made
      PROVE  FALSE
  <2>1. running'[n] = running[n]
    BY <1>2 DEF ocapnVars
  <2>2. running[n] \in Context
    BY <1>2, ContextOf DEF ObjectsKept
  <2>3. running[n].made \in Nat
    BY <2>2, ContextFields
  <2>4. QED
    BY <1>2, <2>1, <2>3
<1>3. ObjectsKept /\ [OcapnNext]_ocapnVars =>
        [\A n \in Nodes :
           LET p == Home[n] IN
           (running[n].busy /\ running'[n].busy /\ running'[n].made > running[n].made) =>
             (Len(slots'[p]) > Len(slots[p]) <=>
                Cardinality({pos \in DOMAIN owners[p] : owners[p][pos] = n}) <= running[n].made)]_ocapnVars
  BY <1>1, <1>2
<1>4. QED
  BY <1>3, ObjectsAreKept, PTL DEF OcapnSpec, LocatorsAreStable

-----------------------------------------------------------------------------
(***************************************************************************)
(* Where a message is                                                      *)
(***************************************************************************)

\* It is queued in an evaluation, or its result waits for the owner.
Sends(n, m) ==
  \/ running[n].busy /\ m \in running[n].sends
  \/ \E k \in 1 .. Len(finished[Home[n]]) :
       finished[Home[n]][k].node = n /\ m \in finished[Home[n]][k].sends
\* The owner still has to take it (a call is done already).
Waits(p, m) == \E k \in 1 .. Len(events[p]) : events[p][k] = m /\ m.kind # "call"

Sent(id) == \E n \in Nodes, m \in CallMessage : Sends(n, m) /\ m.id = id
OnWire(id) == \E m \in wire : m.id = id
AtOwner(id) == \E p \in Machines, m \in CallMessage : Waits(p, m) /\ m.id = id
Arrived(id) ==
  \/ \E a \in answered : a.id = id
  \/ \E n \in Nodes : Holds(taken[n], id) \/ Holds(mail[n], id)
Apart(id) ==
  /\ Sent(id) => ~ OnWire(id) /\ ~ AtOwner(id) /\ ~ Arrived(id)
  /\ OnWire(id) => ~ AtOwner(id) /\ ~ Arrived(id)
  /\ AtOwner(id) => ~ Arrived(id)

\* A node has its own numbers, the ones it sends too, and no number is new again.
RequestsAreOwn ==
  /\ \A n, o \in Nodes : n # o => requests[n] \cap requests[o] = {}
  /\ \A n \in Nodes, m \in CallMessage : Sends(n, m) => m.id \in requests[n]
RequestsAreUsed == \A id \in RequestIds :
  Sent(id) \/ OnWire(id) \/ AtOwner(id) \/ Arrived(id) => id \notin Unused

\* A number is in one place, once.
NumbersAreApart == \A id \in RequestIds : Apart(id)
SentOnce == \A n \in Nodes : \A m, o \in CallMessage : Sends(n, m) /\ Sends(n, o) => m = o
OnWireOnce == \A m, o \in wire : m.id = o.id => m = o
WaitsOnce == \A p, q \in Machines : \A k \in 1 .. Len(events[p]), j \in 1 .. Len(events[q]) :
  events[p][k].kind # "call" /\ events[q][j].kind # "call" /\ events[p][k].id = events[q][j].id => p = q /\ k = j
AnsweredOnce == \A a, b \in answered : a.id = b.id => a = b
MailOnce == \A n \in Nodes :
  /\ \A j, k \in 1 .. Len(taken[n]) : taken[n][j] = taken[n][k] => j = k
  /\ \A j, k \in 1 .. Len(mail[n]) : mail[n][j] = mail[n][k] => j = k
  /\ \A id \in RequestIds : ~ (Holds(taken[n], id) /\ Holds(mail[n], id))

NumbersKept ==
  /\ RequestsAreOwn /\ RequestsAreUsed /\ NumbersAreApart
  /\ SentOnce /\ OnWireOnce /\ WaitsOnce /\ AnsweredOnce /\ MailOnce

-----------------------------------------------------------------------------

\* The numbers of messages are no new ones, and none but x comes to another place.
Stay(x) == \A id \in RequestIds : id # x =>
  /\ Sent(id)' => Sent(id)
  /\ OnWire(id)' => OnWire(id)
  /\ AtOwner(id)' => AtOwner(id)
  /\ Arrived(id)' => Arrived(id)

LEMMA ApartAfter ==
  ASSUME NumbersAreApart, NEW x, Stay(x), x \in RequestIds => Apart(x)'
  PROVE  NumbersAreApart'
BY DEF NumbersAreApart, Stay, Apart

LEMMA UsedAfter ==
  ASSUME RequestsAreUsed, NEW x, Stay(x), x \in RequestIds => x \notin Unused, requests' = requests
  PROVE  RequestsAreUsed'
<1>1. Unused' = Unused
  BY DEF Unused
<1>2. QED
  BY <1>1 DEF RequestsAreUsed, Stay

\* The owner took the first event, or a call was noted.
Follows(p) == \E d \in 0 .. 1 : \A k \in 1 .. Len(events'[p]) :
  \/ events'[p][k].kind = "call"
  \/ k + d \in 1 .. Len(events[p]) /\ events'[p][k] = events[p][k + d]

LEMMA WaitsAfter ==
  ASSUME \A p \in Machines : Follows(p)
  PROVE  /\ \A p \in Machines : \A m : Waits(p, m)' => Waits(p, m)
         /\ \A id : AtOwner(id)' => AtOwner(id)
         /\ WaitsOnce => WaitsOnce'
<1>1. ASSUME NEW p \in Machines, NEW m, Waits(p, m)' PROVE Waits(p, m)
  BY <1>1 DEF Waits, Follows
<1>2. ASSUME NEW id, AtOwner(id)' PROVE AtOwner(id)
  BY <1>1, <1>2 DEF AtOwner
<1>3. ASSUME WaitsOnce PROVE WaitsOnce'
  <2>1. ASSUME NEW p \in Machines, NEW q \in Machines,
               NEW k \in 1 .. Len(events'[p]), NEW j \in 1 .. Len(events'[q]),
               events'[p][k].kind # "call", events'[q][j].kind # "call",
               events'[p][k].id = events'[q][j].id
        PROVE  p = q /\ k = j
    <3>1. PICK d \in 0 .. 1 : \A i \in 1 .. Len(events'[p]) :
            \/ events'[p][i].kind = "call"
            \/ i + d \in 1 .. Len(events[p]) /\ events'[p][i] = events[p][i + d]
      BY DEF Follows
    <3>2. k + d \in 1 .. Len(events[p]) /\ events'[p][k] = events[p][k + d]
      BY <2>1, <3>1
    <3>3. p = q
      <4>1. PICK e \in 0 .. 1 : \A i \in 1 .. Len(events'[q]) :
              \/ events'[q][i].kind = "call"
              \/ i + e \in 1 .. Len(events[q]) /\ events'[q][i] = events[q][i + e]
        BY DEF Follows
      <4>2. j + e \in 1 .. Len(events[q]) /\ events'[q][j] = events[q][j + e]
        BY <2>1, <4>1
      <4>3. QED
        BY <1>3, <2>1, <3>2, <4>2 DEF WaitsOnce
    <3>4. j + d \in 1 .. Len(events[p]) /\ events'[q][j] = events[p][j + d]
      BY <2>1, <3>1, <3>3
    <3>5. k + d = j + d
      BY <1>3, <2>1, <3>2, <3>3, <3>4 DEF WaitsOnce
    <3>6. QED
      BY <3>3, <3>5
  <2>2. QED
    BY <2>1 DEF WaitsOnce
<1>4. QED
  BY <1>1, <1>2, <1>3
LEMMA NumbersStill ==
  ASSUME NumbersKept,
         \A n \in Nodes, m \in CallMessage : Sends(n, m)' => Sends(n, m),
         wire' \subseteq wire, \A p \in Machines : Follows(p),
         \A n \in Nodes : mail'[n] = mail[n] \/ Len(mail'[n]) = 0,
         UNCHANGED <<taken, answered, requests>>
  PROVE  NumbersKept'
<1>0. /\ RequestsAreOwn /\ RequestsAreUsed /\ NumbersAreApart
      /\ SentOnce /\ OnWireOnce /\ WaitsOnce /\ AnsweredOnce /\ MailOnce
  BY DEF NumbersKept
<1>1. \A id : AtOwner(id)' => AtOwner(id)
  BY WaitsAfter
<1>2. \A n \in Nodes : \A id : Holds(mail'[n], id) => Holds(mail[n], id)
  BY DEF Holds
<1>3. Stay(-1)
  <2>1. ASSUME NEW id \in RequestIds, Sent(id)' PROVE Sent(id)
    BY <2>1 DEF Sent
  <2>2. ASSUME NEW id \in RequestIds, OnWire(id)' PROVE OnWire(id)
    BY <2>2 DEF OnWire
  <2>3. ASSUME NEW id \in RequestIds, Arrived(id)' PROVE Arrived(id)
    BY <1>2, <2>3 DEF Arrived
  <2>4. QED
    BY <1>1, <2>1, <2>2, <2>3 DEF Stay
<1>4. -1 \notin RequestIds
  BY OcapnAssumption
<1>5. NumbersAreApart' /\ RequestsAreUsed'
  BY <1>0, <1>3, <1>4, ApartAfter, UsedAfter
<1>6. RequestsAreOwn' /\ SentOnce'
  BY <1>0 DEF RequestsAreOwn, SentOnce
<1>7. OnWireOnce' /\ AnsweredOnce'
  BY <1>0 DEF OnWireOnce, AnsweredOnce
<1>8. WaitsOnce'
  BY <1>0, WaitsAfter
<1>9. MailOnce'
  <2>1. ASSUME NEW n \in Nodes
        PROVE  /\ \A j, k \in 1 .. Len(taken'[n]) : taken'[n][j] = taken'[n][k] => j = k
               /\ \A j, k \in 1 .. Len(mail'[n]) : mail'[n][j] = mail'[n][k] => j = k
               /\ \A id \in RequestIds : ~ (Holds(taken'[n], id) /\ Holds(mail'[n], id))
    <3>1. \A j, k \in 1 .. Len(taken'[n]) : taken'[n][j] = taken'[n][k] => j = k
      BY <1>0 DEF MailOnce
    <3>2. \A j, k \in 1 .. Len(mail'[n]) : mail'[n][j] = mail'[n][k] => j = k
      <4>1. CASE mail'[n] = mail[n]
        BY <1>0, <4>1 DEF MailOnce
      <4>2. CASE Len(mail'[n]) = 0
        BY <4>2
      <4>3. QED
        BY <4>1, <4>2
    <3>3. \A id \in RequestIds : ~ (Holds(taken'[n], id) /\ Holds(mail'[n], id))
      BY <1>0, <1>2 DEF MailOnce
    <3>4. QED
      BY <3>1, <3>2, <3>3
  <2>2. QED
    BY <2>1 DEF MailOnce, Holds
<1>10. QED
  BY <1>5, <1>6, <1>7, <1>8, <1>9 DEF NumbersKept

LEMMA FollowsSame ==
  ASSUME ObjectsTyped, NEW p \in Machines, events'[p] = events[p] \/ Len(events'[p]) = 0
  PROVE  Follows(p)
<1>1. CASE events'[p] = events[p]
  <2>1. \A k \in 1 .. Len(events'[p]) : k + 0 \in 1 .. Len(events[p]) /\ events'[p][k] = events[p][k + 0]
    BY <1>1
  <2>2. QED
    BY <2>1 DEF Follows
<1>2. CASE Len(events'[p]) = 0
  BY <1>2 DEF Follows
<1>3. QED
  BY <1>1, <1>2

\* The evaluations that run keep their messages, or begin with none.
LEMMA SendsStill ==
  ASSUME ObjectsTyped, \A p \in Machines : finished'[p] = finished[p] \/ Len(finished'[p]) = 0,
         \A n \in Nodes : running'[n].busy =>
           \/ running'[n].sends = {}
           \/ running[n].busy /\ running'[n].sends = running[n].sends,
         NEW n \in Nodes, NEW m, Sends(n, m)'
  PROVE  Sends(n, m)
<1>1. CASE running'[n].busy /\ m \in running'[n].sends
  BY <1>1 DEF Sends
<1>2. CASE \E k \in 1 .. Len(finished'[Home[n]]) :
             finished'[Home[n]][k].node = n /\ m \in finished'[Home[n]][k].sends
  BY <1>2, Homes DEF Sends
<1>3. QED
  BY <1>1, <1>2 DEF Sends

\* Of an evaluation that runs there is no result.
LEMMA SendsOfRunning ==
  ASSUME OneAtATime, NEW n \in Nodes, running[n].busy
  PROVE  \A m : Sends(n, m) <=> m \in running[n].sends
BY Homes DEF Sends, OneAtATime

LEMMA SendsOfResult ==
  ASSUME ObjectsTyped, OneAtATime, NEW p \in Machines, NEW k \in 1 .. Len(finished[p])
  PROVE  /\ finished[p][k].node \in Nodes
         /\ \A m : Sends(finished[p][k].node, m) <=> m \in finished[p][k].sends
<1>1. finished[p][k].node \in Nodes
  BY OutcomeOf
<1>2. QED
  BY <1>1 DEF Sends, OneAtATime

LEMMA SendsTyped ==
  ASSUME ObjectsTyped, NEW n \in Nodes, NEW m, Sends(n, m)
  PROVE  m \in CallMessage
<1>1. CASE running[n].busy /\ m \in running[n].sends
  <2>1. running[n] \in Context
    BY <1>1, ContextOf
  <2>2. QED
    BY <1>1, <2>1, ContextFields
<1>2. CASE \E k \in 1 .. Len(finished[Home[n]]) :
             finished[Home[n]][k].node = n /\ m \in finished[Home[n]][k].sends
  BY <1>2, Homes, OutcomeOf
<1>3. QED
  BY <1>1, <1>2 DEF Sends

-----------------------------------------------------------------------------
(***************************************************************************)
(* A number is in one place                                                *)
(***************************************************************************)

\* A step of the owner or the transport that changes no evaluation.
LEMMA SendsSame ==
  ASSUME UNCHANGED <<running, finished>>
  PROVE  \A n \in Nodes : \A m : Sends(n, m)' <=> Sends(n, m)
BY DEF Sends

LEMMA QuietEvaluations ==
  ASSUME ObjectsKept, NumbersKept,
         \A p \in Machines : finished'[p] = finished[p] \/ Len(finished'[p]) = 0,
         \A n \in Nodes : running'[n].busy =>
           \/ running'[n].sends = {}
           \/ running[n].busy /\ running'[n].sends = running[n].sends,
         wire' \subseteq wire,
         \A p \in Machines : events'[p] = events[p] \/ Len(events'[p]) = 0,
         \A n \in Nodes : mail'[n] = mail[n] \/ Len(mail'[n]) = 0,
         UNCHANGED <<taken, answered, requests>>
  PROVE  NumbersKept'
<1>0. ObjectsTyped
  BY DEF ObjectsKept
<1>1. \A n \in Nodes, m \in CallMessage : Sends(n, m)' => Sends(n, m)
  BY <1>0, SendsStill
<1>2. \A p \in Machines : Follows(p)
  BY <1>0, FollowsSame
<1>3. QED
  BY <1>1, <1>2, NumbersStill

\* What a script does but sending leaves what it sends.
LEMMA ScriptSends ==
  ASSUME ObjectsKept, NEW n \in Nodes,
         \/ Evaluate(n) \/ Export(n) \/ ExportNode(n) \/ EditScript(n)
         \/ \E pos \in 1 .. MaxValues : ReceiveSlot(n, pos)
         \/ \E id \in RequestIds : ReadResult(n, id),
         NEW o \in Nodes, running'[o].busy
  PROVE  \/ running'[o].sends = {}
         \/ running[o].busy /\ running'[o].sends = running[o].sends
<1>0. ObjectsTyped /\ SlotsAreWritten
  BY DEF ObjectsKept
<1>1. CASE Evaluate(n)
  <2>1. Runs(n, 0, 0, {}, NothingShown)
    BY <1>0, <1>1, EvaluateRuns
  <2>2. QED
    BY <2>1 DEF Runs
<1>2. CASE Export(n)
  <2>1. /\ running[n] \in Context
        /\ Runs(n, running[n].counter + 1, running[n].made + 1, running[n].sends, running[n].read)
    BY <1>0, <1>2, ExportRuns
  <2>2. running[n].busy = TRUE
    BY <2>1, ContextFields
  <2>3. QED
    BY <2>1, <2>2 DEF Runs
<1>3. CASE ExportNode(n) \/ EditScript(n)
  <2>1. running' = running
    BY <1>3 DEF ExportNode, EditScript
  <2>2. QED
    BY <2>1
<1>4. ASSUME NEW x, running[n] \in Context, Runs(n, running[n].counter, running[n].made, running[n].sends, x)
      PROVE  \/ running'[o].sends = {}
             \/ running[o].busy /\ running'[o].sends = running[o].sends
  <2>1. running[n].busy = TRUE
    BY <1>4, ContextFields
  <2>2. QED
    BY <1>4, <2>1 DEF Runs
<1>5. CASE \E pos \in 1 .. MaxValues : ReceiveSlot(n, pos)
  <2>1. PICK pos \in 1 .. MaxValues : ReceiveSlot(n, pos)
    BY <1>5
  <2>2. /\ running[n] \in Context
        /\ Runs(n, running[n].counter, running[n].made, running[n].sends,
                [pos |-> pos, id |-> -1, value |-> Last(slots[Home[n]][pos])])
    BY <1>0, <2>1, ReceiveSlotRuns
  <2>3. QED
    BY <1>4, <2>2
<1>6. CASE \E id \in RequestIds : ReadResult(n, id)
  <2>1. PICK id \in RequestIds : ReadResult(n, id)
    BY <1>6
  <2>2. PICK x : running[n] \in Context /\ Runs(n, running[n].counter, running[n].made, running[n].sends, x)
    BY <1>0, <2>1, ReadResultRuns
  <2>3. QED
    BY <1>4, <2>2
<1>7. QED
  BY <1>1, <1>2, <1>3, <1>5, <1>6

LEMMA NumbersOfScripts ==
  ASSUME ObjectsKept, NumbersKept, NEW n \in Nodes,
         \/ Evaluate(n) \/ Export(n) \/ ExportNode(n) \/ EditScript(n)
         \/ \E pos \in 1 .. MaxValues : ReceiveSlot(n, pos)
         \/ \E id \in RequestIds : ReadResult(n, id)
  PROVE  NumbersKept'
<1>1. UNCHANGED <<finished, wire, events, mail, taken, answered, requests>>
  BY DEF Evaluate, Export, ExportNode, EditScript, ReceiveSlot, ReadResult
<1>2. \A o \in Nodes : running'[o].busy =>
        \/ running'[o].sends = {}
        \/ running[o].busy /\ running'[o].sends = running[o].sends
  BY ScriptSends
<1>3. QED
  BY <1>1, <1>2, QuietEvaluations

LEMMA NumbersOfRestart ==
  ASSUME ObjectsKept, NumbersKept, NEW p \in Machines, RestartPeer(p)
  PROVE  NumbersKept'
<1>1. /\ Len(finished'[p]) = 0 /\ \A q \in Machines : q # p => finished'[q] = finished[q]
      /\ Len(events'[p]) = 0 /\ \A q \in Machines : q # p => events'[q] = events[q]
      /\ \A n \in Nodes : Home[n] = p => mail'[n] = << >> /\ running'[n] = Idle
      /\ \A n \in Nodes : Home[n] # p => mail'[n] = mail[n] /\ running'[n] = running[n]
      /\ wire' = {m \in wire : m.from # p /\ m.to.peer # p}
      /\ UNCHANGED <<values, requests, edits, answered, taken>>
  BY RestartFacts DEF ObjectsKept
<1>2. Idle.busy = FALSE /\ Len(<< >>) = 0
  BY EmptySeq DEF Idle
<1>3. \A n \in Nodes : mail'[n] = mail[n] \/ Len(mail'[n]) = 0
  BY <1>1, <1>2
<1>4. \A n \in Nodes : running'[n].busy => running[n].busy /\ running'[n].sends = running[n].sends
  BY <1>1, <1>2
<1>5. QED
  BY <1>1, <1>3, <1>4, QuietEvaluations

\* What is sent goes into the result.
LEMMA FinishSends ==
  ASSUME ObjectsKept, NEW n \in Nodes, NEW ok \in BOOLEAN, Finish(n, ok), NEW o \in Nodes, NEW m, Sends(o, m)'
  PROVE  Sends(o, m)
<1>. DEFINE p == Home[n]
<1>. DEFINE r == [node |-> n, ok |-> ok, sends |-> running[n].sends, read |-> running[n].read]
<1>0. /\ running[n].busy /\ finished' = [finished EXCEPT ![p] = Append(@, r)]
      /\ running' = [running EXCEPT ![n] = Idle]
  BY DEF Finish
<1>1. r \in Outcome /\ p \in Machines /\ finished \in [Machines -> Seq(Outcome)]
      /\ running \in [Nodes -> Context \cup {Idle}]
  <2>1. running[n] \in Context
    BY <1>0, ContextOf DEF ObjectsKept
  <2>2. running[n].sends \in SUBSET CallMessage /\ running[n].read \in Reading
    BY <2>1, ContextFields
  <2>3. r \in Outcome
    BY <2>2 DEF Outcome
  <2>4. QED
    BY <2>3, Homes DEF ObjectsKept, ObjectsTyped
<1>2. r.node = n /\ r.sends = running[n].sends /\ Idle.busy = FALSE
  BY DEF Idle
<1>. HIDE DEF r
<1>3. /\ \A q \in Machines : q # p => finished'[q] = finished[q]
      /\ Len(finished[p]) \in Nat /\ Len(finished'[p]) = Len(finished[p]) + 1
      /\ finished'[p][Len(finished[p]) + 1] = r
      /\ \A k \in 1 .. Len(finished[p]) : finished'[p][k] = finished[p][k]
  BY <1>0, <1>1, QueuesAppend
<1>4. CASE running'[o].busy /\ m \in running'[o].sends
  BY <1>0, <1>1, <1>2, <1>4 DEF Sends
<1>5. ASSUME NEW k \in 1 .. Len(finished'[Home[o]]),
             finished'[Home[o]][k].node = o, m \in finished'[Home[o]][k].sends
      PROVE  Sends(o, m)
  <2>1. CASE Home[o] # p
    BY <1>3, <1>5, <2>1, Homes DEF Sends
  <2>2. CASE Home[o] = p /\ k \in 1 .. Len(finished[p])
    BY <1>3, <1>5, <2>2 DEF Sends
  <2>3. CASE Home[o] = p /\ k = Len(finished[p]) + 1
    BY <1>0, <1>2, <1>3, <1>5, <2>3 DEF Sends
  <2>4. QED
    BY <1>3, <1>5, <2>1, <2>2, <2>3
<1>6. QED
  BY <1>4, <1>5 DEF Sends

LEMMA NumbersOfFinish ==
  ASSUME ObjectsKept, NumbersKept, NEW n \in Nodes, NEW ok \in BOOLEAN, Finish(n, ok)
  PROVE  NumbersKept'
<1>1. UNCHANGED <<wire, events, mail, taken, answered, requests>>
  BY DEF Finish
<1>2. \A o \in Nodes, m \in CallMessage : Sends(o, m)' => Sends(o, m)
  BY FinishSends
<1>3. \A p \in Machines : Follows(p)
  BY <1>1, FollowsSame DEF ObjectsKept
<1>4. QED
  BY <1>1, <1>2, <1>3, NumbersStill

LEMMA NumbersOfTakeMail ==
  ASSUME ObjectsKept, NumbersKept, NEW n \in Nodes, TakeMail(n)
  PROVE  NumbersKept'
<1>. DEFINE x == Head(mail[n])
<1>0. /\ RequestsAreOwn /\ RequestsAreUsed /\ NumbersAreApart
      /\ SentOnce /\ OnWireOnce /\ WaitsOnce /\ AnsweredOnce /\ MailOnce
  BY DEF NumbersKept
<1>1. /\ mail[n] # << >> /\ mail' = [mail EXCEPT ![n] = Tail(@)]
      /\ taken' = [taken EXCEPT ![n] = Append(@, x)]
      /\ UNCHANGED <<running, finished, wire, events, answered, requests>>
  BY DEF TakeMail
<1>2. mail \in [Nodes -> Seq(RequestIds)] /\ taken \in [Nodes -> Seq(RequestIds)]
  BY DEF ObjectsKept, ObjectsTyped
<1>3. /\ \A o \in Nodes : o # n => mail'[o] = mail[o]
      /\ Len(mail[n]) \in Nat \ {0} /\ Len(mail'[n]) = Len(mail[n]) - 1
      /\ x = mail[n][1] /\ x \in RequestIds
      /\ \A k \in 1 .. Len(mail[n]) - 1 : k + 1 \in 1 .. Len(mail[n]) /\ mail'[n][k] = mail[n][k + 1]
  BY <1>1, <1>2, QueuesTail
<1>. HIDE DEF x
<1>4. /\ \A o \in Nodes : o # n => taken'[o] = taken[o]
      /\ Len(taken[n]) \in Nat /\ Len(taken'[n]) = Len(taken[n]) + 1 /\ taken'[n][Len(taken[n]) + 1] = x
      /\ \A k \in 1 .. Len(taken[n]) : taken'[n][k] = taken[n][k]
  BY <1>1, <1>2, <1>3, QueuesAppend
<1>5. Holds(mail[n], x) /\ \A id : Holds(mail'[n], id) => Holds(mail[n], id)
  <2>1. Holds(mail[n], x)
    <3>1. 1 \in 1 .. Len(mail[n])
      BY <1>3
    <3>2. QED
      BY <1>3, <3>1 DEF Holds
  <2>2. ASSUME NEW id, Holds(mail'[n], id) PROVE Holds(mail[n], id)
    BY <1>3, <2>2 DEF Holds
  <2>3. QED
    BY <2>1, <2>2
<1>6. \A id : Holds(taken'[n], id) => id = x \/ Holds(taken[n], id)
  <2>1. ASSUME NEW id, NEW k \in 1 .. Len(taken'[n]), taken'[n][k] = id PROVE id = x \/ Holds(taken[n], id)
    <3>1. k \in 1 .. Len(taken[n]) \/ k = Len(taken[n]) + 1
      BY <1>4, <2>1
    <3>2. QED
      BY <1>4, <2>1, <3>1 DEF Holds
  <2>2. QED
    BY <2>1 DEF Holds
<1>7. ~ Holds(taken[n], x)
  BY <1>0, <1>3, <1>5 DEF MailOnce
<1>8. \A k \in 1 .. Len(mail'[n]) : mail'[n][k] # x
  <2>1. ASSUME NEW k \in 1 .. Len(mail'[n]), mail'[n][k] = x PROVE FALSE
    <3>1. k + 1 \in 1 .. Len(mail[n]) /\ mail[n][k + 1] = mail[n][1] /\ 1 \in 1 .. Len(mail[n])
      BY <1>3, <2>1
    <3>2. k + 1 = 1
      BY <1>0, <3>1 DEF MailOnce
    <3>3. QED
      BY <3>2
  <2>2. QED
    BY <2>1
<1>9. MailOnce'
  <2>1. ASSUME NEW o \in Nodes
        PROVE  /\ \A j, k \in 1 .. Len(taken'[o]) : taken'[o][j] = taken'[o][k] => j = k
               /\ \A j, k \in 1 .. Len(mail'[o]) : mail'[o][j] = mail'[o][k] => j = k
               /\ \A id \in RequestIds : ~ (Holds(taken'[o], id) /\ Holds(mail'[o], id))
    <3>0. /\ \A j, k \in 1 .. Len(taken[o]) : taken[o][j] = taken[o][k] => j = k
          /\ \A j, k \in 1 .. Len(mail[o]) : mail[o][j] = mail[o][k] => j = k
          /\ \A id \in RequestIds : ~ (Holds(taken[o], id) /\ Holds(mail[o], id))
      BY <1>0 DEF MailOnce
    <3>1. CASE o # n
      BY <1>3, <1>4, <3>0, <3>1
    <3>2. CASE o = n
      <4>1. ASSUME NEW j \in 1 .. Len(taken'[n]), NEW k \in 1 .. Len(taken'[n]), taken'[n][j] = taken'[n][k]
            PROVE  j = k
        <5>1. \A i \in 1 .. Len(taken[n]) : taken[n][i] # x
          BY <1>7 DEF Holds
        <5>2. (j \in 1 .. Len(taken[n]) \/ j = Len(taken[n]) + 1) /\ (k \in 1 .. Len(taken[n]) \/ k = Len(taken[n]) + 1)
          BY <1>4, <4>1
        <5>3. QED
          BY <1>4, <3>0, <3>2, <4>1, <5>1, <5>2
      <4>2. ASSUME NEW j \in 1 .. Len(mail'[n]), NEW k \in 1 .. Len(mail'[n]), mail'[n][j] = mail'[n][k]
            PROVE  j = k
        <5>1. /\ j + 1 \in 1 .. Len(mail[n]) /\ k + 1 \in 1 .. Len(mail[n])
              /\ mail[n][j + 1] = mail[n][k + 1]
          BY <1>3, <4>2
        <5>2. j + 1 = k + 1
          BY <3>0, <3>2, <5>1
        <5>3. QED
          BY <5>2
      <4>3. ASSUME NEW id \in RequestIds, Holds(taken'[n], id), Holds(mail'[n], id) PROVE FALSE
        <5>1. id # x
          BY <1>8, <4>3 DEF Holds
        <5>2. Holds(taken[n], id) /\ Holds(mail[n], id)
          BY <1>5, <1>6, <4>3, <5>1
        <5>3. QED
          BY <3>0, <3>2, <5>2
      <4>4. QED
        BY <3>2, <4>1, <4>2, <4>3
    <3>3. QED
      BY <3>1, <3>2
  <2>2. QED
    BY <2>1 DEF MailOnce, Holds
<1>10. \A o \in Nodes : \A m : Sends(o, m)' <=> Sends(o, m)
  BY <1>1, SendsSame
<1>11. /\ \A id \in RequestIds : (Sent(id)' => Sent(id)) /\ (OnWire(id)' => OnWire(id)) /\ (AtOwner(id)' => AtOwner(id))
       /\ \A id \in RequestIds : Arrived(id)' => Arrived(id)
  <2>1. ASSUME NEW id \in RequestIds, Sent(id)' PROVE Sent(id)
    BY <1>10, <2>1 DEF Sent
  <2>2. ASSUME NEW id \in RequestIds, OnWire(id)' PROVE OnWire(id)
    BY <1>1, <2>2 DEF OnWire
  <2>3. ASSUME NEW id \in RequestIds, AtOwner(id)' PROVE AtOwner(id)
    BY <1>1, <2>3 DEF AtOwner, Waits
  <2>4. ASSUME NEW id \in RequestIds, Arrived(id)' PROVE Arrived(id)
    <3>1. CASE \E a \in answered' : a.id = id
      BY <1>1, <3>1 DEF Arrived
    <3>2. ASSUME NEW o \in Nodes, Holds(taken'[o], id) \/ Holds(mail'[o], id) PROVE Arrived(id)
      <4>1. Holds(taken[o], id) \/ Holds(mail[o], id)
        BY <1>3, <1>4, <1>5, <1>6, <3>2
      <4>2. QED
        BY <4>1 DEF Arrived
    <3>3. QED
      BY <2>4, <3>1, <3>2 DEF Arrived, Holds
  <2>5. QED
    BY <2>1, <2>2, <2>3, <2>4
<1>12. Stay(-1) /\ -1 \notin RequestIds
  <2>1. Stay(-1)
    BY <1>11 DEF Stay
  <2>2. -1 \notin RequestIds
    BY OcapnAssumption
  <2>3. QED
    BY <2>1, <2>2
<1>13. NumbersAreApart' /\ RequestsAreUsed'
  BY <1>0, <1>1, <1>12, ApartAfter, UsedAfter
<1>14. RequestsAreOwn' /\ SentOnce' /\ OnWireOnce' /\ AnsweredOnce' /\ WaitsOnce'
  <2>1. RequestsAreOwn' /\ SentOnce'
    BY <1>0, <1>1, <1>10 DEF RequestsAreOwn, SentOnce
  <2>2. OnWireOnce' /\ AnsweredOnce' /\ WaitsOnce'
    BY <1>0, <1>1 DEF OnWireOnce, AnsweredOnce, WaitsOnce
  <2>3. QED
    BY <2>1, <2>2
<1>15. QED
  BY <1>9, <1>13, <1>14 DEF NumbersKept

LEMMA NumbersOfRequest ==
  ASSUME ObjectsKept, NumbersKept, NEW n \in Nodes, NEW kind \in {"call", "only"}, NEW method \in {"get", "set"},
         NEW to \in Swiss, Request(n, kind, method, to)
  PROVE  NumbersKept'
<1>0. /\ RequestsAreOwn /\ RequestsAreUsed /\ NumbersAreApart
      /\ SentOnce /\ OnWireOnce /\ WaitsOnce /\ AnsweredOnce /\ MailOnce
  BY DEF NumbersKept
<1>. PICK x \in Unused : AsksAs(n, kind, method, to, x)
  BY RequestRuns DEF ObjectsKept
<1>1. /\ running[n] \in Context /\ running[n].sends = {}
      /\ Called(n, kind, method, to, x) \in CallMessage
      /\ requests' = [requests EXCEPT ![n] = @ \cup {x}]
      /\ Runs(n, running[n].counter, running[n].made, {Called(n, kind, method, to, x)}, running[n].read)
  BY DEF AsksAs
<1>. DEFINE new == Called(n, kind, method, to, x)
<1>2. new.id = x /\ x \in RequestIds
  BY DEF Called, Unused
<1>. HIDE DEF new
<1>3. /\ running[n].busy /\ running'[n].busy /\ running'[n].sends = {new}
      /\ \A o \in Nodes : o # n => running'[o] = running[o]
  <2>1. running[n].busy = TRUE
    BY <1>1, ContextFields
  <2>2. QED
    BY <1>1, <2>1 DEF Runs, new
<1>4. UNCHANGED <<finished, wire, events, mail, answered, taken>>
  BY DEF Request
<1>5. /\ \A o \in Nodes : o # n => requests'[o] = requests[o]
      /\ requests'[n] = requests[n] \cup {x}
  BY <1>1 DEF ObjectsKept, ObjectsTyped
<1>6. /\ \A m : ~ Sends(n, m)
      /\ \A m : Sends(n, m)' <=> m = new
      /\ \A o \in Nodes : o # n => \A m : Sends(o, m)' <=> Sends(o, m)
  <2>1. \A m : ~ Sends(n, m)
    BY <1>1, <1>3, SendsOfRunning DEF ObjectsKept
  <2>2. \A m : Sends(n, m)' <=> m = new
    BY <1>3, <1>4, <2>1 DEF Sends
  <2>3. ASSUME NEW o \in Nodes, o # n PROVE \A m : Sends(o, m)' <=> Sends(o, m)
    BY <1>3, <1>4, <2>3 DEF Sends
  <2>4. QED
    BY <2>1, <2>2, <2>3
<1>7. x \in Unused /\ ~ Sent(x) /\ ~ OnWire(x) /\ ~ AtOwner(x) /\ ~ Arrived(x)
  BY <1>0, <1>2 DEF RequestsAreUsed
<1>8. /\ \A id : (OnWire(id)' <=> OnWire(id)) /\ (AtOwner(id)' <=> AtOwner(id)) /\ (Arrived(id)' <=> Arrived(id))
      /\ \A id : Sent(id)' => Sent(id) \/ id = x
  <2>1. \A id : (OnWire(id)' <=> OnWire(id)) /\ (AtOwner(id)' <=> AtOwner(id)) /\ (Arrived(id)' <=> Arrived(id))
    BY <1>4 DEF OnWire, AtOwner, Waits, Arrived
  <2>2. ASSUME NEW id, NEW o \in Nodes, NEW m \in CallMessage, Sends(o, m)', m.id = id PROVE Sent(id) \/ id = x
    <3>1. CASE o = n
      BY <1>2, <1>6, <2>2, <3>1
    <3>2. CASE o # n
      BY <1>6, <2>2, <3>2 DEF Sent
    <3>3. QED
      BY <3>1, <3>2
  <2>3. QED
    BY <2>1, <2>2 DEF Sent
<1>9. NumbersAreApart'
  <2>1. Stay(x)
    BY <1>8 DEF Stay
  <2>2. Apart(x)'
    BY <1>7, <1>8 DEF Apart
  <2>3. QED
    BY <1>0, <2>1, <2>2, ApartAfter
<1>10. RequestsAreUsed'
  <2>1. ASSUME NEW id, id \in Unused' PROVE id \in Unused /\ id # x
    <3>1. id \in RequestIds /\ \A o \in Nodes : id \notin requests'[o]
      BY <2>1 DEF Unused
    <3>2. \A o \in Nodes : id \notin requests[o]
      BY <1>5, <3>1
    <3>3. id # x
      BY <1>5, <3>1
    <3>4. QED
      BY <3>1, <3>2, <3>3 DEF Unused
  <2>2. QED
    BY <1>0, <1>8, <2>1 DEF RequestsAreUsed
<1>11. RequestsAreOwn'
  <2>0. \A o \in Nodes : x \notin requests[o]
    BY <1>7 DEF Unused
  <2>1. ASSUME NEW o \in Nodes, NEW q \in Nodes, o # q PROVE requests'[o] \cap requests'[q] = {}
    <3>1. requests[o] \cap requests[q] = {}
      BY <1>0, <2>1 DEF RequestsAreOwn
    <3>2. x \notin requests[o] /\ x \notin requests[q]
      BY <2>0
    <3>3. CASE o = n
      BY <1>5, <2>1, <3>1, <3>2, <3>3
    <3>4. CASE q = n
      BY <1>5, <2>1, <3>1, <3>2, <3>4
    <3>5. CASE o # n /\ q # n
      BY <1>5, <3>1, <3>5
    <3>6. QED
      BY <3>3, <3>4, <3>5
  <2>2. ASSUME NEW o \in Nodes, NEW m \in CallMessage, Sends(o, m)' PROVE m.id \in requests'[o]
    <3>1. CASE o = n
      BY <1>2, <1>5, <1>6, <2>2, <3>1
    <3>2. CASE o # n
      BY <1>0, <1>5, <1>6, <2>2, <3>2 DEF RequestsAreOwn
    <3>3. QED
      BY <3>1, <3>2
  <2>3. QED
    BY <2>1, <2>2 DEF RequestsAreOwn
<1>12. SentOnce'
  <2>1. ASSUME NEW o \in Nodes, NEW m \in CallMessage, NEW l \in CallMessage, Sends(o, m)', Sends(o, l)' PROVE m = l
    BY <1>0, <1>6, <2>1 DEF SentOnce
  <2>2. QED
    BY <2>1 DEF SentOnce
<1>13. OnWireOnce' /\ AnsweredOnce' /\ WaitsOnce' /\ MailOnce'
  BY <1>0, <1>4 DEF OnWireOnce, AnsweredOnce, WaitsOnce, MailOnce, Holds
<1>14. QED
  BY <1>9, <1>10, <1>11, <1>12, <1>13 DEF NumbersKept

\* A result that is applied sends no more.
LEMMA ApplySends ==
  ASSUME ObjectsKept, NEW p \in Machines, Apply(p)
  PROVE  \A n \in Nodes : \A m : Sends(n, m)' => Sends(n, m)
<1>. DEFINE r == finished[p][1]
<1>1. /\ Head(finished[p]) = r /\ 1 \in 1 .. Len(finished[p])
      /\ \A q \in Machines : q # p => finished'[q] = finished[q]
      /\ \A k \in 1 .. Len(finished'[p]) : k + 1 \in 1 .. Len(finished[p]) /\ finished'[p][k] = finished[p][k + 1]
  BY ApplyKeeps
<1>2. /\ wire' = wire \/ (r.ok /\ wire' = wire \cup r.sends)
      /\ UNCHANGED <<running, events, mail, taken, answered, requests>>
  BY <1>1 DEF Apply
<1>3. ASSUME NEW n \in Nodes, NEW m, Sends(n, m)' PROVE Sends(n, m)
  <2>1. CASE running'[n].busy /\ m \in running'[n].sends
    BY <1>2, <2>1 DEF Sends
  <2>2. ASSUME NEW k \in 1 .. Len(finished'[Home[n]]),
               finished'[Home[n]][k].node = n, m \in finished'[Home[n]][k].sends
        PROVE  Sends(n, m)
    <3>1. CASE Home[n] = p
      <4>1. k + 1 \in 1 .. Len(finished[p]) /\ finished'[p][k] = finished[p][k + 1]
        BY <1>1, <2>2, <3>1
      <4>2. QED
        BY <2>2, <3>1, <4>1 DEF Sends
    <3>2. CASE Home[n] # p
      BY <1>1, <2>2, <3>2, Homes DEF Sends
    <3>3. QED
      BY <3>1, <3>2
  <2>3. QED
    BY <1>3, <2>1, <2>2 DEF Sends
<1>4. QED
  BY <1>3

LEMMA NumbersOfApply ==
  ASSUME ObjectsKept, NumbersKept, NEW p \in Machines, Apply(p)
  PROVE  NumbersKept'
<1>. DEFINE r == finished[p][1]
<1>0. /\ RequestsAreOwn /\ RequestsAreUsed /\ NumbersAreApart
      /\ SentOnce /\ OnWireOnce /\ WaitsOnce /\ AnsweredOnce /\ MailOnce
  BY DEF NumbersKept
<1>1. /\ Head(finished[p]) = r /\ 1 \in 1 .. Len(finished[p])
      /\ \A q \in Machines : q # p => finished'[q] = finished[q]
      /\ \A k \in 1 .. Len(finished'[p]) : k + 1 \in 1 .. Len(finished[p]) /\ finished'[p][k] = finished[p][k + 1]
  BY ApplyKeeps
<1>2. /\ wire' = wire \/ (r.ok /\ wire' = wire \cup r.sends)
      /\ UNCHANGED <<running, events, mail, taken, answered, requests>>
  BY <1>1 DEF Apply
<1>. PICK o \in Nodes : o = r.node
  BY <1>1, SendsOfResult DEF ObjectsKept
<1>3. \A m : Sends(o, m) <=> m \in r.sends
  BY <1>1, SendsOfResult DEF ObjectsKept
<1>4. \A n \in Nodes : \A m : Sends(n, m)' => Sends(n, m)
  BY ApplySends
<1>5. \A m : ~ Sends(o, m)'
  <2>1. Home[o] = p /\ ~ running[o].busy
        /\ \A j \in 1 .. Len(finished[p]) : finished[p][j].node = o => j = 1
    BY <1>1 DEF ObjectsKept, OneAtATime
  <2>2. ASSUME NEW k \in 1 .. Len(finished'[p]), finished'[p][k].node = o PROVE FALSE
    <3>1. k + 1 = 1
      BY <1>1, <2>1, <2>2
    <3>2. QED
      BY <3>1
  <2>3. ~ running'[o].busy
    BY <1>2, <2>1
  <2>4. ~ \E k \in 1 .. Len(finished'[Home[o]]) : finished'[Home[o]][k].node = o
    BY <2>1, <2>2
  <2>. HIDE DEF r
  <2>5. QED
    BY <2>3, <2>4 DEF Sends
<1>. HIDE DEF r
<1>6. \A q \in Machines : Follows(q)
  BY <1>2, FollowsSame DEF ObjectsKept
<1>7. CASE wire' = wire
  BY <1>2, <1>4, <1>6, <1>7, NumbersStill
<1>8. CASE wire' # wire
  <2>1. wire' = wire \cup r.sends
    BY <1>2, <1>8
  <2>2. PICK new \in r.sends : TRUE
    BY <1>8, <2>1
  <2>3. new \in CallMessage /\ Sends(o, new)
    BY <1>3, SendsTyped DEF ObjectsKept
  <2>4. r.sends = {new}
    <3>1. ASSUME NEW m \in r.sends PROVE m = new
      BY <1>0, <1>3, <2>3, SendsTyped DEF SentOnce, ObjectsKept
    <3>2. QED
      BY <2>2, <3>1
  <2>. DEFINE x == new.id
  <2>5. x \in RequestIds /\ Sent(x) /\ x \in requests[o]
    <3>1. x \in RequestIds
      BY <2>3 DEF CallMessage
    <3>2. Sent(x)
      BY <1>3, <2>3 DEF Sent
    <3>3. x \in requests[o]
      BY <1>0, <1>3, <2>3 DEF RequestsAreOwn
    <3>4. QED
      BY <3>1, <3>2, <3>3
  <2>6. ~ OnWire(x) /\ ~ AtOwner(x) /\ ~ Arrived(x)
    BY <1>0, <2>5 DEF NumbersAreApart, Apart
  <2>7. ~ Sent(x)'
    <3>1. ASSUME NEW n \in Nodes, NEW m \in CallMessage, Sends(n, m)', m.id = x PROVE FALSE
      <4>0. n # o
        BY <1>5, <3>1
      <4>1. x \in requests[n]
        <5>1. Sends(n, m)
          BY <1>4, <3>1
        <5>2. m.id \in requests[n]
          BY <1>0, <5>1 DEF RequestsAreOwn
        <5>3. QED
          BY <3>1, <5>2
      <4>2. QED
        BY <1>0, <1>3, <2>5, <4>0, <4>1 DEF RequestsAreOwn
    <3>2. QED
      BY <3>1 DEF Sent
  <2>8. /\ \A id : (AtOwner(id)' <=> AtOwner(id)) /\ (Arrived(id)' <=> Arrived(id))
        /\ \A id : Sent(id)' => Sent(id)
        /\ \A id : OnWire(id)' => OnWire(id) \/ id = x
    <3>1. \A id : (AtOwner(id)' <=> AtOwner(id)) /\ (Arrived(id)' <=> Arrived(id))
      BY <1>2 DEF AtOwner, Waits, Arrived, Holds
    <3>2. \A id : Sent(id)' => Sent(id)
      BY <1>4 DEF Sent
    <3>3. \A id : OnWire(id)' => OnWire(id) \/ id = x
      BY <2>1, <2>4 DEF OnWire
    <3>4. QED
      BY <3>1, <3>2, <3>3
  <2>9. NumbersAreApart'
    <3>1. Stay(x)
      BY <2>8 DEF Stay
    <3>2. Apart(x)'
      BY <2>6, <2>7, <2>8 DEF Apart
    <3>3. QED
      BY <1>0, <3>1, <3>2, ApartAfter
  <2>10. RequestsAreUsed'
    <3>1. Stay(x)
      BY <2>8 DEF Stay
    <3>2. x \notin Unused
      BY <1>0, <2>5 DEF RequestsAreUsed
    <3>3. QED
      BY <1>0, <1>2, <3>1, <3>2, UsedAfter
  <2>11. RequestsAreOwn' /\ SentOnce'
    BY <1>0, <1>2, <1>4 DEF RequestsAreOwn, SentOnce
  <2>12. OnWireOnce'
    <3>1. \A m \in wire : m.id # x
      BY <2>6 DEF OnWire
    <3>2. QED
      BY <1>0, <2>1, <2>4, <3>1 DEF OnWireOnce
  <2>13. AnsweredOnce' /\ WaitsOnce' /\ MailOnce'
    <3>1. AnsweredOnce'
      BY <1>0, <1>2 DEF AnsweredOnce
    <3>2. WaitsOnce'
      BY <1>0, <1>2 DEF WaitsOnce
    <3>3. MailOnce'
      BY <1>0, <1>2 DEF MailOnce, Holds
    <3>4. QED
      BY <3>1, <3>2, <3>3
  <2>14. QED
    BY <2>9, <2>10, <2>11, <2>12, <2>13 DEF NumbersKept
<1>9. QED
  BY <1>7, <1>8

LEMMA NumbersOfServeCall ==
  ASSUME ObjectsKept, NumbersKept, NEW p \in Machines, NEW m \in wire, ServeCall(p, m)
  PROVE  NumbersKept'
<1>0. /\ RequestsAreOwn /\ RequestsAreUsed /\ NumbersAreApart
      /\ SentOnce /\ OnWireOnce /\ WaitsOnce /\ AnsweredOnce /\ MailOnce
  BY DEF NumbersKept
<1>1. /\ m \in CallMessage /\ m.kind = "call" /\ m.to.peer = p
      /\ [m EXCEPT !.kind = "result", !.value = Answer(p, m)] =
           [kind |-> "result", from |-> m.from, to |-> m.to, method |-> m.method,
            value |-> Answer(p, m), id |-> m.id, known |-> m.known]
  BY ServedCall DEF ObjectsKept
<1>2. \E new : new.id = m.id /\ wire' \subseteq (wire \ {m}) \cup {new}
  <2>1. [m EXCEPT !.kind = "result", !.value = Answer(p, m)].id = m.id
    BY <1>1
  <2>2. wire' \subseteq (wire \ {m}) \cup {[m EXCEPT !.kind = "result", !.value = Answer(p, m)]}
    BY DEF ServeCall
  <2>3. QED
    BY <2>1, <2>2
<1>3. PICK new : new.id = m.id /\ wire' \subseteq (wire \ {m}) \cup {new}
  BY <1>2
<1>4. events' = Told(p, m) /\ UNCHANGED <<mail, running, finished, requests, answered, taken>>
  BY DEF ServeCall
<1>5. \A q \in Machines : Follows(q)
  <2>1. /\ \A q \in Machines : q # p => events'[q] = events[q]
        /\ Len(events[p]) \in Nat /\ Len(events'[p]) = Len(events[p]) + 1
        /\ events'[p][Len(events[p]) + 1] = m
        /\ \A k \in 1 .. Len(events[p]) : events'[p][k] = events[p][k]
    BY <1>1, <1>4, EventsTold DEF ObjectsKept
  <2>2. \A q \in Machines : q # p => Follows(q)
    BY <2>1, FollowsSame DEF ObjectsKept
  <2>3. Follows(p)
    <3>1. ASSUME NEW k \in 1 .. Len(events'[p])
          PROVE  \/ events'[p][k].kind = "call"
                 \/ k + 0 \in 1 .. Len(events[p]) /\ events'[p][k] = events[p][k + 0]
      <4>1. k \in 1 .. Len(events[p]) \/ k = Len(events[p]) + 1
        BY <2>1, <3>1
      <4>2. QED
        BY <1>1, <2>1, <4>1
    <3>2. QED
      BY <3>1 DEF Follows
  <2>4. QED
    BY <2>2, <2>3
<1>6. \A n \in Nodes : \A l : Sends(n, l)' <=> Sends(n, l)
  BY <1>4, SendsSame
<1>7. /\ \A id : AtOwner(id)' => AtOwner(id)
      /\ \A id : Sent(id)' => Sent(id)
      /\ \A id : OnWire(id)' => OnWire(id)
      /\ \A id : Arrived(id)' => Arrived(id)
      /\ WaitsOnce'
  <2>1. /\ \A id : AtOwner(id)' => AtOwner(id)
        /\ WaitsOnce'
    BY <1>0, <1>5, WaitsAfter
  <2>2. \A id : Sent(id)' => Sent(id)
    BY <1>6 DEF Sent
  <2>3. \A id : OnWire(id)' => OnWire(id)
    BY <1>3 DEF OnWire
  <2>4. \A id : Arrived(id)' => Arrived(id)
    BY <1>4 DEF Arrived, Holds
  <2>5. QED
    BY <2>1, <2>2, <2>3, <2>4
<1>8. Stay(-1) /\ -1 \notin RequestIds
  <2>1. -1 \notin RequestIds
    BY OcapnAssumption
  <2>2. QED
    BY <1>7, <2>1 DEF Stay
<1>9. NumbersAreApart' /\ RequestsAreUsed'
  BY <1>0, <1>4, <1>8, ApartAfter, UsedAfter
<1>10. RequestsAreOwn' /\ SentOnce'
  BY <1>0, <1>4, <1>6 DEF RequestsAreOwn, SentOnce
<1>11. OnWireOnce'
  <2>1. \A l \in wire \ {m} : l.id # m.id
    BY <1>0 DEF OnWireOnce
  <2>2. QED
    BY <1>0, <1>3, <2>1 DEF OnWireOnce
<1>12. AnsweredOnce' /\ MailOnce'
  BY <1>0, <1>4 DEF AnsweredOnce, MailOnce, Holds
<1>13. QED
  BY <1>7, <1>9, <1>10, <1>11, <1>12 DEF NumbersKept

LEMMA ToldWaits ==
  ASSUME ObjectsKept, NEW p \in Machines, NEW m \in CallMessage,
         IF m.kind = "result" THEN m.from = p ELSE m.to.peer = p, events' = Told(p, m),
         NEW q \in Machines, NEW l, Waits(q, l)'
  PROVE  Waits(q, l) \/ (l = m /\ m.kind # "call")
<1>1. /\ \A o \in Machines : o # p => events'[o] = events[o]
      /\ Len(events[p]) \in Nat /\ Len(events'[p]) = Len(events[p]) + 1
      /\ events'[p][Len(events[p]) + 1] = m
      /\ \A k \in 1 .. Len(events[p]) : events'[p][k] = events[p][k]
  BY EventsTold DEF ObjectsKept
<1>2. PICK k \in 1 .. Len(events'[q]) : events'[q][k] = l /\ l.kind # "call"
  BY DEF Waits
<1>3. CASE q # p
  BY <1>1, <1>2, <1>3 DEF Waits
<1>4. CASE q = p
  <2>1. k \in 1 .. Len(events[p]) \/ k = Len(events[p]) + 1
    BY <1>1, <1>2, <1>4
  <2>2. QED
    BY <1>1, <1>2, <1>4, <2>1 DEF Waits
<1>5. QED
  BY <1>3, <1>4

LEMMA NumbersOfHandOver ==
  ASSUME ObjectsKept, NumbersKept, NEW p \in Machines, NEW m \in wire, HandOver(p, m)
  PROVE  NumbersKept'
<1>0. /\ RequestsAreOwn /\ RequestsAreUsed /\ NumbersAreApart
      /\ SentOnce /\ OnWireOnce /\ WaitsOnce /\ AnsweredOnce /\ MailOnce
  BY DEF NumbersKept
<1>1. m \in CallMessage /\ m.kind # "call" /\ IF m.kind = "result" THEN m.from = p ELSE m.to.peer = p
  BY DEF ObjectsKept, ObjectsTyped, HandOver
<1>. DEFINE x == m.id
<1>2. x \in RequestIds /\ OnWire(x)
  BY <1>1 DEF CallMessage, OnWire
<1>3. /\ wire' = wire \ {m} /\ events' = Told(p, m)
      /\ UNCHANGED <<mail, running, finished, requests, answered, taken>>
  BY DEF HandOver
<1>4. /\ \A q \in Machines : q # p => events'[q] = events[q]
      /\ Len(events[p]) \in Nat /\ Len(events'[p]) = Len(events[p]) + 1
      /\ events'[p][Len(events[p]) + 1] = m
      /\ \A k \in 1 .. Len(events[p]) : events'[p][k] = events[p][k]
  BY <1>1, <1>3, EventsTold DEF ObjectsKept
<1>5. \A n \in Nodes : \A l : Sends(n, l)' <=> Sends(n, l)
  BY <1>3, SendsSame
<1>6. ~ Sent(x) /\ ~ AtOwner(x) /\ ~ Arrived(x)
  BY <1>0, <1>2 DEF NumbersAreApart, Apart
<1>7. \A q \in Machines : \A l : Waits(q, l)' => Waits(q, l) \/ l = m
  BY <1>1, <1>3, ToldWaits
<1>8. /\ \A id : AtOwner(id)' => AtOwner(id) \/ id = x
      /\ \A id : Sent(id)' => Sent(id)
      /\ \A id : OnWire(id)' => OnWire(id) /\ id # x
      /\ \A id : Arrived(id)' => Arrived(id)
  <2>1. \A id : AtOwner(id)' => AtOwner(id) \/ id = x
    BY <1>7 DEF AtOwner
  <2>2. \A id : Sent(id)' => Sent(id)
    BY <1>5 DEF Sent
  <2>3. \A id : OnWire(id)' => OnWire(id) /\ id # x
    BY <1>0, <1>3 DEF OnWire, OnWireOnce
  <2>4. \A id : Arrived(id)' => Arrived(id)
    BY <1>3 DEF Arrived, Holds
  <2>5. QED
    BY <2>1, <2>2, <2>3, <2>4
<1>9. Stay(x)
  BY <1>8 DEF Stay
<1>10. NumbersAreApart'
  <2>1. Apart(x)'
    BY <1>6, <1>8 DEF Apart
  <2>2. QED
    BY <1>0, <1>9, <2>1, ApartAfter
<1>11. RequestsAreUsed'
  <2>1. x \notin Unused
    BY <1>0, <1>2 DEF RequestsAreUsed
  <2>2. QED
    BY <1>0, <1>3, <1>9, <2>1, UsedAfter
<1>12. RequestsAreOwn' /\ SentOnce'
  BY <1>0, <1>3, <1>5 DEF RequestsAreOwn, SentOnce
<1>13. WaitsOnce'
  <2>0. \A q \in Machines : \A k \in 1 .. Len(events[q]) : events[q][k].kind # "call" => events[q][k].id # x
    <3>1. ASSUME NEW q \in Machines, NEW k \in 1 .. Len(events[q]), events[q][k].kind # "call" PROVE events[q][k].id # x
      <4>1. events[q] \in Seq(CallMessage)
        BY DEF ObjectsKept, ObjectsTyped
      <4>2. events[q][k] \in CallMessage
        BY <4>1, ElementOfSeq
      <4>3. QED
        BY <1>6, <3>1, <4>2 DEF AtOwner, Waits
    <3>2. QED
      BY <3>1
  <2>1. ASSUME NEW q \in Machines, NEW o \in Machines,
               NEW k \in 1 .. Len(events'[q]), NEW j \in 1 .. Len(events'[o]),
               events'[q][k].kind # "call", events'[o][j].kind # "call",
               events'[q][k].id = events'[o][j].id
        PROVE  q = o /\ k = j
    <3>1. \/ k \in 1 .. Len(events[q]) /\ events'[q][k] = events[q][k]
          \/ q = p /\ k = Len(events[p]) + 1 /\ events'[q][k] = m
      BY <1>4, <2>1
    <3>2. \/ j \in 1 .. Len(events[o]) /\ events'[o][j] = events[o][j]
          \/ o = p /\ j = Len(events[p]) + 1 /\ events'[o][j] = m
      BY <1>4, <2>1
    <3>3. CASE /\ k \in 1 .. Len(events[q]) /\ events'[q][k] = events[q][k]
               /\ j \in 1 .. Len(events[o]) /\ events'[o][j] = events[o][j]
      <4>1. /\ events[q][k].kind # "call" /\ events[o][j].kind # "call"
            /\ events[q][k].id = events[o][j].id
        BY <2>1, <3>3
      <4>2. QED
        BY <1>0, <3>3, <4>1 DEF WaitsOnce
    <3>4. CASE events'[q][k] = m /\ j \in 1 .. Len(events[o]) /\ events'[o][j] = events[o][j]
      BY <2>0, <2>1, <3>4
    <3>5. CASE events'[o][j] = m /\ k \in 1 .. Len(events[q]) /\ events'[q][k] = events[q][k]
      BY <2>0, <2>1, <3>5
    <3>6. QED
      BY <3>1, <3>2, <3>3, <3>4, <3>5
  <2>2. QED
    BY <2>1 DEF WaitsOnce
<1>14. OnWireOnce' /\ AnsweredOnce' /\ MailOnce'
  BY <1>0, <1>3 DEF OnWireOnce, AnsweredOnce, MailOnce, Holds
<1>15. QED
  BY <1>10, <1>11, <1>12, <1>13, <1>14 DEF NumbersKept

\* The first event is taken: it is nowhere else.
LEMMA FirstEvent ==
  ASSUME ObjectsKept, NumbersKept, NEW p \in Machines, events[p] # << >>,
         events' = [events EXCEPT ![p] = Tail(@)], NEW m, m = Head(events[p]), m.kind # "call"
  PROVE  /\ m \in CallMessage /\ m.id \in RequestIds
         /\ Waits(p, m) /\ AtOwner(m.id) /\ ~ AtOwner(m.id)' /\ ~ Arrived(m.id) /\ ~ OnWire(m.id) /\ ~ Sent(m.id)
         /\ \A q \in Machines : Follows(q)
<1>1. /\ m \in CallMessage /\ 1 \in 1 .. Len(events[p]) /\ m = events[p][1]
      /\ \A q \in Machines : q # p => events'[q] = events[q]
      /\ \A k \in 1 .. Len(events'[p]) : k + 1 \in 1 .. Len(events[p]) /\ events'[p][k] = events[p][k + 1]
  BY EventsAfter DEF ObjectsKept
<1>2. m.id \in RequestIds
  BY <1>1 DEF CallMessage
<1>3. Waits(p, m) /\ AtOwner(m.id)
  BY <1>1 DEF Waits, AtOwner
<1>4. \A q \in Machines : Follows(q)
  <2>1. Follows(p)
    BY <1>1 DEF Follows
  <2>2. \A q \in Machines : q # p => Follows(q)
    BY <1>1, FollowsSame DEF ObjectsKept
  <2>3. QED
    BY <2>1, <2>2
<1>5. ~ AtOwner(m.id)'
  <2>1. ASSUME NEW q \in Machines, NEW k \in 1 .. Len(events'[q]),
               events'[q][k].kind # "call", events'[q][k].id = m.id
        PROVE  FALSE
    <3>1. CASE q = p
      <4>1. /\ k + 1 \in 1 .. Len(events[p]) /\ 1 \in 1 .. Len(events[p])
            /\ events[p][k + 1].kind # "call" /\ events[p][1].kind # "call"
            /\ events[p][k + 1].id = events[p][1].id
        <5>1. k + 1 \in 1 .. Len(events[p]) /\ events[p][k + 1] = events'[p][k]
          BY <1>1, <2>1, <3>1
        <5>2. QED
          BY <1>1, <2>1, <3>1, <5>1
      <4>2. k + 1 = 1
        BY <4>1 DEF NumbersKept, WaitsOnce
      <4>3. QED
        BY <4>2
    <3>2. CASE q # p
      BY <1>1, <2>1, <3>2 DEF NumbersKept, WaitsOnce
    <3>3. QED
      BY <3>1, <3>2
  <2>2. QED
    BY <2>1 DEF AtOwner, Waits
<1>6. ~ Arrived(m.id) /\ ~ OnWire(m.id) /\ ~ Sent(m.id)
  BY <1>2, <1>3 DEF NumbersKept, NumbersAreApart, Apart
<1>7. QED
  BY <1>1, <1>2, <1>3, <1>4, <1>5, <1>6

LEMMA NumbersOfTakeDelivery ==
  ASSUME ObjectsKept, NumbersKept, NEW p \in Machines, TakeDelivery(p)
  PROVE  NumbersKept'
<1>0. /\ RequestsAreOwn /\ RequestsAreUsed /\ NumbersAreApart
      /\ SentOnce /\ OnWireOnce /\ WaitsOnce /\ AnsweredOnce /\ MailOnce
  BY DEF NumbersKept
<1>. PICK m : m = Head(events[p])
  OBVIOUS
<1>. DEFINE x == m.id
<1>1. /\ events[p] # << >> /\ m.kind = "only" /\ events' = [events EXCEPT ![p] = Tail(@)]
      /\ \/ mail' = [n \in Nodes |-> IF n \in Owner(p, m) THEN Append(mail[n], x) ELSE mail[n]]
         \/ mail' = mail
      /\ UNCHANGED <<running, finished, wire, requests, answered, taken>>
  BY DEF TakeDelivery
<1>2. /\ m \in CallMessage /\ x \in RequestIds
      /\ Waits(p, m) /\ AtOwner(x) /\ ~ AtOwner(x)' /\ ~ Arrived(x) /\ ~ OnWire(x) /\ ~ Sent(x)
      /\ \A q \in Machines : Follows(q)
  BY <1>1, FirstEvent
<1>3. mail \in [Nodes -> Seq(RequestIds)]
  BY DEF ObjectsKept, ObjectsTyped
<1>. HIDE DEF x
<1>4. \A n \in Nodes : \A l : Sends(n, l)' <=> Sends(n, l)
  BY <1>1, SendsSame
<1>5. ASSUME NEW n \in Nodes
      PROVE  \/ mail'[n] = mail[n]
             \/ /\ Len(mail[n]) \in Nat /\ Len(mail'[n]) = Len(mail[n]) + 1 /\ mail'[n][Len(mail[n]) + 1] = x
                /\ \A k \in 1 .. Len(mail[n]) : mail'[n][k] = mail[n][k]
  <2>1. /\ Len(mail[n]) \in Nat /\ Len(Append(mail[n], x)) = Len(mail[n]) + 1
        /\ Append(mail[n], x)[Len(mail[n]) + 1] = x
        /\ \A k \in 1 .. Len(mail[n]) : Append(mail[n], x)[k] = mail[n][k]
    BY <1>2, <1>3, QueueAppend
  <2>2. mail'[n] = mail[n] \/ mail'[n] = Append(mail[n], x)
    BY <1>1
  <2>3. QED
    BY <2>1, <2>2
<1>6. ASSUME NEW n \in Nodes, NEW id, Holds(mail'[n], id) PROVE Holds(mail[n], id) \/ id = x
  <2>1. PICK k \in 1 .. Len(mail'[n]) : mail'[n][k] = id
    BY <1>6 DEF Holds
  <2>2. CASE mail'[n] = mail[n]
    BY <2>1, <2>2 DEF Holds
  <2>3. CASE /\ Len(mail[n]) \in Nat /\ Len(mail'[n]) = Len(mail[n]) + 1 /\ mail'[n][Len(mail[n]) + 1] = x
             /\ \A i \in 1 .. Len(mail[n]) : mail'[n][i] = mail[n][i]
    <3>1. k \in 1 .. Len(mail[n]) \/ k = Len(mail[n]) + 1
      BY <2>1, <2>3
    <3>2. QED
      BY <2>1, <2>3, <3>1 DEF Holds
  <2>4. QED
    BY <1>5, <2>2, <2>3
<1>7. /\ \A id : AtOwner(id)' => AtOwner(id) /\ id # x
      /\ \A id : Sent(id)' => Sent(id)
      /\ \A id : OnWire(id)' => OnWire(id)
      /\ \A id : Arrived(id)' => Arrived(id) \/ id = x
  <2>1. \A id : AtOwner(id)' => AtOwner(id) /\ id # x
    BY <1>2, WaitsAfter
  <2>2. \A id : Sent(id)' => Sent(id)
    BY <1>4 DEF Sent
  <2>3. \A id : OnWire(id)' => OnWire(id)
    BY <1>1 DEF OnWire
  <2>4. ASSUME NEW id, Arrived(id)' PROVE Arrived(id) \/ id = x
    <3>1. CASE \E a \in answered' : a.id = id
      BY <1>1, <3>1 DEF Arrived
    <3>2. ASSUME NEW n \in Nodes, Holds(taken'[n], id) \/ Holds(mail'[n], id) PROVE Arrived(id) \/ id = x
      BY <1>1, <1>6, <3>2 DEF Arrived
    <3>3. QED
      BY <2>4, <3>1, <3>2 DEF Arrived, Holds
  <2>5. QED
    BY <2>1, <2>2, <2>3, <2>4
<1>8. Stay(x)
  BY <1>7 DEF Stay
<1>9. NumbersAreApart'
  <2>1. Apart(x)'
    BY <1>2, <1>7 DEF Apart
  <2>2. QED
    BY <1>0, <1>8, <2>1, ApartAfter
<1>10. RequestsAreUsed'
  <2>1. x \notin Unused
    BY <1>0, <1>2 DEF RequestsAreUsed
  <2>2. QED
    BY <1>0, <1>1, <1>8, <2>1, UsedAfter
<1>11. RequestsAreOwn' /\ SentOnce'
  BY <1>0, <1>1, <1>4 DEF RequestsAreOwn, SentOnce
<1>12. OnWireOnce' /\ AnsweredOnce' /\ WaitsOnce'
  <2>1. WaitsOnce'
    BY <1>0, <1>2, WaitsAfter
  <2>2. QED
    BY <1>0, <1>1, <2>1 DEF OnWireOnce, AnsweredOnce
<1>13. MailOnce'
  <2>1. ASSUME NEW n \in Nodes
        PROVE  /\ \A j, k \in 1 .. Len(taken'[n]) : taken'[n][j] = taken'[n][k] => j = k
               /\ \A j, k \in 1 .. Len(mail'[n]) : mail'[n][j] = mail'[n][k] => j = k
               /\ \A id \in RequestIds : ~ (Holds(taken'[n], id) /\ Holds(mail'[n], id))
    <3>0. /\ \A j, k \in 1 .. Len(taken[n]) : taken[n][j] = taken[n][k] => j = k
          /\ \A j, k \in 1 .. Len(mail[n]) : mail[n][j] = mail[n][k] => j = k
          /\ \A id \in RequestIds : ~ (Holds(taken[n], id) /\ Holds(mail[n], id))
      BY <1>0 DEF MailOnce
    <3>1. ~ Holds(taken[n], x) /\ ~ Holds(mail[n], x)
      BY <1>2 DEF Arrived
    <3>2. \A id \in RequestIds : ~ (Holds(taken'[n], id) /\ Holds(mail'[n], id))
      BY <1>1, <1>6, <3>0, <3>1
    <3>3. CASE mail'[n] = mail[n]
      BY <1>1, <3>0, <3>2, <3>3
    <3>4. CASE /\ Len(mail[n]) \in Nat /\ Len(mail'[n]) = Len(mail[n]) + 1 /\ mail'[n][Len(mail[n]) + 1] = x
               /\ \A i \in 1 .. Len(mail[n]) : mail'[n][i] = mail[n][i]
      <4>1. \A i \in 1 .. Len(mail[n]) : mail[n][i] # x
        BY <3>1 DEF Holds
      <4>2. ASSUME NEW j \in 1 .. Len(mail'[n]), NEW k \in 1 .. Len(mail'[n]), mail'[n][j] = mail'[n][k] PROVE j = k
        <5>1. (j \in 1 .. Len(mail[n]) \/ j = Len(mail[n]) + 1) /\ (k \in 1 .. Len(mail[n]) \/ k = Len(mail[n]) + 1)
          BY <3>4, <4>2
        <5>2. QED
          BY <3>0, <3>4, <4>1, <4>2, <5>1
      <4>3. QED
        BY <1>1, <3>0, <3>2, <4>2
    <3>5. QED
      BY <1>5, <3>3, <3>4
  <2>2. QED
    BY <2>1 DEF MailOnce, Holds
<1>14. QED
  BY <1>9, <1>10, <1>11, <1>12, <1>13 DEF NumbersKept

LEMMA NumbersOfNoticeCall ==
  ASSUME ObjectsKept, NumbersKept, NEW p \in Machines, NoticeCall(p)
  PROVE  NumbersKept'
<1>1. /\ events[p] # << >> /\ events' = [events EXCEPT ![p] = Tail(@)]
      /\ UNCHANGED <<mail, running, finished, wire, requests, answered, taken>>
  BY DEF NoticeCall
<1>2. /\ \A q \in Machines : q # p => events'[q] = events[q]
      /\ \A k \in 1 .. Len(events'[p]) : k + 1 \in 1 .. Len(events[p]) /\ events'[p][k] = events[p][k + 1]
  BY <1>1, EventsAfter DEF ObjectsKept
<1>3. \A q \in Machines : Follows(q)
  <2>1. Follows(p)
    BY <1>2 DEF Follows
  <2>2. \A q \in Machines : q # p => Follows(q)
    BY <1>2, FollowsSame DEF ObjectsKept
  <2>3. QED
    BY <2>1, <2>2
<1>4. \A n \in Nodes : \A l : Sends(n, l)' <=> Sends(n, l)
  BY <1>1, SendsSame
<1>5. QED
  BY <1>1, <1>3, <1>4, NumbersStill

LEMMA NumbersOfTakeResult ==
  ASSUME ObjectsKept, NumbersKept, NEW p \in Machines, TakeResult(p)
  PROVE  NumbersKept'
<1>0. /\ RequestsAreOwn /\ RequestsAreUsed /\ NumbersAreApart
      /\ SentOnce /\ OnWireOnce /\ WaitsOnce /\ AnsweredOnce /\ MailOnce
  BY DEF NumbersKept
<1>. PICK m : m = Head(events[p])
  OBVIOUS
<1>. DEFINE x == m.id
<1>. DEFINE a == [id |-> m.id, to |-> m.to, value |-> m.value, known |-> m.known]
<1>1. /\ events[p] # << >> /\ m.kind = "result" /\ events' = [events EXCEPT ![p] = Tail(@)]
      /\ answered' = answered \cup {a}
      /\ UNCHANGED <<mail, running, finished, wire, requests, taken>>
  BY DEF TakeResult
<1>2. /\ m \in CallMessage /\ x \in RequestIds
      /\ Waits(p, m) /\ AtOwner(x) /\ ~ AtOwner(x)' /\ ~ Arrived(x) /\ ~ OnWire(x) /\ ~ Sent(x)
      /\ \A q \in Machines : Follows(q)
  BY <1>1, FirstEvent
<1>3. a.id = x
  OBVIOUS
<1>. HIDE DEF a, x
<1>4. \A n \in Nodes : \A l : Sends(n, l)' <=> Sends(n, l)
  BY <1>1, SendsSame
<1>5. /\ \A id : AtOwner(id)' => AtOwner(id) /\ id # x
      /\ \A id : Sent(id)' => Sent(id)
      /\ \A id : OnWire(id)' => OnWire(id)
      /\ \A id : Arrived(id)' => Arrived(id) \/ id = x
  <2>1. \A id : AtOwner(id)' => AtOwner(id) /\ id # x
    BY <1>2, WaitsAfter
  <2>2. \A id : Sent(id)' => Sent(id)
    BY <1>4 DEF Sent
  <2>3. \A id : OnWire(id)' => OnWire(id)
    BY <1>1 DEF OnWire
  <2>4. \A id : Arrived(id)' => Arrived(id) \/ id = x
    BY <1>1, <1>3 DEF Arrived, Holds
  <2>5. QED
    BY <2>1, <2>2, <2>3, <2>4
<1>6. Stay(x)
  BY <1>5 DEF Stay
<1>7. NumbersAreApart'
  <2>1. Apart(x)'
    BY <1>2, <1>5 DEF Apart
  <2>2. QED
    BY <1>0, <1>6, <2>1, ApartAfter
<1>8. RequestsAreUsed'
  <2>1. x \notin Unused
    BY <1>0, <1>2 DEF RequestsAreUsed
  <2>2. QED
    BY <1>0, <1>1, <1>6, <2>1, UsedAfter
<1>9. RequestsAreOwn' /\ SentOnce'
  BY <1>0, <1>1, <1>4 DEF RequestsAreOwn, SentOnce
<1>10. OnWireOnce' /\ MailOnce' /\ WaitsOnce'
  <2>1. WaitsOnce'
    BY <1>0, <1>2, WaitsAfter
  <2>2. QED
    BY <1>0, <1>1, <2>1 DEF OnWireOnce, MailOnce, Holds
<1>11. AnsweredOnce'
  <2>1. \A b \in answered : b.id # x
    BY <1>2 DEF Arrived
  <2>2. QED
    BY <1>0, <1>1, <1>3, <2>1 DEF AnsweredOnce
<1>12. QED
  BY <1>7, <1>8, <1>9, <1>10, <1>11 DEF NumbersKept

RequestsCounted == \A n \in Nodes :
  IsFiniteSet(requests[n]) /\ Cardinality(requests[n]) <= MaxRequests

LEMMA CountedStill ==
  ASSUME ObjectsKept, RequestsCounted, OcapnNext
  PROVE  RequestsCounted'
<1>1. ASSUME NEW n \in Nodes, NEW kind \in {"call", "only"}, NEW method \in {"get", "set"}, NEW to \in Swiss,
             Request(n, kind, method, to)
      PROVE  RequestsCounted'
  <2>. PICK x \in Unused : AsksAs(n, kind, method, to, x)
    BY <1>1, RequestRuns DEF ObjectsKept
  <2>1. /\ running[n] \in Context /\ running[n].sends = {}
        /\ Called(n, kind, method, to, x) \in CallMessage
        /\ requests' = [requests EXCEPT ![n] = @ \cup {x}]
        /\ Runs(n, running[n].counter, running[n].made, {Called(n, kind, method, to, x)}, running[n].read)
    BY DEF AsksAs
  <2>2. Cardinality(requests[n]) < MaxRequests /\ MaxRequests \in Nat
    BY <1>1, OcapnAssumption DEF Request
  <2>3. /\ requests'[n] = requests[n] \cup {x}
        /\ \A o \in Nodes : o # n => requests'[o] = requests[o]
    BY <2>1 DEF ObjectsKept, ObjectsTyped
  <2>4. IsFiniteSet(requests[n]) /\ Cardinality(requests[n]) \in Nat
    BY FS_CardinalityType DEF RequestsCounted
  <2>5. /\ IsFiniteSet(requests[n] \cup {x})
        /\ \/ Cardinality(requests[n] \cup {x}) = Cardinality(requests[n])
           \/ Cardinality(requests[n] \cup {x}) = Cardinality(requests[n]) + 1
    BY <2>4, FS_AddElement
  <2>6. Cardinality(requests[n] \cup {x}) <= MaxRequests
    BY <2>2, <2>4, <2>5
  <2>7. ASSUME NEW o \in Nodes PROVE IsFiniteSet(requests'[o]) /\ Cardinality(requests'[o]) <= MaxRequests
    <3>1. CASE o = n
      BY <2>3, <2>5, <2>6, <3>1
    <3>2. CASE o # n
      BY <2>3, <3>2 DEF RequestsCounted
    <3>3. QED
      BY <3>1, <3>2
  <2>8. QED
    BY <2>7 DEF RequestsCounted
<1>2. CASE requests' = requests
  BY <1>2 DEF RequestsCounted
<1>3. ASSUME NEW n \in Nodes, Evaluate(n) \/ Export(n) \/ ExportNode(n) \/ TakeMail(n) \/ EditScript(n)
      PROVE  requests' = requests
  BY <1>3 DEF Evaluate, Export, ExportNode, TakeMail, EditScript
<1>4. ASSUME NEW n \in Nodes, NEW pos \in 1 .. MaxValues, ReceiveSlot(n, pos) PROVE requests' = requests
  BY <1>4 DEF ReceiveSlot
<1>5. ASSUME NEW n \in Nodes, NEW id \in RequestIds, ReadResult(n, id) PROVE requests' = requests
  BY <1>5 DEF ReadResult
<1>6. ASSUME NEW n \in Nodes, NEW ok \in BOOLEAN, Finish(n, ok) PROVE requests' = requests
  BY <1>6 DEF Finish
<1>7. ASSUME NEW p \in Machines, Apply(p) \/ TakeDelivery(p) \/ NoticeCall(p) \/ TakeResult(p) \/ RestartPeer(p)
      PROVE  requests' = requests
  BY <1>7 DEF Apply, TakeDelivery, NoticeCall, TakeResult, RestartPeer
<1>8. ASSUME NEW p \in Machines, NEW m \in wire, ServeCall(p, m) \/ HandOver(p, m) PROVE requests' = requests
  BY <1>8 DEF ServeCall, HandOver
<1>9. ASSUME NEW p \in Machines, NEW c \in Sheets, ShowCanvas(p, c) PROVE requests' = requests
  BY <1>9 DEF ShowCanvas
<1>10. QED
  BY <1>1, <1>2, <1>3, <1>4, <1>5, <1>6, <1>7, <1>8, <1>9 DEF OcapnNext

LEMMA NumbersUnchanged ==
  ASSUME ObjectsKept, NumbersKept, Untouched
  PROVE  NumbersKept' /\ (RequestsCounted => RequestsCounted')
<1>1. UNCHANGED <<mail, running, finished, wire, events, requests, answered, taken>>
  BY DEF Untouched
<1>2. \A n \in Nodes : \A l : Sends(n, l)' <=> Sends(n, l)
  BY <1>1, SendsSame
<1>3. \A q \in Machines : Follows(q)
  BY <1>1, FollowsSame DEF ObjectsKept
<1>4. QED
  BY <1>1, <1>2, <1>3, NumbersStill DEF RequestsCounted

LEMMA NumbersKeep ==
  ASSUME ObjectsKept, NumbersKept, OcapnNext
  PROVE  NumbersKept'
<1>1. ASSUME NEW n \in Nodes, Evaluate(n) \/ Export(n) \/ ExportNode(n) \/ EditScript(n)
      PROVE  NumbersKept'
  BY <1>1, NumbersOfScripts
<1>2. ASSUME NEW n \in Nodes, NEW pos \in 1 .. MaxValues, ReceiveSlot(n, pos) PROVE NumbersKept'
  BY <1>2, NumbersOfScripts
<1>3. ASSUME NEW n \in Nodes, NEW id \in RequestIds, ReadResult(n, id) PROVE NumbersKept'
  BY <1>3, NumbersOfScripts
<1>4. ASSUME NEW n \in Nodes, TakeMail(n) PROVE NumbersKept'
  BY <1>4, NumbersOfTakeMail
<1>5. ASSUME NEW n \in Nodes, NEW kind \in {"call", "only"}, NEW method \in {"get", "set"}, NEW to \in Swiss,
             Request(n, kind, method, to)
      PROVE  NumbersKept'
  BY <1>5, NumbersOfRequest
<1>6. ASSUME NEW n \in Nodes, NEW ok \in BOOLEAN, Finish(n, ok) PROVE NumbersKept'
  BY <1>6, NumbersOfFinish
<1>7. ASSUME NEW p \in Machines, Apply(p) \/ TakeDelivery(p) \/ NoticeCall(p) \/ TakeResult(p) \/ RestartPeer(p)
      PROVE  NumbersKept'
  BY <1>7, NumbersOfApply, NumbersOfTakeDelivery, NumbersOfNoticeCall, NumbersOfTakeResult, NumbersOfRestart
<1>8. ASSUME NEW p \in Machines, NEW m \in wire, ServeCall(p, m) \/ HandOver(p, m) PROVE NumbersKept'
  BY <1>8, NumbersOfServeCall, NumbersOfHandOver
<1>9. ASSUME NEW p \in Machines, NEW c \in Sheets, ShowCanvas(p, c) PROVE NumbersKept'
  BY <1>9, NothingTouched, NumbersUnchanged
<1>10. QED
  BY <1>1, <1>2, <1>3, <1>4, <1>5, <1>6, <1>7, <1>8, <1>9 DEF OcapnNext

LEMMA NumbersStart ==
  ASSUME OcapnInit
  PROVE  NumbersKept /\ RequestsCounted
<1>1. /\ mail = [n \in Nodes |-> << >>] /\ running = [n \in Nodes |-> Idle]
      /\ finished = [p \in Machines |-> << >>] /\ wire = {} /\ events = [p \in Machines |-> << >>]
      /\ requests = [n \in Nodes |-> {}] /\ answered = {} /\ taken = [n \in Nodes |-> << >>]
  BY DEF OcapnInit
<1>2. Idle.busy = FALSE /\ Len(<< >>) = 0
  BY EmptySeq DEF Idle
<1>3. /\ \A n \in Nodes : Len(mail[n]) = 0 /\ Len(taken[n]) = 0 /\ ~ running[n].busy /\ requests[n] = {}
      /\ \A p \in Machines : Len(finished[p]) = 0 /\ Len(events[p]) = 0
  BY <1>1, <1>2
<1>4. \A n \in Nodes : \A m : ~ Sends(n, m)
  BY <1>3, Homes DEF Sends
<1>5. \A id : ~ Sent(id) /\ ~ OnWire(id) /\ ~ AtOwner(id) /\ ~ Arrived(id)
  BY <1>1, <1>3, <1>4 DEF Sent, OnWire, AtOwner, Waits, Arrived, Holds
<1>6. RequestsAreOwn /\ RequestsAreUsed /\ NumbersAreApart
  BY <1>3, <1>4, <1>5 DEF RequestsAreOwn, RequestsAreUsed, NumbersAreApart, Apart
<1>7. SentOnce /\ OnWireOnce /\ WaitsOnce /\ AnsweredOnce /\ MailOnce
  BY <1>1, <1>3, <1>4 DEF SentOnce, OnWireOnce, WaitsOnce, AnsweredOnce, MailOnce, Holds
<1>8. RequestsCounted
  <2>1. IsFiniteSet({}) /\ Cardinality({}) = 0 /\ MaxRequests \in Nat
    BY FS_EmptySet, OcapnAssumption
  <2>2. ASSUME NEW n \in Nodes PROVE IsFiniteSet(requests[n]) /\ Cardinality(requests[n]) <= MaxRequests
    <3>1. requests[n] = {}
      BY <1>3
    <3>2. 0 <= MaxRequests
      BY <2>1
    <3>3. QED
      BY <2>1, <3>1, <3>2
  <2>3. QED
    BY <2>2 DEF RequestsCounted
<1>9. QED
  BY <1>6, <1>7, <1>8 DEF NumbersKept

\* A mailbox holds no number twice, and only numbers of requests.
LEMMA MailIsBounded ==
  ASSUME ObjectsKept, NumbersKept, RequestsCounted, IsFiniteSet(Nodes), NEW n \in Nodes
  PROVE  Len(mail[n]) <= MaxRequests * Cardinality(Nodes)
<1>. DEFINE L == 1 .. Len(mail[n])
<1>. DEFINE T == Nodes \X (1 .. MaxRequests)
<1>. DEFINE enum == [o \in Nodes |-> CHOOSE b : b \in Bijection(1 .. Cardinality(requests[o]), requests[o])]
<1>. DEFINE g == [k \in L |-> CHOOSE t \in T : enum[t[1]][t[2]] = mail[n][k]]
<1>1. mail[n] \in Seq(RequestIds) /\ Len(mail[n]) \in Nat /\ MaxRequests \in Nat
  BY OcapnAssumption, LenProperties DEF ObjectsKept, ObjectsTyped
<1>2. ASSUME NEW o \in Nodes, NEW id \in requests[o]
      PROVE  \E i \in 1 .. MaxRequests : enum[o][i] = id
  <2>1. /\ Cardinality(requests[o]) \in Nat /\ Cardinality(requests[o]) <= MaxRequests
        /\ ExistsBijection(1 .. Cardinality(requests[o]), requests[o])
    BY FS_CardinalityType DEF RequestsCounted
  <2>2. enum[o] \in Bijection(1 .. Cardinality(requests[o]), requests[o])
    BY <2>1 DEF ExistsBijection
  <2>. HIDE DEF enum
  <2>3. PICK i \in 1 .. Cardinality(requests[o]) : enum[o][i] = id
    BY <1>2, <2>2 DEF Bijection, Surjection
  <2>4. i \in 1 .. MaxRequests
    BY <1>1, <2>1
  <2>5. QED
    BY <2>3, <2>4
<1>. HIDE DEF enum
<1>3. ASSUME NEW k \in L PROVE \E t \in T : enum[t[1]][t[2]] = mail[n][k]
  <2>1. mail[n][k] \in RequestIds
    BY <1>1, <1>3, ElementOfSeq
  <2>2. Arrived(mail[n][k])
    BY <1>3 DEF Arrived, Holds
  <2>3. PICK o \in Nodes : mail[n][k] \in requests[o]
    BY <2>1, <2>2 DEF NumbersKept, RequestsAreUsed, Unused
  <2>4. PICK i \in 1 .. MaxRequests : enum[o][i] = mail[n][k]
    BY <1>2, <2>3
  <2>5. <<o, i>> \in T /\ enum[<<o, i>>[1]][<<o, i>>[2]] = mail[n][k]
    BY <2>4
  <2>6. QED
    BY <2>5
<1>4. \A k \in L : g[k] \in T /\ enum[g[k][1]][g[k][2]] = mail[n][k]
  BY <1>3
<1>5. g \in [L -> T]
  BY <1>4
<1>. HIDE DEF g, T
<1>6. \A j, k \in L : g[j] = g[k] => j = k
  BY <1>4 DEF NumbersKept, MailOnce
<1>. HIDE DEF L
<1>7. g \in Injection(L, T)
  BY <1>5, <1>6 DEF Injection, IsInjective
<1>8. IsFiniteSet(T) /\ Cardinality(T) = Cardinality(Nodes) * MaxRequests
  <2>1. IsFiniteSet(1 .. MaxRequests) /\ Cardinality(1 .. MaxRequests) = MaxRequests
    <3>1. MaxRequests \in Nat
      BY OcapnAssumption
    <3>2. QED
      BY <3>1, FS_Interval
  <2>2. QED
    BY <2>1, FS_Product DEF T
<1>9. Cardinality(L) <= Cardinality(T)
  BY <1>7, <1>8, FS_Injection
<1>10. Cardinality(L) = Len(mail[n])
  BY <1>1, FS_Interval DEF L
<1>11. Cardinality(Nodes) * MaxRequests = MaxRequests * Cardinality(Nodes)
  <2>1. Cardinality(Nodes) \in Nat
    BY FS_CardinalityType
  <2>2. QED
    BY <1>1, <2>1
<1>12. QED
  BY <1>8, <1>9, <1>10, <1>11

LEMMA TypesAreOK ==
  ASSUME ObjectsKept, NumbersKept, RequestsCounted, IsFiniteSet(Nodes)
  PROVE  OcapnTypeOK
<1>1. ASSUME NEW p \in Machines
      PROVE  /\ \A k \in DOMAIN byKey[p] :
                  /\ byKey[p][k] \in 1 .. Len(slots[p])
                  /\ owners[p][byKey[p][k]] = k[1]
                  /\ \A l \in DOMAIN byKey[p] : byKey[p][k] = byKey[p][l] => k = l
             /\ DOMAIN owners[p] \subseteq 1 .. Len(slots[p])
             /\ Len(farWrite[p]) = Len(slots[p])
  BY DEF ObjectsKept, KeysAreExports, KeysFound, SlotsAreWritten
<1>2. \A n \in Nodes : Len(mail[n]) <= MaxRequests * Cardinality(Nodes)
  BY MailIsBounded
<1>3. QED
  BY <1>1, <1>2 DEF OcapnTypeOK
===========================================================================
