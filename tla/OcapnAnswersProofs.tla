------------------------ MODULE OcapnAnswersProofs ------------------------
(***************************************************************************)
(* Proofs about Ocapn, for any processes, nodes, scripts, calls and        *)
(* restarts: the answers to calls, and what comes to those who read.       *)
(***************************************************************************)
EXTENDS OcapnProofs

-----------------------------------------------------------------------------
(***************************************************************************)
(* Answers are fresh                                                       *)
(***************************************************************************)

\* A message is under way: a call to be done, or a result.
Travels(m) ==
  \/ \E n \in Nodes : Sends(n, m)
  \/ m \in wire
  \/ \E p \in Machines : Waits(p, m)
\* A value is under way to its slot.
Pending(m) == Travels(m) /\ m.method = "set" /\ m.kind # "result"
\* No value of this number will be written again.
Spent(v) == v \in 0 .. values /\ \A m \in CallMessage : Pending(m) => m.value # v

\* Who knew values of a slot was not answered with an older one.
Fresh(a) == a.to.start = starts[a.to.peer] =>
  /\ a.to.pos \in 1 .. Len(slots[a.to.peer])
  /\ \A v \in a.known : Upto(slots[a.to.peer][a.to.pos], v) <= Upto(slots[a.to.peer][a.to.pos], a.value)

PendingIsOnce == \A m \in CallMessage : Pending(m) =>
  m.value \in 0 .. values /\ \A o \in CallMessage : Pending(o) /\ o.value = m.value => o = m
SlotsAreSpent == \A p \in Machines : \A pos \in 1 .. Len(slots[p]) : \A k \in 1 .. Len(slots[p][pos]) :
  Spent(slots[p][pos][k])
\* What a message, or an answer, holds.
Sound(a) == Spent(a.value) /\ Fresh(a)
Known(a) == (\A v \in a.known : Spent(v)) /\ a.to.start <= starts[a.to.peer]
MessagesAreSound == \A m \in CallMessage : Travels(m) => Known(m) /\ (m.kind = "result" => Sound(m))
AnswersAreSound == \A a \in answered : Known(a) /\ Sound(a)

ValuesKept == PendingIsOnce /\ SlotsAreSpent /\ MessagesAreSound /\ AnswersAreSound

LEMMA SpentAfter ==
  ASSUME values \in Nat, values' \in Nat, values <= values',
         \A m \in CallMessage : Pending(m)' => Pending(m) \/ m.value = values + 1,
         NEW v, Spent(v)
  PROVE  Spent(v)' /\ v \in Nat
BY DEF Spent

LEMMA SwissParts ==
  ASSUME NEW to \in Swiss
  PROVE  to.peer \in Machines /\ to.start \in 0 .. 1 /\ to.pos \in Nat \ {0}
BY OcapnAssumption DEF Swiss

\* A slot has one value more, or there is one slot more.
LEMMA FreshAfter ==
  ASSUME ObjectsKept, NEW p \in Machines, NEW pos, NEW w \in Nat,
         Rewrites(p, pos, w) \/ Adds(p, w), starts' = starts,
         NEW to \in Swiss, NEW known \in SUBSET Nat, NEW value \in Nat, w \notin known,
         NEW a, a.to = to, a.known = known, a.value = value, Fresh(a)
  PROVE  Fresh(a)'
<1>0. ObjectsTyped /\ SlotsAreWritten
  BY DEF ObjectsKept
<1>1. SUFFICES ASSUME to.start = starts[to.peer]
               PROVE  /\ to.pos \in 1 .. Len(slots'[to.peer])
                      /\ \A v \in known : Upto(slots'[to.peer][to.pos], v) <= Upto(slots'[to.peer][to.pos], value)
  BY DEF Fresh
<1>2. /\ to.peer \in Machines /\ to.pos \in 1 .. Len(slots[to.peer])
      /\ \A v \in known : Upto(slots[to.peer][to.pos], v) <= Upto(slots[to.peer][to.pos], value)
  BY <1>1, SwissParts DEF Fresh
<1>3. /\ Len(slots[to.peer]) \in Nat /\ Len(slots'[to.peer]) \in Nat
      /\ Len(slots[to.peer]) <= Len(slots'[to.peer])
      /\ slots[to.peer][to.pos] \in Seq(Nat)
  <2>1. Len(slots[to.peer]) \in Nat /\ slots[to.peer][to.pos] \in Seq(Nat)
    BY <1>0, <1>2, SlotFacts
  <2>2. slots' \in [Machines -> Seq(Seq(Nat))] /\ Len(slots[to.peer]) <= Len(slots'[to.peer])
    BY <1>0, <1>2, GrowthOf
  <2>3. Len(slots'[to.peer]) \in Nat
    BY <1>2, <2>2, LenProperties
  <2>4. QED
    BY <2>1, <2>2, <2>3
<1>4. to.pos \in 1 .. Len(slots'[to.peer])
  BY <1>2, <1>3
<1>5. \/ slots'[to.peer][to.pos] = slots[to.peer][to.pos]
      \/ slots'[to.peer][to.pos] = Append(slots[to.peer][to.pos], w)
  <2>1. CASE to.peer # p
    BY <1>2, <2>1 DEF Rewrites, Adds
  <2>2. CASE to.peer = p
    BY <1>2, <2>2 DEF Rewrites, Adds
  <2>3. QED
    BY <2>1, <2>2
<1>6. CASE slots'[to.peer][to.pos] = slots[to.peer][to.pos]
  BY <1>2, <1>4, <1>6
<1>7. CASE slots'[to.peer][to.pos] = Append(slots[to.peer][to.pos], w)
  <2>1. ASSUME NEW v \in known
        PROVE  Upto(slots'[to.peer][to.pos], v) <= Upto(slots'[to.peer][to.pos], value)
    <3>. DEFINE s == slots[to.peer][to.pos]
    <3>0. s \in Seq(Nat)
      BY <1>3
    <3>1. Upto(s, v) <= Upto(s, value)
      BY <1>2
    <3>. HIDE DEF s
    <3>2. v # w /\ v \in Nat
      BY <2>1
    <3>3. Upto(Append(s, w), v) = Upto(s, v) /\ Upto(s, v) \in Nat
      BY <3>0, <3>2, UptoGrows
    <3>4. Upto(s, value) <= Upto(Append(s, w), value) /\ Upto(s, value) \in Nat /\ Upto(Append(s, w), value) \in Nat
      <4>1. Upto(s, value) \in 0 .. Len(s) /\ Len(s) \in Nat
        BY <3>0, UptoGrows
      <4>2. Upto(s, value) <= Upto(Append(s, w), value) /\ Upto(Append(s, w), value) \in Nat
        BY <3>0, UptoGrows
      <4>3. QED
        BY <4>1, <4>2
    <3>5. Upto(Append(s, w), v) <= Upto(Append(s, w), value)
      BY <3>1, <3>3, <3>4
    <3>6. QED
      BY <1>7, <3>5 DEF s
  <2>2. QED
    BY <1>4, <2>1
<1>8. QED
  BY <1>5, <1>6, <1>7

LEMMA SlotsSpentAfter ==
  ASSUME ObjectsKept, SlotsAreSpent, NEW p \in Machines, NEW pos, NEW w \in Nat,
         Rewrites(p, pos, w) \/ Adds(p, w), Spent(w)', \A v : Spent(v) => Spent(v)'
  PROVE  SlotsAreSpent'
<1>0. ObjectsTyped /\ SlotsAreWritten
  BY DEF ObjectsKept
<1>1. ASSUME NEW q \in Machines, NEW i \in 1 .. Len(slots'[q]), NEW k \in 1 .. Len(slots'[q][i])
      PROVE  slots'[q][i][k] = w \/ Spent(slots'[q][i][k])
  <2>1. \/ i \in 1 .. Len(slots[q]) /\ slots'[q][i] = slots[q][i]
        \/ i \in 1 .. Len(slots[q]) /\ slots'[q][i] = Append(slots[q][i], w)
        \/ slots'[q][i] = <<w>>
    <3>1. CASE q # p
      BY <1>1, <3>1 DEF Rewrites, Adds
    <3>2. CASE q = p /\ Rewrites(p, pos, w)
      BY <1>1, <3>2 DEF Rewrites
    <3>3. CASE q = p /\ Adds(p, w)
      <4>1. Len(slots[p]) \in Nat /\ Len(slots'[p]) = Len(slots[p]) + 1
        BY <1>0, <3>3, SlotFacts DEF Adds
      <4>2. i \in 1 .. Len(slots[p]) \/ i = Len(slots[p]) + 1
        BY <1>1, <3>3, <4>1
      <4>3. QED
        BY <3>3, <4>2 DEF Adds
    <3>4. QED
      BY <3>1, <3>2, <3>3
  <2>2. CASE i \in 1 .. Len(slots[q]) /\ slots'[q][i] = slots[q][i]
    BY <1>1, <2>2 DEF SlotsAreSpent
  <2>3. CASE i \in 1 .. Len(slots[q]) /\ slots'[q][i] = Append(slots[q][i], w)
    <3>1. slots[q][i] \in Seq(Nat)
      BY <1>0, <2>3, SlotFacts
    <3>2. /\ Len(slots[q][i]) \in Nat /\ Len(slots'[q][i]) = Len(slots[q][i]) + 1
          /\ slots'[q][i][Len(slots[q][i]) + 1] = w
          /\ \A j \in 1 .. Len(slots[q][i]) : slots'[q][i][j] = slots[q][i][j]
      BY <2>3, <3>1, SlotAppend
    <3>3. k \in 1 .. Len(slots[q][i]) \/ k = Len(slots[q][i]) + 1
      BY <1>1, <3>2
    <3>4. QED
      BY <2>3, <3>2, <3>3 DEF SlotsAreSpent
  <2>4. CASE slots'[q][i] = <<w>>
    BY <1>1, <2>4
  <2>5. QED
    BY <2>1, <2>2, <2>3, <2>4
<1>2. ASSUME NEW q \in Machines, NEW i \in 1 .. Len(slots'[q]), NEW k \in 1 .. Len(slots'[q][i]),
             NEW v, v = slots'[q][i][k]
      PROVE  Spent(v)'
  <2>1. v = w \/ Spent(v)
    BY <1>1, <1>2
  <2>2. QED
    BY <2>1
<1>3. ASSUME NEW q \in Machines, NEW i \in 1 .. Len(slots'[q]), NEW k \in 1 .. Len(slots'[q][i])
      PROVE  /\ slots'[q][i][k] \in 0 .. values'
             /\ \A m \in CallMessage : Pending(m)' => m.value # slots'[q][i][k]
  BY <1>2 DEF Spent
<1>4. QED
  BY <1>3 DEF SlotsAreSpent, Spent

\* What a step of the slots leaves: a value that is written was pending or is new,
\* and whatever begins to travel is a sound answer.
LEMMA ValuesAfter ==
  ASSUME ObjectsKept, ObjectsTyped', ValuesKept, starts' = starts, answered' = answered, values <= values',
         \A m \in CallMessage : Pending(m)' => Pending(m),
         \A m \in CallMessage : Travels(m)' => Travels(m) \/ (m.kind = "result" /\ Known(m)' /\ Sound(m)'),
         \/ slots' = slots
         \/ \E p \in Machines, w \in Nat : \E pos :
              (Rewrites(p, pos, w) \/ Adds(p, w)) /\ ~ Spent(w) /\ Spent(w)'
  PROVE  ValuesKept'
<1>0. /\ PendingIsOnce /\ SlotsAreSpent /\ MessagesAreSound /\ AnswersAreSound
      /\ values \in Nat /\ values' \in Nat
  BY DEF ValuesKept, ObjectsKept, ObjectsTyped
<1>1. \A v : Spent(v) => Spent(v)'
  BY <1>0, SpentAfter
<1>2. ASSUME NEW a, Known(a) PROVE Known(a)'
  BY <1>1, <1>2 DEF Known
<1>3. ASSUME NEW a, a.to \in Swiss, a.known \in SUBSET Nat, a.value \in Nat, Known(a), Sound(a)
      PROVE  Sound(a)'
  <2>1. CASE slots' = slots
    <3>1. Fresh(a)'
      BY <1>3, <2>1 DEF Sound, Fresh
    <3>2. QED
      BY <1>1, <1>3, <3>1 DEF Sound
  <2>2. ASSUME NEW p \in Machines, NEW w \in Nat, NEW pos, Rewrites(p, pos, w) \/ Adds(p, w), ~ Spent(w)
        PROVE  Sound(a)'
    <3>1. w \notin a.known
      BY <1>3, <2>2 DEF Known
    <3>2. PICK to \in Swiss : to = a.to
      BY <1>3
    <3>3. PICK known \in SUBSET Nat : known = a.known
      BY <1>3
    <3>4. PICK value \in Nat : value = a.value
      BY <1>3
    <3>5. Fresh(a)'
      BY <1>3, <2>2, <3>1, <3>2, <3>3, <3>4, FreshAfter DEF Sound
    <3>6. QED
      BY <1>1, <1>3, <3>5 DEF Sound
  <2>3. QED
    BY <2>1, <2>2
<1>4. PendingIsOnce'
  BY <1>0 DEF PendingIsOnce
<1>5. SlotsAreSpent'
  <2>1. CASE slots' = slots
    <3>1. ASSUME NEW p \in Machines, NEW pos \in 1 .. Len(slots[p]), NEW k \in 1 .. Len(slots[p][pos]),
                 NEW v, v = slots[p][pos][k]
          PROVE  Spent(v)'
      BY <1>0, <1>1, <3>1 DEF SlotsAreSpent
    <3>2. ASSUME NEW p \in Machines, NEW pos \in 1 .. Len(slots[p]), NEW k \in 1 .. Len(slots[p][pos])
          PROVE  /\ slots[p][pos][k] \in 0 .. values'
                 /\ \A m \in CallMessage : Pending(m)' => m.value # slots[p][pos][k]
      BY <3>1 DEF Spent
    <3>3. QED
      BY <2>1, <3>2 DEF SlotsAreSpent, Spent
  <2>2. ASSUME NEW p \in Machines, NEW w \in Nat, NEW pos, Rewrites(p, pos, w) \/ Adds(p, w), Spent(w)'
        PROVE  SlotsAreSpent'
    BY <1>0, <1>1, <2>2, SlotsSpentAfter
  <2>3. QED
    BY <2>1, <2>2
<1>6. MessagesAreSound'
  <2>1. ASSUME NEW m \in CallMessage, Travels(m)'
        PROVE  Known(m)' /\ (m.kind = "result" => Sound(m)')
    <3>1. CASE Travels(m)
      <4>1. Known(m) /\ (m.kind = "result" => Sound(m))
        BY <1>0, <3>1 DEF MessagesAreSound
      <4>2. m.to \in Swiss /\ m.known \in SUBSET Nat /\ m.value \in Nat
        BY DEF CallMessage
      <4>3. QED
        BY <1>2, <1>3, <4>1, <4>2
    <3>2. QED
      BY <2>1, <3>1
  <2>2. QED
    BY <2>1 DEF MessagesAreSound
<1>7. AnswersAreSound'
  <2>1. ASSUME NEW a \in answered PROVE Known(a)' /\ Sound(a)'
    <3>1. Known(a) /\ Sound(a)
      BY <1>0 DEF AnswersAreSound
    <3>2. a \in Answered
      BY DEF ObjectsKept, ObjectsTyped
    <3>3. a.to \in Swiss /\ a.known \in SUBSET Nat /\ a.value \in Nat
      BY <3>2 DEF Answered
    <3>4. QED
      BY <1>2, <1>3, <3>1, <3>3
  <2>2. QED
    BY <2>1 DEF AnswersAreSound
<1>8. QED
  BY <1>4, <1>5, <1>6, <1>7 DEF ValuesKept

\* Nothing is written.
LEMMA ValuesStill ==
  ASSUME ObjectsKept, ObjectsTyped', ValuesKept, UNCHANGED <<starts, answered, values, slots>>,
         \A m \in CallMessage : Travels(m)' => Travels(m)
  PROVE  ValuesKept'
<1>1. values <= values'
  BY DEF ObjectsKept, ObjectsTyped
<1>2. \A m \in CallMessage : Pending(m)' => Pending(m)
  BY DEF Pending
<1>3. QED
  BY <1>1, <1>2, ValuesAfter

LEMMA ValuesOfExport ==
  ASSUME ObjectsKept, ValuesKept, NEW n \in Nodes, Export(n) \/ ExportNode(n),
         ObjectsTyped', \A o \in Nodes, m \in CallMessage : Sends(o, m)' => Sends(o, m)
  PROVE  ValuesKept'
<1>0. values \in Nat /\ ObjectsTyped /\ SlotsAreWritten /\ PendingIsOnce
  BY DEF ObjectsKept, ObjectsTyped, ValuesKept
<1>1. UNCHANGED <<starts, answered, wire, events>> /\ values' = values + 1
  BY DEF Export, ExportNode
<1>2. \A m \in CallMessage : Travels(m)' => Travels(m)
  BY <1>1 DEF Travels, Waits
<1>3. \A m \in CallMessage : Pending(m)' => Pending(m)
  BY <1>2 DEF Pending
<1>. DEFINE w == values + 1
<1>4. w \in Nat /\ values <= values'
  BY <1>0, <1>1
<1>5. ~ Spent(w)
  BY <1>0 DEF Spent
<1>6. ASSUME NEW v, v = w PROVE Spent(v)'
  <2>1. v \in 0 .. values'
    BY <1>0, <1>1, <1>6
  <2>2. \A m \in CallMessage : Pending(m) => m.value # v
    BY <1>0, <1>6 DEF PendingIsOnce
  <2>3. QED
    BY <1>3, <2>1, <2>2 DEF Spent
<1>7. \E p \in Machines : \E pos : Rewrites(p, pos, w) \/ Adds(p, w)
  <2>1. CASE Export(n)
    <3>1. PositionOf(n) \in 1 .. Len(slots[Home[n]]) + 1
      BY PositionFound
    <3>2. QED
      BY <1>0, <2>1, <3>1, ExportWrites
  <2>2. CASE ExportNode(n)
    BY <1>0, <2>2, ExportNodeAdds
  <2>3. QED
    BY <2>1, <2>2
<1>8. PICK v \in Nat : v = w
  BY <1>4
<1>. HIDE DEF w
<1>9. \E p \in Machines, u \in Nat : \E pos :
        (Rewrites(p, pos, u) \/ Adds(p, u)) /\ ~ Spent(u) /\ Spent(u)'
  <2>1. Spent(v)' /\ ~ Spent(v)
    BY <1>5, <1>6, <1>8
  <2>2. QED
    BY <1>7, <1>8, <2>1
<1>10. QED
  BY <1>1, <1>2, <1>3, <1>4, <1>9, ValuesAfter

LEMMA ValuesOfRequest ==
  ASSUME ObjectsKept, ObjectsTyped', ValuesKept, NEW n \in Nodes, NEW kind \in {"call", "only"},
         NEW method \in {"get", "set"}, NEW to \in Swiss, Request(n, kind, method, to)
  PROVE  ValuesKept'
<1>0. /\ values \in Nat /\ ObjectsTyped /\ OneAtATime
      /\ PendingIsOnce /\ SlotsAreSpent /\ MessagesAreSound /\ AnswersAreSound
  BY DEF ObjectsKept, ObjectsTyped, ValuesKept
<1>. PICK x \in Unused : AsksAs(n, kind, method, to, x)
  BY <1>0, RequestRuns
<1>1. /\ running[n] \in Context /\ running[n].sends = {}
      /\ Called(n, kind, method, to, x) \in CallMessage
      /\ requests' = [requests EXCEPT ![n] = @ \cup {x}]
      /\ Runs(n, running[n].counter, running[n].made, {Called(n, kind, method, to, x)}, running[n].read)
  BY DEF AsksAs
<1>2. PICK new \in CallMessage : new = Called(n, kind, method, to, x)
  BY <1>1
<1>3. /\ new.kind = kind /\ new.to = to /\ new.method = method /\ new.value = values'
      /\ new.known = {a.value : a \in {a \in answered : a.to = to}}
  BY <1>2 DEF Called
<1>4. /\ values' = IF method = "set" THEN values + 1 ELSE values
      /\ to.start < starts[to.peer] \/ Lookup(to.peer, to)
      /\ UNCHANGED <<starts, slots, finished, wire, events, answered>>
  BY DEF Request
<1>5. values' \in Nat /\ values <= values'
  BY <1>0, <1>4
<1>6. \A m : Travels(m)' => Travels(m) \/ m = new
  <2>1. \A o \in Nodes : \A m : Sends(o, m)' => Sends(o, m) \/ m = new
    <3>1. running'[n].sends = {new} /\ \A o \in Nodes : o # n => running'[o] = running[o]
      BY <1>1, <1>2 DEF Runs
    <3>2. QED
      BY <1>4, <3>1 DEF Sends
  <2>2. QED
    BY <1>4, <2>1 DEF Travels, Waits
<1>7. \A m \in CallMessage : Pending(m)' => Pending(m) \/ (m = new /\ method = "set")
  BY <1>3, <1>6 DEF Pending
<1>8. \A m \in CallMessage : Pending(m)' => Pending(m) \/ m.value = values + 1
  BY <1>3, <1>4, <1>7
<1>9. \A v : Spent(v) => Spent(v)'
  BY <1>0, <1>5, <1>8, SpentAfter
<1>10. PendingIsOnce'
  <2>1. ASSUME NEW m \in CallMessage, Pending(m)' PROVE m.value \in 0 .. values'
    <3>1. CASE Pending(m)
      BY <1>0, <1>5, <3>1 DEF PendingIsOnce
    <3>2. CASE m = new
      BY <1>3, <1>5, <3>2
    <3>3. QED
      BY <1>7, <2>1, <3>1, <3>2
  <2>2. ASSUME NEW m \in CallMessage, NEW o \in CallMessage, Pending(m)', Pending(o)', o.value = m.value PROVE o = m
    <3>1. CASE method = "set"
      <4>1. new.value = values + 1 /\ \A l \in CallMessage : Pending(l) => l.value # values + 1
        BY <1>0, <1>3, <1>4, <3>1 DEF PendingIsOnce
      <4>2. QED
        BY <1>0, <1>7, <2>2, <4>1 DEF PendingIsOnce
    <3>2. CASE method # "set"
      BY <1>0, <1>7, <2>2, <3>2 DEF PendingIsOnce
    <3>3. QED
      BY <3>1, <3>2
  <2>3. QED
    BY <2>1, <2>2 DEF PendingIsOnce
<1>11. SlotsAreSpent'
  <2>1. ASSUME NEW p \in Machines, NEW pos \in 1 .. Len(slots[p]), NEW k \in 1 .. Len(slots[p][pos]),
               NEW v, v = slots[p][pos][k]
        PROVE  Spent(v)'
    BY <1>0, <1>9, <2>1 DEF SlotsAreSpent
  <2>2. ASSUME NEW p \in Machines, NEW pos \in 1 .. Len(slots[p]), NEW k \in 1 .. Len(slots[p][pos])
        PROVE  /\ slots[p][pos][k] \in 0 .. values'
               /\ \A m \in CallMessage : Pending(m)' => m.value # slots[p][pos][k]
    BY <2>1 DEF Spent
  <2>3. ASSUME NEW p \in Machines, NEW pos \in 1 .. Len(slots'[p]), NEW k \in 1 .. Len(slots'[p][pos])
        PROVE  Spent(slots[p][pos][k])'
    BY <1>4, <2>2 DEF Spent
  <2>4. QED
    BY <2>3 DEF SlotsAreSpent
<1>12. ASSUME NEW a, Known(a) PROVE Known(a)'
  BY <1>4, <1>9, <1>12 DEF Known
<1>13. ASSUME NEW a, Sound(a) PROVE Sound(a)'
  <2>1. Fresh(a)'
    BY <1>4, <1>13 DEF Sound, Fresh
  <2>2. QED
    BY <1>9, <1>13, <2>1 DEF Sound
<1>14. Known(new)'
  <2>1. ASSUME NEW v \in new.known PROVE Spent(v)'
    <3>1. PICK a \in answered : a.value = v
      BY <1>3, <2>1
    <3>2. Spent(v)
      BY <1>0, <3>1 DEF AnswersAreSound, Sound
    <3>3. QED
      BY <1>9, <3>2
  <2>2. to.start <= starts[to.peer]
    <3>1. to.peer \in Machines /\ to.start \in 0 .. 1
      BY SwissParts
    <3>2. starts[to.peer] \in 0 .. 1
      BY <1>0, <3>1 DEF ObjectsTyped
    <3>3. QED
      BY <1>4, <3>1, <3>2 DEF Lookup
  <2>3. QED
    BY <1>3, <1>4, <2>1, <2>2 DEF Known
<1>15. MessagesAreSound'
  <2>1. ASSUME NEW m \in CallMessage, Travels(m)'
        PROVE  Known(m)' /\ (m.kind = "result" => Sound(m)')
    <3>1. CASE Travels(m)
      BY <1>0, <1>12, <1>13, <3>1 DEF MessagesAreSound
    <3>2. CASE m = new
      BY <1>3, <1>14, <3>2
    <3>3. QED
      BY <1>6, <2>1, <3>1, <3>2
  <2>2. QED
    BY <2>1 DEF MessagesAreSound
<1>16. AnswersAreSound'
  <2>1. ASSUME NEW a \in answered PROVE Known(a)' /\ Sound(a)'
    BY <1>0, <1>12, <1>13 DEF AnswersAreSound
  <2>2. QED
    BY <1>4, <2>1 DEF AnswersAreSound
<1>17. QED
  BY <1>10, <1>11, <1>15, <1>16 DEF ValuesKept

\* The steps that write nothing: messages only come nearer to their end.
LEMMA ValuesOfScripts ==
  ASSUME ObjectsKept, ObjectsTyped', ValuesKept, NEW n \in Nodes,
         \/ Evaluate(n) \/ TakeMail(n) \/ EditScript(n)
         \/ \E pos \in 1 .. MaxValues : ReceiveSlot(n, pos)
         \/ \E id \in RequestIds : ReadResult(n, id)
         \/ \E ok \in BOOLEAN : Finish(n, ok)
  PROVE  ValuesKept'
<1>1. UNCHANGED <<starts, answered, values, slots, wire, events>>
  BY DEF Evaluate, TakeMail, EditScript, ReceiveSlot, ReadResult, Finish
<1>2. ASSUME NEW o \in Nodes, NEW m \in CallMessage, Sends(o, m)' PROVE Sends(o, m)
  <2>1. CASE \E ok \in BOOLEAN : Finish(n, ok)
    BY <1>2, <2>1, FinishSends
  <2>2. CASE TakeMail(n)
    BY <1>2, <2>2, SendsSame DEF TakeMail
  <2>3. CASE \/ Evaluate(n) \/ EditScript(n)
             \/ \E pos \in 1 .. MaxValues : ReceiveSlot(n, pos)
             \/ \E id \in RequestIds : ReadResult(n, id)
    <3>1. finished' = finished
      BY <2>3 DEF Evaluate, EditScript, ReceiveSlot, ReadResult
    <3>2. \A i \in Nodes : running'[i].busy =>
            \/ running'[i].sends = {}
            \/ running[i].busy /\ running'[i].sends = running[i].sends
      BY <2>3, ScriptSends
    <3>3. QED
      BY <1>2, <3>1, <3>2, SendsStill DEF ObjectsKept
  <2>4. QED
    BY <2>1, <2>2, <2>3
<1>3. \A m \in CallMessage : Travels(m)' => Travels(m)
  BY <1>1, <1>2 DEF Travels, Waits
<1>4. QED
  BY <1>1, <1>3, ValuesStill

LEMMA ValuesOfExports ==
  ASSUME ObjectsKept, ObjectsTyped', ValuesKept, NEW n \in Nodes, Export(n) \/ ExportNode(n)
  PROVE  ValuesKept'
<1>1. finished' = finished
  BY DEF Export, ExportNode
<1>2. \A i \in Nodes : running'[i].busy =>
        \/ running'[i].sends = {}
        \/ running[i].busy /\ running'[i].sends = running[i].sends
  BY ScriptSends
<1>3. \A o \in Nodes, m \in CallMessage : Sends(o, m)' => Sends(o, m)
  BY <1>1, <1>2, SendsStill DEF ObjectsKept
<1>4. QED
  BY <1>3, ValuesOfExport

LEMMA ValuesOfApply ==
  ASSUME ObjectsKept, ObjectsTyped', ValuesKept, NEW p \in Machines, Apply(p)
  PROVE  ValuesKept'
<1>. DEFINE r == finished[p][1]
<1>1. Head(finished[p]) = r /\ 1 \in 1 .. Len(finished[p])
  BY ApplyKeeps
<1>2. /\ wire' = wire \/ wire' = wire \cup r.sends
      /\ UNCHANGED <<starts, answered, values, slots, events>>
  BY <1>1 DEF Apply
<1>3. PICK o \in Nodes : o = r.node
  BY <1>1, SendsOfResult DEF ObjectsKept
<1>4. \A m : Sends(o, m) <=> m \in r.sends
  BY <1>1, <1>3, SendsOfResult DEF ObjectsKept
<1>. HIDE DEF r
<1>5. \A n \in Nodes : \A m : Sends(n, m)' => Sends(n, m)
  BY ApplySends
<1>6. \A m \in CallMessage : Travels(m)' => Travels(m)
  BY <1>2, <1>4, <1>5 DEF Travels, Waits
<1>7. QED
  BY <1>2, <1>6, ValuesStill

LEMMA ValuesOfHandOver ==
  ASSUME ObjectsKept, ObjectsTyped', ValuesKept, NEW p \in Machines, NEW m \in wire, HandOver(p, m)
  PROVE  ValuesKept'
<1>1. m \in CallMessage /\ IF m.kind = "result" THEN m.from = p ELSE m.to.peer = p
  BY DEF ObjectsKept, ObjectsTyped, HandOver
<1>2. /\ wire' = wire \ {m} /\ events' = Told(p, m)
      /\ UNCHANGED <<starts, answered, values, slots, running, finished>>
  BY DEF HandOver
<1>3. \A q \in Machines : \A l : Waits(q, l)' => Waits(q, l) \/ l = m
  BY <1>1, <1>2, ToldWaits
<1>4. \A l \in CallMessage : Travels(l)' => Travels(l)
  BY <1>2, <1>3, SendsSame DEF Travels
<1>5. QED
  BY <1>2, <1>4, ValuesStill

LEMMA ValuesOfNoticeCall ==
  ASSUME ObjectsKept, ObjectsTyped', ValuesKept, NEW p \in Machines, NoticeCall(p)
  PROVE  ValuesKept'
<1>1. /\ events[p] # << >> /\ events' = [events EXCEPT ![p] = Tail(@)]
      /\ UNCHANGED <<starts, answered, values, slots, running, finished, wire>>
  BY DEF NoticeCall
<1>2. /\ \A q \in Machines : q # p => events'[q] = events[q]
      /\ \A k \in 1 .. Len(events'[p]) : k + 1 \in 1 .. Len(events[p]) /\ events'[p][k] = events[p][k + 1]
  BY <1>1, EventsAfter DEF ObjectsKept
<1>3. \A q \in Machines : \A l : Waits(q, l)' => Waits(q, l)
  BY <1>2 DEF Waits
<1>4. \A l \in CallMessage : Travels(l)' => Travels(l)
  BY <1>1, <1>3, SendsSame DEF Travels
<1>5. QED
  BY <1>1, <1>4, ValuesStill

\* A value that was under way is written, once.
LEMMA ValueArrives ==
  ASSUME ObjectsKept, ValuesKept, values' = values, NEW m \in CallMessage, Pending(m),
         \A l \in CallMessage : Pending(l)' => Pending(l) /\ l # m
  PROVE  \A v : v = m.value => ~ Spent(v) /\ Spent(v)'
BY DEF ValuesKept, PendingIsOnce, Spent

LEMMA ValuesOfDelivery ==
  ASSUME ObjectsKept, NumbersKept, ObjectsTyped', ValuesKept, NEW p \in Machines, TakeDelivery(p)
  PROVE  ValuesKept'
<1>. PICK m : m = Head(events[p])
  OBVIOUS
<1>1. /\ events[p] # << >> /\ m.kind = "only" /\ events' = [events EXCEPT ![p] = Tail(@)]
      /\ \/ Lookup(p, m.to) /\ slots' = Delivered(p, m) /\ farWrite' = FarWritten(p, m)
         \/ slots' = slots /\ farWrite' = farWrite
      /\ UNCHANGED <<starts, answered, values, running, finished, wire>>
  BY DEF TakeDelivery
<1>2. /\ m \in CallMessage
      /\ Waits(p, m) /\ ~ AtOwner(m.id)' /\ ~ OnWire(m.id) /\ ~ Sent(m.id)
      /\ \A q \in Machines : Follows(q)
  BY <1>1, FirstEvent
<1>3. m.to.peer = p
  BY <1>1, EventsAfter DEF ObjectsKept
<1>4. \A q \in Machines : \A l : Waits(q, l)' => Waits(q, l)
  BY <1>2, WaitsAfter
<1>5. \A l \in CallMessage : Travels(l)' => Travels(l)
  BY <1>1, <1>4, SendsSame DEF Travels
<1>6. CASE slots' = slots
  BY <1>1, <1>5, <1>6, ValuesStill
<1>7. CASE slots' # slots
  <2>1. Lookup(p, m.to) /\ slots' = Delivered(p, m) /\ farWrite' = FarWritten(p, m)
    BY <1>1, <1>7
  <2>2. m.method = "set" /\ Rewrites(p, m.to.pos, m.value) /\ m.value \in Nat
    BY <1>2, <1>3, <1>7, <2>1, DeliveryWrites DEF ObjectsKept
  <2>3. Pending(m)
    BY <1>1, <1>2, <2>2 DEF Pending, Travels
  <2>4. ~ Travels(m)'
    <3>1. \A n \in Nodes : ~ Sends(n, m)'
      BY <1>1, <1>2, SendsSame DEF Sent
    <3>2. m \notin wire'
      BY <1>1, <1>2 DEF OnWire
    <3>3. \A q \in Machines : ~ Waits(q, m)'
      BY <1>2 DEF AtOwner
    <3>4. QED
      BY <3>1, <3>2, <3>3 DEF Travels
  <2>5. \A l \in CallMessage : Pending(l)' => Pending(l) /\ l # m
    BY <1>5, <2>4 DEF Pending
  <2>6. PICK w \in Nat : w = m.value
    BY <2>2
  <2>7. ~ Spent(w) /\ Spent(w)'
    BY <1>1, <1>2, <2>3, <2>5, <2>6, ValueArrives
  <2>8. values <= values'
    BY <1>1 DEF ObjectsKept, ObjectsTyped
  <2>9. QED
    BY <1>1, <1>5, <2>2, <2>5, <2>6, <2>7, <2>8, ValuesAfter
<1>8. QED
  BY <1>6, <1>7

\* Nobody knew more of a slot than its last value.
LEMMA LastIsFresh ==
  ASSUME ObjectsTyped', SlotsAreWritten', NEW a \in CallMessage, a.to.pos \in 1 .. Len(slots'[a.to.peer]),
         a.value = Last(slots'[a.to.peer][a.to.pos])
  PROVE  Fresh(a)'
<1>1. a.to \in Swiss /\ a.known \in SUBSET Nat /\ a.value \in Nat
  BY DEF CallMessage
<1>2. a.to.peer \in Machines
  BY <1>1, SwissParts
<1>. DEFINE s == slots'[a.to.peer][a.to.pos]
<1>3. s \in Seq(Nat) /\ s # << >>
  <2>1. slots'[a.to.peer] \in Seq(Seq(Nat))
    BY <1>2 DEF ObjectsTyped
  <2>2. slots'[a.to.peer][a.to.pos] \in Seq(Nat)
    BY <2>1, ElementOfSeq
  <2>3. QED
    BY <1>2, <2>2 DEF SlotsAreWritten
<1>4. a.value = Last(s)
  OBVIOUS
<1>. HIDE DEF s
<1>5. \A v \in a.known : Upto(s, v) <= Upto(s, a.value)
  <2>1. ASSUME NEW v \in Nat PROVE Upto(s, v) <= Len(s)
    BY <1>3, UptoGrows
  <2>2. Upto(s, a.value) = Len(s)
    BY <1>1, <1>3, <1>4, UptoGrows
  <2>3. QED
    BY <1>1, <2>1, <2>2
<1>6. QED
  BY <1>5 DEF Fresh, s

LEMMA ValuesOfServeCall ==
  ASSUME ObjectsKept, NumbersKept, ObjectsKept', ValuesKept, NEW p \in Machines, NEW m \in wire, ServeCall(p, m)
  PROVE  ValuesKept'
<1>. PICK r : r = [m EXCEPT !.kind = "result", !.value = Answer(p, m)]
  OBVIOUS
<1>0. /\ ObjectsTyped /\ SlotsAreWritten /\ ObjectsTyped' /\ SlotsAreWritten'
      /\ PendingIsOnce /\ SlotsAreSpent /\ MessagesAreSound /\ values \in Nat
  BY DEF ObjectsKept, ObjectsTyped, ValuesKept
<1>1. /\ m \in CallMessage /\ m.kind = "call" /\ m.to.peer = p
      /\ r = [kind |-> "result", from |-> m.from, to |-> m.to, method |-> m.method,
              value |-> Answer(p, m), id |-> m.id, known |-> m.known]
      /\ Lookup(p, m.to) => r \in CallMessage
  BY <1>0, ServedCall
<1>2. /\ events' = Told(p, m) /\ UNCHANGED <<starts, answered, values, running, finished>>
      /\ wire' = (wire \ {m}) \cup (IF Lookup(p, m.to) THEN {r} ELSE {})
      /\ IF Lookup(p, m.to) THEN slots' = Delivered(p, m) /\ farWrite' = FarWritten(p, m)
         ELSE UNCHANGED <<slots, farWrite>>
  BY DEF ServeCall
<1>3. \A q \in Machines : \A l : Waits(q, l)' => Waits(q, l)
  BY <1>1, <1>2, ToldWaits
<1>4. CASE ~ Lookup(p, m.to)
  <2>1. \A l \in CallMessage : Travels(l)' => Travels(l)
    BY <1>2, <1>3, <1>4, SendsSame DEF Travels
  <2>2. QED
    BY <1>0, <1>2, <1>4, <2>1, ValuesStill
<1>5. CASE Lookup(p, m.to)
  <2>1. \A l \in CallMessage : Travels(l)' => Travels(l) \/ l = r
    BY <1>2, <1>3, <1>5, SendsSame DEF Travels
  <2>2. /\ r \in CallMessage /\ r.kind = "result" /\ r.to = m.to /\ r.known = m.known /\ r.value = Answer(p, m)
    BY <1>1, <1>5
  <2>3. \A l \in CallMessage : Pending(l)' => Pending(l)
    BY <2>1, <2>2 DEF Pending
  <2>4. \A v : Spent(v) => Spent(v)'
    BY <1>0, <1>2, <2>3, SpentAfter
  <2>5. Known(m)
    BY <1>0, <1>1 DEF MessagesAreSound, Travels
  <2>6. Known(r)'
    BY <1>2, <2>2, <2>4, <2>5 DEF Known
  <2>7. m.to.pos \in 1 .. Len(slots[p]) /\ (m.method # "set" => slots' = slots)
    BY <1>0, <1>1, <1>2, <1>5, DeliveryWrites
  <2>8. m.to.pos \in 1 .. Len(slots'[p]) /\ r.value = Last(slots'[p][m.to.pos])
    <3>1. CASE m.method = "set"
      <4>1. Rewrites(p, m.to.pos, m.value) /\ m.value \in Nat
        BY <1>0, <1>1, <1>2, <1>5, <3>1, DeliveryWrites
      <4>2. slots[p][m.to.pos] \in Seq(Nat)
        BY <1>0, <2>7, SlotFacts
      <4>3. Last(Append(slots[p][m.to.pos], m.value)) = m.value
        BY <4>1, <4>2, SlotAppend
      <4>4. r.value = m.value
        BY <2>2, <3>1 DEF Answer
      <4>5. m.to.pos \in 1 .. Len(slots'[p]) /\ slots'[p][m.to.pos] = Append(slots[p][m.to.pos], m.value)
        BY <4>1 DEF Rewrites
      <4>6. QED
        BY <4>3, <4>4, <4>5
    <3>2. CASE m.method # "set"
      BY <2>2, <2>7, <3>2 DEF Answer
    <3>3. QED
      BY <3>1, <3>2
  <2>9. Fresh(r)'
    BY <1>0, <1>1, <2>2, <2>8, LastIsFresh
  <2>10. CASE m.method = "set"
    <3>1. Rewrites(p, m.to.pos, m.value) /\ m.value \in Nat
      BY <1>0, <1>1, <1>2, <1>5, <2>10, DeliveryWrites
    <3>2. Pending(m)
      BY <1>1, <2>10 DEF Pending, Travels
    <3>3. ~ Travels(m)'
      <4>1. OnWire(m.id) /\ m.id \in RequestIds
        BY <1>1 DEF OnWire, CallMessage
      <4>2. ~ Sent(m.id)
        BY <4>1 DEF NumbersKept, NumbersAreApart, Apart
      <4>3. \A n \in Nodes : ~ Sends(n, m)'
        BY <1>1, <1>2, <4>2, SendsSame DEF Sent
      <4>4. m \notin wire'
        BY <1>1, <1>2, <2>2
      <4>5. \A q \in Machines : ~ Waits(q, m)'
        BY <1>1 DEF Waits
      <4>6. QED
        BY <4>3, <4>4, <4>5 DEF Travels
    <3>4. \A l \in CallMessage : Pending(l)' => Pending(l) /\ l # m
      BY <2>3, <3>3 DEF Pending
    <3>5. PICK w \in Nat : w = m.value
      BY <3>1
    <3>6. ~ Spent(w) /\ Spent(w)'
      BY <1>1, <1>2, <3>2, <3>4, <3>5, ValueArrives
    <3>7. r.value = w
      BY <2>2, <2>10, <3>5 DEF Answer
    <3>8. Sound(r)'
      BY <2>9, <3>6, <3>7 DEF Sound
    <3>9. values <= values'
      BY <1>0, <1>2
    <3>10. \A l \in CallMessage : Travels(l)' => Travels(l) \/ (l.kind = "result" /\ Known(l)' /\ Sound(l)')
      BY <2>1, <2>2, <2>6, <3>8
    <3>11. \E q \in Machines, u \in Nat : \E pos :
             (Rewrites(q, pos, u) \/ Adds(q, u)) /\ ~ Spent(u) /\ Spent(u)'
      BY <3>1, <3>5, <3>6
    <3>12. QED
      BY <1>0, <1>2, <2>3, <3>9, <3>10, <3>11, ValuesAfter
  <2>11. CASE m.method # "set"
    <3>1. slots' = slots
      BY <2>7, <2>11
    <3>2. PICK w : w = r.value
      OBVIOUS
    <3>3. Spent(w)
      <4>1. Len(slots[p][m.to.pos]) \in 1 .. Len(slots[p][m.to.pos])
        <5>1. slots[p][m.to.pos] \in Seq(Nat) /\ slots[p][m.to.pos] # << >>
          BY <1>0, <2>7, SlotFacts
        <5>2. QED
          BY <5>1, QueueTail
      <4>2. w = slots[p][m.to.pos][Len(slots[p][m.to.pos])]
        BY <2>8, <3>1, <3>2 DEF Last
      <4>3. QED
        BY <1>0, <2>7, <4>1, <4>2 DEF SlotsAreSpent
    <3>4. Spent(w)'
      BY <2>4, <3>3
    <3>5. Sound(r)'
      BY <2>9, <3>2, <3>4 DEF Sound
    <3>6. values <= values'
      BY <1>0, <1>2
    <3>7. \A l \in CallMessage : Travels(l)' => Travels(l) \/ (l.kind = "result" /\ Known(l)' /\ Sound(l)')
      BY <2>1, <2>2, <2>6, <3>5
    <3>8. QED
      BY <1>0, <1>2, <2>3, <3>1, <3>6, <3>7, ValuesAfter
  <2>12. QED
    BY <2>10, <2>11
<1>6. QED
  BY <1>4, <1>5

LEMMA ValuesOfResult ==
  ASSUME ObjectsKept, NumbersKept, ObjectsTyped', ValuesKept, NEW p \in Machines, TakeResult(p)
  PROVE  ValuesKept'
<1>. PICK m : m = Head(events[p])
  OBVIOUS
<1>. PICK new : new = [id |-> m.id, to |-> m.to, value |-> m.value, known |-> m.known]
  OBVIOUS
<1>0. PendingIsOnce /\ SlotsAreSpent /\ MessagesAreSound /\ AnswersAreSound /\ values \in Nat
  BY DEF ObjectsKept, ObjectsTyped, ValuesKept
<1>1. /\ events[p] # << >> /\ m.kind = "result" /\ events' = [events EXCEPT ![p] = Tail(@)]
      /\ answered' = answered \cup {new}
      /\ UNCHANGED <<starts, slots, values, running, finished, wire>>
  BY DEF TakeResult
<1>2. m \in CallMessage /\ Waits(p, m) /\ \A q \in Machines : Follows(q)
  BY <1>1, FirstEvent
<1>3. \A q \in Machines : \A l : Waits(q, l)' => Waits(q, l)
  BY <1>2, WaitsAfter
<1>4. \A l \in CallMessage : Travels(l)' => Travels(l)
  BY <1>1, <1>3, SendsSame DEF Travels
<1>5. \A l \in CallMessage : Pending(l)' => Pending(l)
  BY <1>4 DEF Pending
<1>6. \A v : Spent(v) => Spent(v)'
  BY <1>1, <1>5 DEF Spent
<1>7. ASSUME NEW a, Known(a) PROVE Known(a)'
  BY <1>1, <1>6, <1>7 DEF Known
<1>8. ASSUME NEW a, Sound(a) PROVE Sound(a)'
  <2>1. Fresh(a)'
    BY <1>1, <1>8 DEF Sound, Fresh
  <2>2. QED
    BY <1>6, <1>8, <2>1 DEF Sound
<1>9. Known(new) /\ Sound(new)
  <2>1. Known(m) /\ Sound(m)
    BY <1>0, <1>1, <1>2 DEF MessagesAreSound, Travels
  <2>2. new.to = m.to /\ new.value = m.value /\ new.known = m.known
    OBVIOUS
  <2>3. QED
    BY <2>1, <2>2 DEF Known, Sound, Fresh
<1>10. PendingIsOnce'
  BY <1>0, <1>1, <1>5 DEF PendingIsOnce
<1>11. SlotsAreSpent'
  <2>1. ASSUME NEW q \in Machines, NEW pos \in 1 .. Len(slots[q]), NEW k \in 1 .. Len(slots[q][pos]),
               NEW v, v = slots[q][pos][k]
        PROVE  Spent(v)'
    BY <1>0, <1>6, <2>1 DEF SlotsAreSpent
  <2>2. ASSUME NEW q \in Machines, NEW pos \in 1 .. Len(slots[q]), NEW k \in 1 .. Len(slots[q][pos])
        PROVE  /\ slots[q][pos][k] \in 0 .. values'
               /\ \A l \in CallMessage : Pending(l)' => l.value # slots[q][pos][k]
    BY <2>1 DEF Spent
  <2>3. slots' = slots
    BY <1>1
  <2>4. QED
    BY <2>2, <2>3 DEF SlotsAreSpent, Spent
<1>12. MessagesAreSound'
  <2>1. ASSUME NEW l \in CallMessage, Travels(l)' PROVE Known(l)' /\ (l.kind = "result" => Sound(l)')
    BY <1>0, <1>4, <1>7, <1>8, <2>1 DEF MessagesAreSound
  <2>2. QED
    BY <2>1 DEF MessagesAreSound
<1>13. AnswersAreSound'
  <2>1. ASSUME NEW a \in answered' PROVE Known(a)' /\ Sound(a)'
    BY <1>0, <1>1, <1>7, <1>8, <1>9 DEF AnswersAreSound
  <2>2. QED
    BY <2>1 DEF AnswersAreSound
<1>14. QED
  BY <1>10, <1>11, <1>12, <1>13 DEF ValuesKept

\* What was known of a process that restarts is of no use to anybody.
LEMMA ValuesOfRestart ==
  ASSUME ObjectsKept, ValuesKept, NEW p \in Machines, RestartPeer(p)
  PROVE  ValuesKept'
<1>0. /\ PendingIsOnce /\ SlotsAreSpent /\ MessagesAreSound /\ AnswersAreSound
      /\ ObjectsTyped /\ starts \in [Machines -> 0 .. 1]
  BY DEF ObjectsKept, ObjectsTyped, ValuesKept
<1>1. /\ starts[p] = 0 /\ starts'[p] = 1 /\ \A q \in Machines : q # p => starts'[q] = starts[q]
      /\ Len(slots'[p]) = 0 /\ \A q \in Machines : q # p => slots'[q] = slots[q]
      /\ Len(finished'[p]) = 0 /\ \A q \in Machines : q # p => finished'[q] = finished[q]
      /\ Len(events'[p]) = 0 /\ \A q \in Machines : q # p => events'[q] = events[q]
      /\ \A n \in Nodes : Home[n] = p => running'[n] = Idle
      /\ \A n \in Nodes : Home[n] # p => running'[n] = running[n]
      /\ wire' = {m \in wire : m.from # p /\ m.to.peer # p}
      /\ UNCHANGED <<values, answered>>
  BY <1>0, RestartFacts
<1>2. \A n \in Nodes : \A m : Sends(n, m)' => Sends(n, m)
  <2>1. Idle.busy = FALSE
    BY DEF Idle
  <2>2. \A n \in Nodes : running'[n].busy => running[n].busy /\ running'[n].sends = running[n].sends
    BY <1>1, <2>1
  <2>3. QED
    BY <1>0, <1>1, <2>2, SendsStill
<1>3. \A q \in Machines : \A m : Waits(q, m)' => Waits(q, m)
  <2>1. \A q \in Machines : Follows(q)
    BY <1>0, <1>1, FollowsSame
  <2>2. QED
    BY <2>1, WaitsAfter
<1>4. \A m \in CallMessage : Travels(m)' => Travels(m)
  BY <1>1, <1>2, <1>3 DEF Travels
<1>5. \A m \in CallMessage : Pending(m)' => Pending(m)
  BY <1>4 DEF Pending
<1>6. \A v : Spent(v) => Spent(v)'
  BY <1>1, <1>5 DEF Spent
<1>7. ASSUME NEW a, a.to \in Swiss, Known(a) PROVE Known(a)'
  <2>1. a.to.peer \in Machines /\ a.to.start \in 0 .. 1
    BY <1>7, SwissParts
  <2>2. a.to.start <= starts'[a.to.peer]
    BY <1>1, <1>7, <2>1 DEF Known
  <2>3. QED
    BY <1>6, <1>7, <2>2 DEF Known
<1>8. ASSUME NEW a, a.to \in Swiss, Known(a), Sound(a) PROVE Sound(a)'
  <2>1. a.to.peer \in Machines /\ a.to.start \in 0 .. 1
    BY <1>8, SwissParts
  <2>2. CASE a.to.peer = p
    <3>1. a.to.start # starts'[a.to.peer]
      BY <1>1, <1>8, <2>1, <2>2 DEF Known
    <3>2. QED
      BY <1>6, <1>8, <3>1 DEF Sound, Fresh
  <2>3. CASE a.to.peer # p
    <3>1. Fresh(a)'
      BY <1>1, <1>8, <2>1, <2>3 DEF Sound, Fresh
    <3>2. QED
      BY <1>6, <1>8, <3>1 DEF Sound
  <2>4. QED
    BY <2>2, <2>3
<1>9. PendingIsOnce'
  BY <1>0, <1>1, <1>5 DEF PendingIsOnce
<1>10. SlotsAreSpent'
  <2>1. ASSUME NEW q \in Machines, NEW pos \in 1 .. Len(slots'[q]), NEW k \in 1 .. Len(slots'[q][pos]),
               NEW v, v = slots'[q][pos][k]
        PROVE  Spent(v)'
    <3>1. CASE q = p
      BY <1>1, <2>1, <3>1
    <3>2. CASE q # p
      BY <1>0, <1>1, <1>6, <2>1, <3>2 DEF SlotsAreSpent
    <3>3. QED
      BY <3>1, <3>2
  <2>2. ASSUME NEW q \in Machines, NEW pos \in 1 .. Len(slots'[q]), NEW k \in 1 .. Len(slots'[q][pos])
        PROVE  /\ slots'[q][pos][k] \in 0 .. values'
               /\ \A m \in CallMessage : Pending(m)' => m.value # slots'[q][pos][k]
    BY <2>1 DEF Spent
  <2>3. QED
    BY <2>2 DEF SlotsAreSpent, Spent
<1>11. MessagesAreSound'
  <2>1. ASSUME NEW m \in CallMessage, Travels(m)' PROVE Known(m)' /\ (m.kind = "result" => Sound(m)')
    <3>1. m.to \in Swiss
      BY DEF CallMessage
    <3>2. QED
      BY <1>0, <1>4, <1>7, <1>8, <2>1, <3>1 DEF MessagesAreSound
  <2>2. QED
    BY <2>1 DEF MessagesAreSound
<1>12. AnswersAreSound'
  <2>1. ASSUME NEW a \in answered PROVE Known(a)' /\ Sound(a)'
    <3>1. a.to \in Swiss
      BY <1>0 DEF ObjectsTyped, Answered
    <3>2. QED
      BY <1>0, <1>7, <1>8, <3>1 DEF AnswersAreSound
  <2>2. QED
    BY <1>1, <2>1 DEF AnswersAreSound
<1>13. QED
  BY <1>9, <1>10, <1>11, <1>12 DEF ValuesKept

LEMMA ValuesStart ==
  ASSUME OcapnInit
  PROVE  ValuesKept
<1>1. /\ running = [n \in Nodes |-> Idle] /\ finished = [p \in Machines |-> << >>] /\ wire = {}
      /\ events = [p \in Machines |-> << >>] /\ slots = [p \in Machines |-> << >>] /\ answered = {}
  BY DEF OcapnInit
<1>2. Idle.busy = FALSE /\ Len(<< >>) = 0
  BY EmptySeq DEF Idle
<1>3. \A m : ~ Travels(m)
  BY <1>1, <1>2, Homes DEF Travels, Sends, Waits
<1>4. PendingIsOnce /\ MessagesAreSound /\ AnswersAreSound
  BY <1>1, <1>3 DEF PendingIsOnce, MessagesAreSound, AnswersAreSound, Pending
<1>5. SlotsAreSpent
  <2>1. \A p \in Machines : Len(slots[p]) = 0
    BY <1>1, <1>2
  <2>2. QED
    BY <2>1 DEF SlotsAreSpent
<1>6. QED
  BY <1>4, <1>5 DEF ValuesKept

LEMMA ValuesUnchanged ==
  ASSUME ObjectsKept, ValuesKept, Untouched
  PROVE  ValuesKept'
<1>1. UNCHANGED <<running, finished, wire, events, starts, answered, values, slots>>
  BY DEF Untouched
<1>2. \A m \in CallMessage : Travels(m)' => Travels(m)
  BY <1>1, SendsSame DEF Travels, Waits
<1>3. ObjectsTyped'
  BY ObjectsStill DEF ObjectsKept
<1>4. QED
  BY <1>1, <1>2, <1>3, ValuesStill

LEMMA ValuesKeep ==
  ASSUME ObjectsKept, NumbersKept, ValuesKept, OcapnNext
  PROVE  ValuesKept'
<1>0. ObjectsKept' /\ ObjectsTyped'
  BY ObjectsKeep DEF ObjectsKept
<1>1. ASSUME NEW n \in Nodes, Evaluate(n) \/ TakeMail(n) \/ EditScript(n) PROVE ValuesKept'
  BY <1>0, <1>1, ValuesOfScripts
<1>2. ASSUME NEW n \in Nodes, NEW pos \in 1 .. MaxValues, ReceiveSlot(n, pos) PROVE ValuesKept'
  BY <1>0, <1>2, ValuesOfScripts
<1>3. ASSUME NEW n \in Nodes, NEW id \in RequestIds, ReadResult(n, id) PROVE ValuesKept'
  BY <1>0, <1>3, ValuesOfScripts
<1>4. ASSUME NEW n \in Nodes, NEW ok \in BOOLEAN, Finish(n, ok) PROVE ValuesKept'
  BY <1>0, <1>4, ValuesOfScripts
<1>5. ASSUME NEW n \in Nodes, Export(n) \/ ExportNode(n) PROVE ValuesKept'
  BY <1>0, <1>5, ValuesOfExports
<1>6. ASSUME NEW n \in Nodes, NEW kind \in {"call", "only"}, NEW method \in {"get", "set"}, NEW to \in Swiss,
             Request(n, kind, method, to)
      PROVE  ValuesKept'
  BY <1>0, <1>6, ValuesOfRequest
<1>7. ASSUME NEW p \in Machines, Apply(p) \/ TakeDelivery(p) \/ NoticeCall(p) \/ TakeResult(p) \/ RestartPeer(p)
      PROVE  ValuesKept'
  BY <1>0, <1>7, ValuesOfApply, ValuesOfDelivery, ValuesOfNoticeCall, ValuesOfResult, ValuesOfRestart
<1>8. ASSUME NEW p \in Machines, NEW m \in wire, ServeCall(p, m) \/ HandOver(p, m) PROVE ValuesKept'
  BY <1>0, <1>8, ValuesOfServeCall, ValuesOfHandOver
<1>9. ASSUME NEW p \in Machines, NEW c \in Sheets, ShowCanvas(p, c) PROVE ValuesKept'
  BY <1>9, NothingTouched, ValuesUnchanged
<1>10. QED
  BY <1>1, <1>2, <1>3, <1>4, <1>5, <1>6, <1>7, <1>8, <1>9 DEF OcapnNext

\* A caller never reads a slot as it was before something it knew: whatever
\* restarts, and whatever is under way (bridge.rs, transport.rs).
THEOREM AnswersStayFresh == OcapnSpec => []AnswersAreFresh
<1>. DEFINE Inv == ObjectsKept /\ NumbersKept /\ RequestsCounted /\ ValuesKept
<1>1. OcapnInit => Inv
  BY OcapnStarts, NumbersStart, ValuesStart
<1>2. Inv /\ [OcapnNext]_ocapnVars => Inv'
  <2>1. ASSUME Inv, OcapnNext PROVE Inv'
    BY <2>1, ObjectsKeep, NumbersKeep, CountedStill, ValuesKeep
  <2>2. ASSUME Inv, UNCHANGED ocapnVars PROVE Inv'
    BY <2>2, NothingTouched, ObjectsStill, NumbersUnchanged, ValuesUnchanged
  <2>3. QED
    BY <2>1, <2>2
<1>3. Inv => AnswersAreFresh
  BY DEF ValuesKept, AnswersAreSound, Sound, Fresh, AnswersAreFresh
<1>4. QED
  BY <1>1, <1>2, <1>3, PTL DEF OcapnSpec

-----------------------------------------------------------------------------
(***************************************************************************)
(* Who has to be computed again                                            *)
(***************************************************************************)

\* An evaluation, or its result, holds what the script read.
Reads(n, x) ==
  \/ running[n].busy /\ running[n].read = x
  \/ \E k \in 1 .. Len(finished[Home[n]]) :
       finished[Home[n]][k].node = n /\ finished[Home[n]][k].read = x
Asks(n) == n \in asked \/ n \in missed
CallComes(p) == \E k \in 1 .. Len(events[p]) : events[p][k].kind = "call"

\* What a script may have read.
Fits(n, x) ==
  /\ x.pos # 0 => "receive" \in Does[n] /\ x.pos \in 1 .. Len(slots[Home[n]])
  /\ x.id # -1 => "call" \in Does[n] /\ (Rounded(x.id) # x.id => x.value = 0)
\* Another process wrote to the slot since.
Old(p, x) == x.pos # 0 /\ Upto(slots[p][x.pos], x.value) < farWrite[p][x.pos]
\* The result of the call came since.
Unread(p, x) == x.id \in DOMAIN results[p] /\ Rounded(x.id) = x.id /\ x.value # results[p][x.id]
\* Who read what is not so any more is to be computed; a call that was done still
\* has to be noticed.
Owes(n, x) ==
  /\ Old(Home[n], x) => Asks(n) \/ CallComes(Home[n])
  /\ Unread(Home[n], x) => Asks(n)

Reader(n) ==
  /\ \A x \in Reading : Reads(n, x) => Fits(n, x) /\ Owes(n, x)
  /\ Fits(n, display[n])
  /\ (\A x \in Reading : ~ Reads(n, x)) => Owes(n, display[n])
  /\ "mail" \in Does[n] /\ mail[n] # << >> => Asks(n) \/ running[n].busy
ReadersAreDue == \A n \in Nodes : Reader(n)
\* A script that failed is to be computed again.
FailuresAreDue == \A p \in Machines : \A k \in 1 .. Len(finished[p]) :
  finished[p][k].ok \/ Asks(finished[p][k].node)
ResultsAreAnswers == \A p \in Machines : \A id \in DOMAIN results[p] :
  \E a \in answered : a.id = id /\ a.value = results[p][id]

ReadersKept == ReadersAreDue /\ FailuresAreDue /\ ResultsAreAnswers

-----------------------------------------------------------------------------

LEMMA ReaderAfter ==
  ASSUME ObjectsTyped, NEW n \in Nodes, Reader(n),
         \A x \in Reading : Fits(n, x) => Fits(n, x)' /\ (Owes(n, x) => Owes(n, x)'),
         \A x \in Reading : Reads(n, x)' <=> Reads(n, x),
         display'[n] = display[n], "mail" \in Does[n] /\ mail'[n] # << >> => Asks(n)' \/ running'[n].busy
  PROVE  Reader(n)'
<1>1. PICK d \in Reading : d = display[n] /\ d = display'[n]
  BY DEF ObjectsTyped
<1>2. Fits(n, d) /\ ((\A x \in Reading : ~ Reads(n, x)) => Owes(n, d))
  BY <1>1 DEF Reader
<1>3. Fits(n, d)' /\ ((\A x \in Reading : ~ Reads(n, x)') => Owes(n, d)')
  BY <1>2
<1>4. \A x \in Reading : Reads(n, x)' => Fits(n, x)' /\ Owes(n, x)'
  BY DEF Reader
<1>5. Fits(n, display[n])' /\ ((\A x \in Reading : ~ Reads(n, x)') => Owes(n, display[n])')
  BY <1>1, <1>3 DEF Fits, Owes, Old, Unread
<1>6. QED
  BY <1>4, <1>5 DEF Reader

\* Nothing comes.
LEMMA OwesStill ==
  ASSUME NEW n \in Nodes, slots'[Home[n]] = slots[Home[n]], farWrite'[Home[n]] = farWrite[Home[n]],
         results'[Home[n]] = results[Home[n]],
         Asks(n) => Asks(n)', CallComes(Home[n]) => CallComes(Home[n])'
  PROVE  \A x : Fits(n, x) => Fits(n, x)' /\ (Owes(n, x) => Owes(n, x)')
BY DEF Fits, Owes, Old, Unread

LEMMA ReaderStill ==
  ASSUME ObjectsTyped, NEW n \in Nodes, Reader(n),
         slots'[Home[n]] = slots[Home[n]], farWrite'[Home[n]] = farWrite[Home[n]],
         results'[Home[n]] = results[Home[n]],
         Asks(n) => Asks(n)', CallComes(Home[n]) => CallComes(Home[n])',
         \A x \in Reading : Reads(n, x)' <=> Reads(n, x),
         display'[n] = display[n], "mail" \in Does[n] /\ mail'[n] # << >> => Asks(n)' \/ running'[n].busy
  PROVE  Reader(n)'
BY OwesStill, ReaderAfter

\* Only this process writes.
LEMMA OwesOfExport ==
  ASSUME ObjectsKept, NEW p \in Machines, NEW pos, NEW w \in Nat,
         (Rewrites(p, pos, w) /\ farWrite' = farWrite) \/ Adds(p, w),
         UNCHANGED <<results, asked, missed, events>>, NEW n \in Nodes, NEW x \in Reading, Fits(n, x)
  PROVE  Fits(n, x)' /\ (Owes(n, x) => Owes(n, x)')
<1>. DEFINE h == Home[n]
<1>0. ObjectsTyped /\ SlotsAreWritten /\ h \in Machines /\ x.value \in Nat
  BY Homes DEF ObjectsKept, Reading
<1>1. Asks(n)' <=> Asks(n)
  BY DEF Asks
<1>2. CallComes(h)' <=> CallComes(h)
  BY DEF CallComes
<1>3. Unread(h, x)' <=> Unread(h, x)
  BY DEF Unread
<1>4. x.pos # 0 => x.pos \in 1 .. Len(slots'[h])
  <2>1. SUFFICES ASSUME x.pos # 0 PROVE x.pos \in 1 .. Len(slots'[h])
    OBVIOUS
  <2>2. x.pos \in 1 .. Len(slots[h])
    BY <2>1 DEF Fits
  <2>3. Len(slots[h]) \in Nat /\ (Len(slots'[h]) = Len(slots[h]) \/ Len(slots'[h]) = Len(slots[h]) + 1)
    BY <1>0, SlotFacts DEF Rewrites, Adds
  <2>4. QED
    BY <2>2, <2>3
<1>5. Old(h, x)' => Old(h, x)
  <2>1. SUFFICES ASSUME x.pos # 0 PROVE Old(h, x)' => Old(h, x)
    BY DEF Old
  <2>2. x.pos \in 1 .. Len(slots[h])
    BY <2>1 DEF Fits
  <2>3. slots[h][x.pos] \in Seq(Nat) /\ farWrite[h][x.pos] \in Nat
    BY <1>0, <2>2, SlotFacts
  <2>4. farWrite'[h][x.pos] = farWrite[h][x.pos]
    <3>1. CASE farWrite' = farWrite
      BY <3>1
    <3>2. CASE Adds(p, w)
      <4>1. CASE h # p
        BY <1>0, <3>2, <4>1 DEF Adds
      <4>2. CASE h = p
        BY <2>2, <3>2, <4>2 DEF Adds
      <4>3. QED
        BY <4>1, <4>2
    <3>3. QED
      BY <3>1, <3>2
  <2>5. slots'[h][x.pos] = slots[h][x.pos] \/ slots'[h][x.pos] = Append(slots[h][x.pos], w)
    BY <1>0, <2>2 DEF Rewrites, Adds
  <2>6. Upto(slots[h][x.pos], x.value) \in Nat /\ Upto(slots'[h][x.pos], x.value) \in Nat
        /\ Upto(slots[h][x.pos], x.value) <= Upto(slots'[h][x.pos], x.value)
    <3>. DEFINE s == slots[h][x.pos]
    <3>1. Upto(s, x.value) \in 0 .. Len(s) /\ Len(s) \in Nat /\ Upto(s, x.value) <= Upto(Append(s, w), x.value)
          /\ Upto(Append(s, w), x.value) \in Nat
      BY <1>0, <2>3, UptoGrows
    <3>2. slots'[h][x.pos] = s \/ slots'[h][x.pos] = Append(s, w)
      BY <2>5
    <3>. HIDE DEF s
    <3>3. Upto(slots'[h][x.pos], x.value) = Upto(s, x.value) \/ Upto(slots'[h][x.pos], x.value) = Upto(Append(s, w), x.value)
      BY <3>2
    <3>4. Upto(s, x.value) \in Nat /\ Upto(slots'[h][x.pos], x.value) \in Nat
          /\ Upto(s, x.value) <= Upto(slots'[h][x.pos], x.value)
      BY <3>1, <3>3
    <3>5. QED
      BY <3>4 DEF s
  <2>7. QED
    BY <2>3, <2>4, <2>6 DEF Old
<1>6. Fits(n, x)'
  BY <1>4 DEF Fits
<1>7. QED
  BY <1>1, <1>2, <1>3, <1>5, <1>6 DEF Owes

LEMMA FailuresStill ==
  ASSUME ObjectsTyped, FailuresAreDue, finished' = finished, \A o \in Nodes : Asks(o) => Asks(o)'
  PROVE  FailuresAreDue'
<1>1. ASSUME NEW p \in Machines, NEW k \in 1 .. Len(finished[p])
      PROVE  finished[p][k].ok \/ Asks(finished[p][k].node)'
  BY <1>1, OutcomeOf DEF FailuresAreDue
<1>2. QED
  BY <1>1 DEF FailuresAreDue, Asks

LEMMA ReadsSame ==
  ASSUME finished' = finished,
         \A o \in Nodes : \/ running'[o] = running[o]
                          \/ running[o].busy /\ running'[o].busy /\ running'[o].read = running[o].read
  PROVE  \A o \in Nodes : \A x : Reads(o, x)' <=> Reads(o, x)
BY DEF Reads

\* A step of a script that reads nothing.
LEMMA ReadersOfExports ==
  ASSUME ObjectsKept, ReadersKept, NEW n \in Nodes, Export(n) \/ ExportNode(n)
  PROVE  ReadersKept'
<1>0. ObjectsTyped /\ SlotsAreWritten /\ ReadersAreDue /\ FailuresAreDue /\ ResultsAreAnswers /\ values \in Nat
  BY DEF ObjectsKept, ObjectsTyped, ReadersKept
<1>1. UNCHANGED <<results, asked, missed, events, display, mail, finished, answered>>
  BY DEF Export, ExportNode
<1>2. \A o \in Nodes : \/ running'[o] = running[o]
                       \/ running[o].busy /\ running'[o].busy /\ running'[o].read = running[o].read
  <2>1. CASE Export(n)
    <3>1. /\ running[n] \in Context
          /\ Runs(n, running[n].counter + 1, running[n].made + 1, running[n].sends, running[n].read)
      BY <1>0, <2>1, ExportRuns
    <3>2. running[n].busy
      BY <3>1, ContextFields
    <3>3. QED
      BY <3>1, <3>2, RunsFacts
  <2>2. CASE ExportNode(n)
    BY <2>2 DEF ExportNode
  <2>3. QED
    BY <2>1, <2>2
<1>3. \A o \in Nodes : \A x : Reads(o, x)' <=> Reads(o, x)
  BY <1>1, <1>2, ReadsSame
<1>4. \E p \in Machines : \E pos : (Rewrites(p, pos, values + 1) /\ farWrite' = farWrite) \/ Adds(p, values + 1)
  <2>1. CASE Export(n)
    <3>1. PositionOf(n) \in 1 .. Len(slots[Home[n]]) + 1
      BY PositionFound
    <3>2. QED
      BY <1>0, <2>1, <3>1, ExportWrites
  <2>2. CASE ExportNode(n)
    BY <1>0, <2>2, ExportNodeAdds
  <2>3. QED
    BY <2>1, <2>2
<1>. PICK p \in Machines : \E pos : (Rewrites(p, pos, values + 1) /\ farWrite' = farWrite) \/ Adds(p, values + 1)
  BY <1>4
<1>5. PICK pos : (Rewrites(p, pos, values + 1) /\ farWrite' = farWrite) \/ Adds(p, values + 1)
  OBVIOUS
<1>6. values + 1 \in Nat
  BY <1>0
<1>7. ASSUME NEW o \in Nodes PROVE Reader(o)'
  <2>1. \A x \in Reading : Fits(o, x) => Fits(o, x)' /\ (Owes(o, x) => Owes(o, x)')
    BY <1>1, <1>5, <1>6, OwesOfExport
  <2>2. "mail" \in Does[o] /\ mail'[o] # << >> => Asks(o)' \/ running'[o].busy
    BY <1>0, <1>1, <1>2 DEF ReadersAreDue, Reader, Asks
  <2>3. Reader(o) /\ display'[o] = display[o]
    BY <1>0, <1>1 DEF ReadersAreDue
  <2>4. QED
    BY <1>0, <1>3, <2>1, <2>2, <2>3, ReaderAfter
<1>8. ResultsAreAnswers' /\ FailuresAreDue'
  <2>1. \A o \in Nodes : Asks(o) => Asks(o)'
    BY <1>1 DEF Asks
  <2>2. QED
    BY <1>0, <1>1, <2>1, FailuresStill DEF ResultsAreAnswers
<1>9. QED
  BY <1>7, <1>8 DEF ReadersKept, ReadersAreDue

\* A script that reads nothing new, or a step of one node.
LEMMA ReadersFrame ==
  ASSUME ObjectsKept, ReadersKept, NEW n \in Nodes,
         UNCHANGED <<slots, farWrite, results, events, finished, display, answered>>,
         (Asks(n) => Asks(n)') \/ ~ InFlight(n),
         \A o \in Nodes : o # n => /\ running'[o] = running[o] /\ mail'[o] = mail[o]
                                   /\ Asks(o) => Asks(o)',
         Reader(n)'
  PROVE  ReadersKept'
<1>0. ObjectsTyped /\ OneAtATime /\ ReadersAreDue /\ FailuresAreDue /\ ResultsAreAnswers
  BY DEF ReadersKept, ObjectsKept
<1>1. ASSUME NEW o \in Nodes, o # n PROVE Reader(o)'
  <2>1. \A x \in Reading : Reads(o, x)' <=> Reads(o, x)
    BY <1>1 DEF Reads
  <2>2. Reader(o) /\ display'[o] = display[o] /\ (Asks(o) => Asks(o)')
    BY <1>0, <1>1 DEF ReadersAreDue
  <2>3. "mail" \in Does[o] /\ mail'[o] # << >> => Asks(o)' \/ running'[o].busy
    BY <1>1, <2>2 DEF Reader
  <2>4. CallComes(Home[o]) => CallComes(Home[o])'
    BY DEF CallComes
  <2>5. QED
    BY <1>0, <2>1, <2>2, <2>3, <2>4, ReaderStill
<1>2. ResultsAreAnswers'
  BY <1>0 DEF ResultsAreAnswers
<1>3. FailuresAreDue'
  <2>1. ASSUME NEW p \in Machines, NEW k \in 1 .. Len(finished[p])
        PROVE  finished[p][k].ok \/ Asks(finished[p][k].node)'
    <3>. PICK o \in Nodes : o = finished[p][k].node
      BY <1>0, <2>1, OutcomeOf
    <3>1. finished[p][k].ok \/ Asks(o)
      BY <1>0, <2>1 DEF FailuresAreDue
    <3>2. InFlight(o)
      <4>1. Home[o] = p /\ k \in DOMAIN finished[p]
        BY <1>0, <2>1, OutcomeOf DEF OneAtATime
      <4>2. QED
        BY <4>1 DEF InFlight
    <3>3. Asks(o) => Asks(o)'
      BY <3>2
    <3>4. QED
      BY <3>1, <3>3
  <2>2. QED
    BY <2>1 DEF FailuresAreDue, Asks
<1>4. QED
  BY <1>1, <1>2, <1>3 DEF ReadersKept, ReadersAreDue

\* The script has just read x, or nothing yet.
LEMMA ReaderRuns ==
  ASSUME ObjectsTyped, OneAtATime, ReadersKept, NEW n \in Nodes, NEW x \in Reading,
         UNCHANGED <<slots, farWrite, results, events, finished, display>>,
         running[n].busy \/ ~ InFlight(n),
         running'[n].busy, running'[n].read = x, Fits(n, x), ~ Old(Home[n], x), ~ Unread(Home[n], x)
  PROVE  Reader(n)'
<1>1. \A k \in 1 .. Len(finished[Home[n]]) : finished[Home[n]][k].node # n
  <2>1. CASE running[n].busy
    BY <2>1, Homes DEF OneAtATime
  <2>2. CASE ~ InFlight(n)
    <3>1. finished[Home[n]] \in Seq(Outcome)
      BY Homes DEF ObjectsTyped
    <3>2. DOMAIN finished[Home[n]] = 1 .. Len(finished[Home[n]])
      BY <3>1, LenProperties
    <3>3. QED
      BY <2>2, <3>2 DEF InFlight
  <2>3. QED
    BY <2>1, <2>2
<1>2. \A y \in Reading : Reads(n, y)' <=> y = x
  BY <1>1 DEF Reads
<1>3. Fits(n, x)' /\ Owes(n, x)'
  BY DEF Fits, Owes, Old, Unread
<1>4. Fits(n, display[n])
  BY DEF ReadersKept, ReadersAreDue, Reader
<1>5. Fits(n, display[n])'
  BY <1>4 DEF Fits
<1>6. QED
  BY <1>2, <1>3, <1>5 DEF Reader

LEMMA ReadersOfEvaluate ==
  ASSUME ObjectsKept, ReadersKept, NEW n \in Nodes, Evaluate(n)
  PROVE  ReadersKept'
<1>0. ObjectsTyped /\ OneAtATime
  BY DEF ObjectsKept
<1>1. /\ asked' = asked \ {n} /\ ~ InFlight(n)
      /\ UNCHANGED <<slots, farWrite, results, events, finished, display, answered, mail, missed>>
  BY DEF Evaluate
<1>2. /\ NothingShown \in Reading /\ running'[n].busy /\ running'[n].read = NothingShown
      /\ \A o \in Nodes : o # n => running'[o] = running[o]
  BY <1>0, EvaluateRuns, RunsFacts
<1>3. Fits(n, NothingShown) /\ ~ Old(Home[n], NothingShown) /\ ~ Unread(Home[n], NothingShown)
  <2>1. NothingShown.pos = 0 /\ NothingShown.id = -1
    BY DEF NothingShown
  <2>2. -1 \notin DOMAIN results[Home[n]]
    BY <1>0, Homes, OcapnAssumption DEF ObjectsTyped
  <2>3. QED
    BY <2>1, <2>2 DEF Fits, Old, Unread
<1>4. Reader(n)'
  BY <1>0, <1>1, <1>2, <1>3, ReaderRuns
<1>5. \A o \in Nodes : o # n => (Asks(o) => Asks(o)')
  BY <1>1 DEF Asks
<1>6. QED
  BY <1>0, <1>1, <1>2, <1>4, <1>5, ReadersFrame

LEMMA ReadersOfReceive ==
  ASSUME ObjectsKept, ReadersKept, NEW n \in Nodes, NEW pos \in 1 .. MaxValues, ReceiveSlot(n, pos)
  PROVE  ReadersKept'
<1>0. ObjectsTyped /\ OneAtATime /\ SlotsAreWritten /\ Home[n] \in Machines
  BY Homes DEF ObjectsKept
<1>. DEFINE s == slots[Home[n]][pos]
<1>. DEFINE x == [pos |-> pos, id |-> -1, value |-> Last(s)]
<1>1. /\ running[n].busy /\ "receive" \in Does[n] /\ pos \in 1 .. Len(slots[Home[n]])
      /\ UNCHANGED <<slots, farWrite, results, events, finished, display, answered, mail, asked, missed>>
  BY DEF ReceiveSlot, Scripting
<1>2. /\ running'[n].busy /\ running'[n].read = x /\ x \in Reading
      /\ \A o \in Nodes : o # n => running'[o] = running[o]
  <2>1. /\ running[n] \in Context
        /\ Runs(n, running[n].counter, running[n].made, running[n].sends, x)
    BY <1>0, ReceiveSlotRuns
  <2>2. running'[n] \in Context
    BY <2>1 DEF Runs
  <2>. HIDE DEF x
  <2>3. running'[n].read = x /\ running'[n].busy /\ \A o \in Nodes : o # n => running'[o] = running[o]
    BY <2>1, RunsFacts
  <2>4. QED
    BY <2>2, <2>3, ContextFields
<1>3. Fits(n, x) /\ ~ Unread(Home[n], x)
  <2>1. -1 \notin DOMAIN results[Home[n]]
    BY <1>0, OcapnAssumption DEF ObjectsTyped
  <2>2. QED
    BY <1>1, <2>1 DEF Fits, Unread
<1>4. ~ Old(Home[n], x)
  <2>1. s \in Seq(Nat) /\ s # << >> /\ farWrite[Home[n]][pos] \in Nat /\ farWrite[Home[n]][pos] <= Len(s)
        /\ Last(s) \in Nat /\ Len(s) \in Nat
    BY <1>0, <1>1, SlotFacts
  <2>2. Upto(s, Last(s)) = Len(s)
    BY <2>1, UptoGrows
  <2>3. x.pos = pos /\ x.value = Last(s)
    OBVIOUS
  <2>. HIDE DEF x
  <2>4. QED
    BY <2>1, <2>2, <2>3 DEF Old
<1>. HIDE DEF x
<1>5. Reader(n)'
  BY <1>0, <1>1, <1>2, <1>3, <1>4, ReaderRuns
<1>6. \A o \in Nodes : Asks(o) => Asks(o)'
  BY <1>1 DEF Asks
<1>7. QED
  BY <1>0, <1>1, <1>2, <1>5, <1>6, ReadersFrame

LEMMA ReadersOfReadResult ==
  ASSUME RoundedAreNew, ObjectsKept, ReadersKept, NEW n \in Nodes, NEW id \in RequestIds, ReadResult(n, id)
  PROVE  ReadersKept'
<1>0. ObjectsTyped /\ OneAtATime /\ Home[n] \in Machines
  BY Homes DEF ObjectsKept
<1>. DEFINE v == IF Rounded(id) \in DOMAIN results[Home[n]] THEN results[Home[n]][Rounded(id)] ELSE 0
<1>. DEFINE x == [pos |-> 0, id |-> id, value |-> v]
<1>1. /\ running[n].busy /\ "call" \in Does[n]
      /\ UNCHANGED <<slots, farWrite, results, events, finished, display, answered, mail, asked, missed>>
  BY DEF ReadResult, Scripting
<1>2. /\ running'[n].busy /\ running'[n].read = x /\ x \in Reading
      /\ \A o \in Nodes : o # n => running'[o] = running[o]
  <2>1. Runs(n, running[n].counter, running[n].made, running[n].sends, x)
    BY <1>0, ReadResultRuns
  <2>2. running'[n] \in Context
    BY <2>1 DEF Runs
  <2>. HIDE DEF x
  <2>3. running'[n].read = x /\ running'[n].busy /\ \A o \in Nodes : o # n => running'[o] = running[o]
    BY <2>1, RunsFacts
  <2>4. QED
    BY <2>2, <2>3, ContextFields
<1>3. Fits(n, x) /\ ~ Unread(Home[n], x) /\ ~ Old(Home[n], x)
  <2>1. Rounded(id) \in DOMAIN results[Home[n]] => Rounded(id) = id
    BY <1>0 DEF RoundedAreNew, ObjectsTyped
  <2>2. x.pos = 0 /\ x.id = id /\ x.value = v
    OBVIOUS
  <2>. HIDE DEF x
  <2>3. QED
    BY <1>1, <2>1, <2>2 DEF Fits, Unread, Old
<1>. HIDE DEF x
<1>4. Reader(n)'
  BY <1>0, <1>1, <1>2, <1>3, ReaderRuns
<1>5. \A o \in Nodes : Asks(o) => Asks(o)'
  BY <1>1 DEF Asks
<1>6. QED
  BY <1>0, <1>1, <1>2, <1>4, <1>5, ReadersFrame

LEMMA ReadersOfMail ==
  ASSUME ObjectsKept, ReadersKept, NEW n \in Nodes, TakeMail(n) \/ EditScript(n)
  PROVE  ReadersKept'
<1>0. ObjectsTyped /\ ReadersAreDue
  BY DEF ObjectsKept, ReadersKept
<1>1. /\ UNCHANGED <<slots, farWrite, results, events, finished, display, answered, running>>
      /\ \A o \in Nodes : o # n => mail'[o] = mail[o]
      /\ mail'[n] = mail[n] \/ running[n].busy
  BY <1>0 DEF TakeMail, Scripting, EditScript, ObjectsTyped
<1>2. \A o \in Nodes : Asks(o) => Asks(o)'
  BY DEF Asks, TakeMail, EditScript
<1>3. Reader(n)'
  <2>1. "mail" \in Does[n] /\ mail'[n] # << >> => Asks(n)' \/ running'[n].busy
    BY <1>0, <1>1, <1>2 DEF ReadersAreDue, Reader
  <2>2. \A x \in Reading : Reads(n, x)' <=> Reads(n, x)
    BY <1>1 DEF Reads
  <2>3. CallComes(Home[n]) => CallComes(Home[n])'
    BY <1>1 DEF CallComes
  <2>4. Reader(n) /\ display'[n] = display[n]
    BY <1>0, <1>1 DEF ReadersAreDue
  <2>5. QED
    BY <1>0, <1>1, <1>2, <2>1, <2>2, <2>3, <2>4, ReaderStill
<1>4. QED
  BY <1>0, <1>1, <1>2, <1>3, ReadersFrame

LEMMA ReadersOfRequest ==
  ASSUME ObjectsKept, ReadersKept, NEW n \in Nodes, NEW kind \in {"call", "only"}, NEW method \in {"get", "set"},
         NEW to \in Swiss, Request(n, kind, method, to)
  PROVE  ReadersKept'
<1>0. ObjectsTyped /\ ReadersAreDue
  BY DEF ObjectsKept, ReadersKept
<1>1. UNCHANGED <<slots, farWrite, results, events, finished, display, answered, mail, asked, missed>>
  BY DEF Request
<1>. PICK id \in Unused : AsksAs(n, kind, method, to, id)
  BY <1>0, RequestRuns
<1>2. /\ running[n] \in Context /\ running[n].sends = {}
      /\ Called(n, kind, method, to, id) \in CallMessage
      /\ requests' = [requests EXCEPT ![n] = @ \cup {id}]
      /\ Runs(n, running[n].counter, running[n].made, {Called(n, kind, method, to, id)}, running[n].read)
  BY DEF AsksAs
<1>3. running[n].busy
  BY <1>2, ContextFields
<1>4. running'[n].busy /\ running'[n].read = running[n].read /\ \A o \in Nodes : o # n => running'[o] = running[o]
  BY <1>2, RunsFacts
<1>5. \A o \in Nodes : Asks(o) => Asks(o)'
  BY <1>1 DEF Asks
<1>6. Reader(n)'
  <2>1. \A x \in Reading : Reads(n, x)' <=> Reads(n, x)
    BY <1>1, <1>3, <1>4 DEF Reads
  <2>2. CallComes(Home[n]) => CallComes(Home[n])'
    BY <1>1 DEF CallComes
  <2>3. Reader(n) /\ display'[n] = display[n]
    BY <1>0, <1>1 DEF ReadersAreDue
  <2>4. QED
    BY <1>0, <1>1, <1>4, <1>5, <2>1, <2>2, <2>3, ReaderStill
<1>7. QED
  BY <1>0, <1>1, <1>4, <1>5, <1>6, ReadersFrame

\* What was read goes into the result.
LEMMA FinishReads ==
  ASSUME ObjectsKept, NEW n \in Nodes, NEW ok \in BOOLEAN, Finish(n, ok), NEW o \in Nodes, NEW x
  PROVE  /\ Reads(o, x)' <=> Reads(o, x)
         /\ FailuresAreDue => FailuresAreDue'
<1>. DEFINE p == Home[n]
<1>. DEFINE r == [node |-> n, ok |-> ok, sends |-> running[n].sends, read |-> running[n].read]
<1>0. /\ running[n].busy /\ finished' = [finished EXCEPT ![p] = Append(@, r)]
      /\ running' = [running EXCEPT ![n] = Idle]
  BY DEF Finish
<1>1. r \in Outcome /\ p \in Machines /\ finished \in [Machines -> Seq(Outcome)]
      /\ running \in [Nodes -> Context \cup {Idle}]
  <2>1. running[n] \in Context
    BY <1>0, ContextOf DEF ObjectsKept
  <2>2. running[n].sends \in SUBSET CallMessage /\ running[n].read \in Reading
    BY <2>1, ContextFields
  <2>3. r \in Outcome
    BY <2>2 DEF Outcome
  <2>4. QED
    BY <2>3, Homes DEF ObjectsKept, ObjectsTyped
<1>2. r.node = n /\ r.read = running[n].read /\ r.ok = ok /\ Idle.busy = FALSE
  BY DEF Idle
<1>. HIDE DEF r
<1>3. /\ \A q \in Machines : q # p => finished'[q] = finished[q]
      /\ Len(finished[p]) \in Nat /\ Len(finished'[p]) = Len(finished[p]) + 1
      /\ finished'[p][Len(finished[p]) + 1] = r
      /\ \A k \in 1 .. Len(finished[p]) : finished'[p][k] = finished[p][k]
  BY <1>0, <1>1, QueuesAppend
<1>4. running'[n] = Idle /\ \A i \in Nodes : i # n => running'[i] = running[i]
  BY <1>0, <1>1
<1>5. \A k \in 1 .. Len(finished'[p]) :
        (k \in 1 .. Len(finished[p]) /\ finished'[p][k] = finished[p][k]) \/ finished'[p][k] = r
  BY <1>3
<1>6. Len(finished[p]) + 1 \in 1 .. Len(finished'[p]) /\ 1 .. Len(finished[p]) \subseteq 1 .. Len(finished'[p])
  BY <1>3
<1>7. Reads(o, x)' => Reads(o, x)
  <2>1. CASE running'[o].busy /\ running'[o].read = x
    BY <1>2, <1>4, <2>1 DEF Reads
  <2>2. ASSUME NEW k \in 1 .. Len(finished'[Home[o]]),
               finished'[Home[o]][k].node = o, finished'[Home[o]][k].read = x
        PROVE  Reads(o, x)
    <3>1. CASE Home[o] # p
      BY <1>3, <2>2, <3>1, Homes DEF Reads
    <3>2. CASE Home[o] = p /\ k \in 1 .. Len(finished[p]) /\ finished'[p][k] = finished[p][k]
      BY <2>2, <3>2 DEF Reads
    <3>3. CASE Home[o] = p /\ finished'[p][k] = r
      BY <1>0, <1>2, <2>2, <3>3 DEF Reads
    <3>4. QED
      BY <1>5, <2>2, <3>1, <3>2, <3>3
  <2>3. QED
    BY <2>1, <2>2 DEF Reads
<1>8. Reads(o, x) => Reads(o, x)'
  <2>1. CASE running[o].busy /\ running[o].read = x
    <3>1. CASE o = n
      <4>. DEFINE k == Len(finished[p]) + 1
      <4>1. k \in 1 .. Len(finished'[p]) /\ finished'[p][k] = r /\ r.node = o /\ r.read = x
        BY <1>2, <1>3, <1>6, <2>1, <3>1
      <4>. HIDE DEF k
      <4>2. Home[o] = p
        BY <3>1
      <4>3. QED
        BY <4>1, <4>2 DEF Reads
    <3>2. CASE o # n
      BY <1>4, <2>1, <3>2 DEF Reads
    <3>3. QED
      BY <3>1, <3>2
  <2>2. ASSUME NEW k \in 1 .. Len(finished[Home[o]]),
               finished[Home[o]][k].node = o, finished[Home[o]][k].read = x
        PROVE  Reads(o, x)'
    <3>1. CASE Home[o] # p
      BY <1>3, <2>2, <3>1, Homes DEF Reads
    <3>2. CASE Home[o] = p
      BY <1>3, <1>6, <2>2, <3>2 DEF Reads
    <3>3. QED
      BY <3>1, <3>2
  <2>3. QED
    BY <2>1, <2>2 DEF Reads
<1>9. FailuresAreDue => FailuresAreDue'
  <2>1. (\A q \in Nodes : Asks(q) => Asks(q)') /\ (ok \/ Asks(n)')
    BY DEF Finish, Asks
  <2>2. ASSUME FailuresAreDue, NEW q \in Machines, NEW k \in 1 .. Len(finished'[q])
        PROVE  finished'[q][k].ok \/ finished'[q][k].node \in asked' \cup missed'
    <3>1. CASE k \in 1 .. Len(finished[q]) /\ finished'[q][k] = finished[q][k]
      <4>. PICK i \in Nodes : i = finished[q][k].node
        BY <3>1, OutcomeOf DEF ObjectsKept
      <4>1. finished[q][k].ok \/ Asks(i)'
        BY <2>1, <2>2, <3>1 DEF FailuresAreDue
      <4>2. finished'[q][k].ok = finished[q][k].ok /\ finished'[q][k].node = i
        BY <3>1
      <4>3. QED
        BY <4>1, <4>2 DEF Asks
    <3>2. CASE finished'[q][k] = r
      <4>1. finished'[q][k].ok = ok /\ finished'[q][k].node = n
        BY <1>2, <3>2
      <4>2. QED
        BY <2>1, <4>1 DEF Asks
    <3>3. QED
      BY <1>3, <1>5, <2>2, <3>1, <3>2
  <2>3. QED
    BY <2>2 DEF FailuresAreDue, Asks
<1>10. QED
  BY <1>7, <1>8, <1>9

LEMMA ReadersOfFinish ==
  ASSUME ObjectsKept, ReadersKept, NEW n \in Nodes, NEW ok \in BOOLEAN, Finish(n, ok)
  PROVE  ReadersKept'
<1>0. ObjectsTyped /\ ReadersAreDue /\ FailuresAreDue /\ ResultsAreAnswers
  BY DEF ObjectsKept, ReadersKept
<1>1. /\ UNCHANGED <<slots, farWrite, results, events, display, answered, mail, asked>>
      /\ (ok /\ "mail" \in Does[n]) => mail[n] = << >>
      /\ (\A o \in Nodes : Asks(o) => Asks(o)') /\ (ok \/ Asks(n)')
      /\ \A o \in Nodes : o # n => running'[o] = running[o]
  BY <1>0 DEF Finish, ObjectsTyped, Asks
<1>2. ASSUME NEW o \in Nodes PROVE Reader(o)'
  <2>1. \A x \in Reading : Reads(o, x)' <=> Reads(o, x)
    BY FinishReads
  <2>2. CallComes(Home[o]) => CallComes(Home[o])'
    BY <1>1 DEF CallComes
  <2>3. Reader(o) /\ display'[o] = display[o] /\ (Asks(o) => Asks(o)')
    BY <1>0, <1>1 DEF ReadersAreDue
  <2>4. "mail" \in Does[o] /\ mail'[o] # << >> => Asks(o)' \/ running'[o].busy
    BY <1>1, <2>3 DEF Reader
  <2>5. QED
    BY <1>0, <1>1, <2>1, <2>2, <2>3, <2>4, ReaderStill
<1>3. FailuresAreDue' /\ ResultsAreAnswers'
  <2>1. FailuresAreDue'
    BY <1>0, FinishReads
  <2>2. QED
    BY <1>0, <1>1, <2>1 DEF ResultsAreAnswers
<1>4. QED
  BY <1>2, <1>3 DEF ReadersKept, ReadersAreDue

LEMMA ReadersOfApply ==
  ASSUME ObjectsKept, ReadersKept, NEW p \in Machines, Apply(p)
  PROVE  ReadersKept'
<1>. DEFINE r == finished[p][1]
<1>0. ObjectsTyped /\ OneAtATime /\ ReadersAreDue /\ FailuresAreDue /\ ResultsAreAnswers
  BY DEF ObjectsKept, ReadersKept
<1>1. /\ Head(finished[p]) = r /\ 1 \in 1 .. Len(finished[p])
      /\ \A q \in Machines : q # p => finished'[q] = finished[q]
      /\ \A k \in 1 .. Len(finished'[p]) : k + 1 \in 1 .. Len(finished[p]) /\ finished'[p][k] = finished[p][k + 1]
      /\ Len(finished[p]) \in Nat /\ Len(finished'[p]) = Len(finished[p]) - 1
  <2>1. finished[p] # << >> /\ finished' = [finished EXCEPT ![p] = Tail(@)]
    BY DEF Apply
  <2>2. finished \in [Machines -> Seq(Outcome)]
    BY <1>0 DEF ObjectsTyped
  <2>3. /\ \A q \in Machines : q # p => finished'[q] = finished[q]
        /\ Len(finished[p]) \in Nat \ {0} /\ Len(finished'[p]) = Len(finished[p]) - 1
        /\ Head(finished[p]) = finished[p][1]
        /\ \A k \in 1 .. Len(finished[p]) - 1 : k + 1 \in 1 .. Len(finished[p]) /\ finished'[p][k] = finished[p][k + 1]
    BY <2>1, <2>2, QueuesTail
  <2>4. QED
    BY <2>3
<1>2. r \in Outcome
  BY <1>0, <1>1, OutcomeOf
<1>3. /\ UNCHANGED <<slots, farWrite, results, events, running, answered, mail, asked, missed>>
      /\ IF r.ok THEN display' = [display EXCEPT ![r.node] = r.read] ELSE display' = display
  BY <1>1 DEF Apply
<1>. PICK n \in Nodes : n = r.node
  BY <1>2 DEF Outcome
<1>4. /\ Home[n] = p /\ ~ running[n].busy
      /\ \A j \in 1 .. Len(finished[p]) : finished[p][j].node = n => j = 1
  BY <1>0, <1>1 DEF OneAtATime
<1>5. ASSUME NEW o \in Nodes, o # n, NEW x PROVE Reads(o, x)' <=> Reads(o, x)
  <2>1. CASE Home[o] # p
    BY <1>1, <1>3, <2>1, Homes DEF Reads
  <2>2. CASE Home[o] = p
    <3>1. ASSUME NEW k \in 1 .. Len(finished'[p]), finished'[p][k].node = o, finished'[p][k].read = x
          PROVE  Reads(o, x)
      BY <1>1, <2>2, <3>1 DEF Reads
    <3>2. ASSUME NEW k \in 1 .. Len(finished[p]), finished[p][k].node = o, finished[p][k].read = x
          PROVE  Reads(o, x)'
      <4>1. k # 1
        BY <1>5, <3>2
      <4>2. k - 1 \in 1 .. Len(finished'[p]) /\ (k - 1) + 1 = k
        BY <1>1, <3>2, <4>1
      <4>3. finished'[p][k - 1] = finished[p][k]
        BY <1>1, <4>2
      <4>4. QED
        BY <2>2, <3>2, <4>2, <4>3 DEF Reads
    <3>3. QED
      BY <1>3, <2>2, <3>1, <3>2 DEF Reads
  <2>3. QED
    BY <2>1, <2>2
<1>6. ASSUME NEW o \in Nodes, o # n PROVE Reader(o)'
  <2>1. \A x \in Reading : Reads(o, x)' <=> Reads(o, x)
    BY <1>5, <1>6
  <2>2. CallComes(Home[o]) => CallComes(Home[o])'
    BY <1>3 DEF CallComes
  <2>3. Reader(o) /\ display'[o] = display[o] /\ (Asks(o) => Asks(o)')
    BY <1>0, <1>3, <1>6 DEF ReadersAreDue, Asks, ObjectsTyped
  <2>4. "mail" \in Does[o] /\ mail'[o] # << >> => Asks(o)' \/ running'[o].busy
    BY <1>3, <2>3 DEF Reader
  <2>5. QED
    BY <1>0, <1>3, <2>1, <2>2, <2>3, <2>4, ReaderStill
<1>7. Reader(n)'
  <2>1. \A x \in Reading : ~ Reads(n, x)'
    <3>1. ASSUME NEW k \in 1 .. Len(finished'[p]), finished'[p][k].node = n PROVE FALSE
      <4>1. k + 1 = 1
        BY <1>1, <1>4, <3>1
      <4>2. QED
        BY <4>1
    <3>2. QED
      BY <1>3, <1>4, <3>1 DEF Reads
  <2>2. Reader(n)
    BY <1>0 DEF ReadersAreDue
  <2>3. "mail" \in Does[n] /\ mail'[n] # << >> => Asks(n)' \/ running'[n].busy
    BY <1>3, <2>2 DEF Reader, Asks
  <2>4. \A x : (Fits(n, x)' <=> Fits(n, x)) /\ (Owes(n, x)' <=> Owes(n, x))
    BY <1>3 DEF Fits, Owes, Old, Unread, Asks, CallComes
  <2>5. PICK d \in Reading : d = display'[n]
    <3>1. display[n] \in Reading /\ r.read \in Reading /\ display \in [Nodes -> Reading]
      BY <1>0, <1>2 DEF ObjectsTyped, Outcome
    <3>2. display'[n] = display[n] \/ display'[n] = r.read
      BY <1>3, <3>1
    <3>3. QED
      BY <3>1, <3>2
  <2>6. Fits(n, d) /\ Owes(n, d)
    <3>1. CASE r.ok
      <4>1. display'[n] = r.read
        BY <1>0, <1>3, <3>1 DEF ObjectsTyped
      <4>2. Reads(n, d)
        BY <1>1, <1>4, <2>5, <4>1 DEF Reads
      <4>3. QED
        BY <2>2, <4>2 DEF Reader
    <3>2. CASE ~ r.ok
      <4>1. Asks(n)
        BY <1>0, <1>1, <3>2 DEF FailuresAreDue
      <4>2. d = display[n]
        BY <1>3, <2>5, <3>2
      <4>3. Fits(n, d)
        BY <2>2, <4>2 DEF Reader
      <4>4. QED
        BY <4>1, <4>3 DEF Owes
    <3>3. QED
      BY <3>1, <3>2
  <2>7. Fits(n, d)' /\ Owes(n, d)'
    BY <2>4, <2>6
  <2>8. Fits(n, display[n])' /\ Owes(n, display[n])'
    BY <2>5, <2>7 DEF Fits, Owes, Old, Unread
  <2>9. QED
    BY <2>1, <2>3, <2>8 DEF Reader
<1>. HIDE DEF r
<1>8. FailuresAreDue'
  <2>1. ASSUME NEW q \in Machines, NEW k \in 1 .. Len(finished'[q])
        PROVE  finished'[q][k].ok \/ finished'[q][k].node \in asked' \cup missed'
    <3>1. CASE q # p
      BY <1>0, <1>1, <1>3, <2>1, <3>1 DEF FailuresAreDue, Asks
    <3>2. CASE q = p
      BY <1>0, <1>1, <1>3, <2>1, <3>2 DEF FailuresAreDue, Asks
    <3>3. QED
      BY <3>1, <3>2
  <2>2. QED
    BY <1>3, <2>1 DEF FailuresAreDue, Asks
<1>9. ResultsAreAnswers'
  BY <1>0, <1>3 DEF ResultsAreAnswers
<1>10. QED
  BY <1>6, <1>7, <1>8, <1>9 DEF ReadersKept, ReadersAreDue

LEMMA ReadsStill ==
  ASSUME UNCHANGED <<running, finished>>
  PROVE  \A o \in Nodes : \A x : Reads(o, x)' <=> Reads(o, x)
BY DEF Reads

LEMMA ComputedAsks ==
  ASSUME NEW p, NEW what, NEW others \in SUBSET Nodes, Recompute(p, what, others)
  PROVE  \A n \in Nodes : (Asks(n) => Asks(n)') /\ (n \in Concerned(p, what) \cup others => Asks(n)')
BY DEF Recompute, Marked, Asks

LEMMA CallStillComes ==
  ASSUME ObjectsKept, NEW p \in Machines, events[p] # << >>,
         events' = [events EXCEPT ![p] = Tail(@)], Head(events[p]).kind # "call"
  PROVE  \A q \in Machines : CallComes(q) => CallComes(q)'
<1>1. /\ Head(events[p]) = events[p][1] /\ \A q \in Machines : q # p => events'[q] = events[q]
      /\ Len(events[p]) \in Nat /\ Len(events'[p]) = Len(events[p]) - 1
      /\ \A k \in 1 .. Len(events'[p]) : k + 1 \in 1 .. Len(events[p]) /\ events'[p][k] = events[p][k + 1]
  BY EventsAfter DEF ObjectsKept
<1>2. ASSUME NEW k \in 1 .. Len(events[p]), events[p][k].kind = "call" PROVE CallComes(p)'
  <2>1. k # 1
    BY <1>1, <1>2
  <2>2. k - 1 \in 1 .. Len(events'[p]) /\ (k - 1) + 1 = k
    BY <1>1, <1>2, <2>1
  <2>3. events'[p][k - 1] = events[p][k]
    BY <1>1, <2>2
  <2>4. QED
    BY <1>2, <2>2, <2>3 DEF CallComes
<1>3. ASSUME NEW q \in Machines, CallComes(q) PROVE CallComes(q)'
  <2>1. CASE q = p
    BY <1>2, <1>3, <2>1 DEF CallComes
  <2>2. CASE q # p
    BY <1>1, <1>3, <2>2 DEF CallComes
  <2>3. QED
    BY <2>1, <2>2
<1>4. QED
  BY <1>3

\* A step of the owner or the transport thread of p.
LEMMA ReadersFollow ==
  ASSUME ObjectsKept, ReadersKept, NEW p \in Machines, UNCHANGED <<running, finished, display>>,
         \A q \in Machines : q # p => /\ slots'[q] = slots[q] /\ farWrite'[q] = farWrite[q]
                                      /\ results'[q] = results[q] /\ (CallComes(q) => CallComes(q)'),
         \A n \in Nodes : Asks(n) => Asks(n)',
         \A n \in Nodes : mail'[n] = mail[n] \/ Asks(n)',
         Len(slots[p]) <= Len(slots'[p]), Len(slots'[p]) \in Nat,
         \A n \in Nodes : Home[n] = p => \A x \in Reading : Fits(n, x) /\ Owes(n, x) => Owes(n, x)',
         ResultsAreAnswers'
  PROVE  ReadersKept'
<1>0. ObjectsTyped /\ SlotsAreWritten /\ ReadersAreDue /\ FailuresAreDue
  BY DEF ObjectsKept, ReadersKept
<1>1. ASSUME NEW n \in Nodes PROVE Reader(n)'
  <2>1. Reader(n) /\ display'[n] = display[n]
    BY <1>0 DEF ReadersAreDue
  <2>2. "mail" \in Does[n] /\ mail'[n] # << >> => Asks(n)' \/ running'[n].busy
    BY <2>1 DEF Reader
  <2>3. \A x \in Reading : Reads(n, x)' <=> Reads(n, x)
    BY ReadsStill
  <2>4. CASE Home[n] # p
    BY <1>0, <2>1, <2>2, <2>3, <2>4, Homes, ReaderStill
  <2>5. CASE Home[n] = p
    <3>1. ASSUME NEW x \in Reading, Fits(n, x) PROVE Fits(n, x)'
      <4>1. x.pos # 0 => x.pos \in 1 .. Len(slots'[p])
        <5>1. Len(slots[p]) \in Nat
          BY <1>0, SlotFacts
        <5>2. QED
          BY <2>5, <3>1, <5>1 DEF Fits
      <4>2. QED
        BY <2>5, <3>1, <4>1 DEF Fits
    <3>2. \A x \in Reading : Fits(n, x) => (Owes(n, x) => Owes(n, x)')
      BY <2>5
    <3>3. QED
      BY <1>0, <2>1, <2>2, <2>3, <3>1, <3>2, ReaderAfter
  <2>6. QED
    BY <2>4, <2>5
<1>2. FailuresAreDue'
  BY <1>0, FailuresStill
<1>3. QED
  BY <1>1, <1>2 DEF ReadersKept, ReadersAreDue

LEMMA ReadersOfServeCall ==
  ASSUME ObjectsKept, ReadersKept, NEW p \in Machines, NEW m \in wire, ServeCall(p, m)
  PROVE  ReadersKept'
<1>0. ObjectsTyped /\ SlotsAreWritten /\ EventsAddressed /\ ResultsAreAnswers
  BY DEF ObjectsKept, ReadersKept
<1>1. m \in CallMessage /\ m.kind = "call" /\ m.to.peer = p
  BY <1>0, ServedCall
<1>2. /\ events' = Told(p, m)
      /\ UNCHANGED <<running, finished, display, results, answered, mail, asked, missed>>
      /\ \/ Lookup(p, m.to) /\ slots' = Delivered(p, m) /\ farWrite' = FarWritten(p, m)
         \/ slots' = slots /\ farWrite' = farWrite
  BY DEF ServeCall
<1>3. /\ \A q \in Machines : q # p => events'[q] = events[q]
      /\ Len(events[p]) \in Nat /\ Len(events'[p]) = Len(events[p]) + 1
      /\ events'[p][Len(events[p]) + 1] = m
  BY <1>0, <1>1, <1>2, EventsTold
<1>4. CallComes(p)'
  <2>1. Len(events[p]) + 1 \in 1 .. Len(events'[p])
    BY <1>3
  <2>2. QED
    BY <1>1, <1>3, <2>1 DEF CallComes
<1>5. \A q \in Machines : q # p => slots'[q] = slots[q] /\ farWrite'[q] = farWrite[q]
  <2>1. CASE slots' = slots /\ farWrite' = farWrite
    BY <2>1
  <2>2. CASE Lookup(p, m.to) /\ slots' = Delivered(p, m) /\ farWrite' = FarWritten(p, m)
    BY <1>0, <1>1, <2>2, DeliveryWrites DEF Rewrites
  <2>3. QED
    BY <1>2, <2>1, <2>2
<1>6. Len(slots[p]) <= Len(slots'[p]) /\ Len(slots'[p]) \in Nat
  <2>1. Len(slots[p]) <= Len(slots'[p]) /\ slots' \in [Machines -> Seq(Seq(Nat))]
    BY <1>0, <1>1, <1>2, DeliveryKeeps
  <2>2. QED
    BY <2>1, LenProperties
<1>7. \A q \in Machines : q # p => (CallComes(q) => CallComes(q)')
  BY <1>3 DEF CallComes
<1>8. \A n \in Nodes : Asks(n) => Asks(n)'
  BY <1>2 DEF Asks
<1>9. \A n \in Nodes : Home[n] = p => \A x \in Reading : Fits(n, x) /\ Owes(n, x) => Owes(n, x)'
  BY <1>2, <1>4, <1>8 DEF Owes, Unread
<1>10. ResultsAreAnswers'
  BY <1>0, <1>2 DEF ResultsAreAnswers
<1>11. QED
  BY <1>2, <1>5, <1>6, <1>7, <1>8, <1>9, <1>10, ReadersFollow

LEMMA ReadersOfHandOver ==
  ASSUME ObjectsKept, ReadersKept, NEW p \in Machines, NEW m \in wire, HandOver(p, m)
  PROVE  ReadersKept'
<1>0. ObjectsTyped /\ SlotsAreWritten /\ EventsAddressed /\ ResultsAreAnswers
  BY DEF ObjectsKept, ReadersKept
<1>1. m \in CallMessage /\ IF m.kind = "result" THEN m.from = p ELSE m.to.peer = p
  BY <1>0 DEF ObjectsTyped, HandOver
<1>2. /\ events' = Told(p, m)
      /\ UNCHANGED <<running, finished, display, results, answered, mail, asked, missed, slots, farWrite>>
  BY DEF HandOver
<1>3. /\ \A q \in Machines : q # p => events'[q] = events[q]
      /\ Len(events[p]) \in Nat /\ Len(events'[p]) = Len(events[p]) + 1
      /\ \A k \in 1 .. Len(events[p]) : events'[p][k] = events[p][k]
  BY <1>0, <1>1, <1>2, EventsTold
<1>4. \A q \in Machines : CallComes(q) => CallComes(q)'
  <2>1. 1 .. Len(events[p]) \subseteq 1 .. Len(events'[p])
    BY <1>3
  <2>2. ASSUME NEW q \in Machines, CallComes(q) PROVE CallComes(q)'
    <3>1. CASE q = p
      BY <1>3, <2>1, <2>2, <3>1 DEF CallComes
    <3>2. CASE q # p
      BY <1>3, <2>2, <3>2 DEF CallComes
    <3>3. QED
      BY <3>1, <3>2
  <2>3. QED
    BY <2>2
<1>5. \A n \in Nodes : Asks(n) => Asks(n)'
  BY <1>2 DEF Asks
<1>6. Len(slots[p]) <= Len(slots'[p]) /\ Len(slots'[p]) \in Nat
  <2>1. Len(slots[p]) \in Nat
    BY <1>0, SlotFacts
  <2>2. QED
    BY <1>2, <2>1
<1>7. \A n \in Nodes : Home[n] = p => \A x \in Reading : Fits(n, x) /\ Owes(n, x) => Owes(n, x)'
  BY <1>2, <1>4, <1>5 DEF Owes, Unread, Old
<1>8. ResultsAreAnswers'
  BY <1>0, <1>2 DEF ResultsAreAnswers
<1>9. QED
  BY <1>2, <1>4, <1>5, <1>6, <1>7, <1>8, ReadersFollow

LEMMA ReadersOfDelivery ==
  ASSUME ObjectsKept, ReadersKept, NEW p \in Machines, TakeDelivery(p)
  PROVE  ReadersKept'
<1>. PICK m : m = Head(events[p])
  OBVIOUS
<1>0. ObjectsTyped /\ SlotsAreWritten /\ EventsAddressed /\ ResultsAreAnswers
  BY DEF ObjectsKept, ReadersKept
<1>1. /\ events[p] # << >> /\ m.kind = "only" /\ events' = [events EXCEPT ![p] = Tail(@)]
      /\ UNCHANGED <<running, finished, display, results, answered>>
      /\ \/ /\ Lookup(p, m.to) /\ slots' = Delivered(p, m) /\ farWrite' = FarWritten(p, m)
            /\ mail' = [n \in Nodes |-> IF n \in Owner(p, m) THEN Append(mail[n], m.id) ELSE mail[n]]
            /\ Recompute(p, "receive", Woken(p, m))
         \/ UNCHANGED <<slots, farWrite, mail, asked, missed>>
  BY DEF TakeDelivery
<1>2. m \in CallMessage /\ m.to.peer = p
  BY <1>0, <1>1, EventsAfter
<1>3. \A q \in Machines : CallComes(q) => CallComes(q)'
  BY <1>1, CallStillComes
<1>4. /\ \A q \in Machines : q # p => slots'[q] = slots[q] /\ farWrite'[q] = farWrite[q]
      /\ slots' \in [Machines -> Seq(Seq(Nat))] /\ Len(slots[p]) <= Len(slots'[p])
  <2>1. slots' \in [Machines -> Seq(Seq(Nat))] /\ Len(slots[p]) <= Len(slots'[p])
    BY <1>0, <1>1, <1>2, DeliveryKeeps
  <2>2. CASE slots' = slots /\ farWrite' = farWrite
    BY <2>1, <2>2
  <2>3. CASE Lookup(p, m.to) /\ slots' = Delivered(p, m) /\ farWrite' = FarWritten(p, m)
    BY <1>0, <1>2, <2>1, <2>3, DeliveryWrites DEF Rewrites
  <2>4. QED
    BY <1>1, <2>2, <2>3
<1>5. Len(slots'[p]) \in Nat
  BY <1>4, LenProperties
<1>6. ResultsAreAnswers'
  BY <1>0, <1>1 DEF ResultsAreAnswers
<1>7. CASE UNCHANGED <<slots, farWrite, mail, asked, missed>>
  <2>1. \A n \in Nodes : Asks(n) => Asks(n)'
    BY <1>7 DEF Asks
  <2>2. \A n \in Nodes : Home[n] = p => \A x \in Reading : Fits(n, x) /\ Owes(n, x) => Owes(n, x)'
    BY <1>1, <1>3, <1>7, <2>1 DEF Owes, Unread, Old
  <2>3. QED
    BY <1>1, <1>3, <1>4, <1>5, <1>6, <1>7, <2>1, <2>2, ReadersFollow
<1>8. CASE /\ mail' = [n \in Nodes |-> IF n \in Owner(p, m) THEN Append(mail[n], m.id) ELSE mail[n]]
           /\ Recompute(p, "receive", Woken(p, m))
  <2>1. /\ \A n \in Nodes : Asks(n) => Asks(n)'
        /\ \A n \in Nodes : n \in Concerned(p, "receive") \cup Woken(p, m) => Asks(n)'
    <3>1. Woken(p, m) \in SUBSET Nodes
      BY DEF Woken, Owner
    <3>2. QED
      BY <1>8, <3>1, ComputedAsks
  <2>2. \A n \in Nodes : mail'[n] = mail[n] \/ Asks(n)'
    BY <1>8, <2>1 DEF Woken
  <2>3. \A n \in Nodes : Home[n] = p => \A x \in Reading : Fits(n, x) /\ Owes(n, x) => Owes(n, x)'
    <3>1. ASSUME NEW n \in Nodes, Home[n] = p, NEW x \in Reading, Fits(n, x), Old(p, x)' PROVE Asks(n)'
      <4>1. "receive" \in Does[n]
        BY <3>1 DEF Old, Fits
      <4>2. QED
        BY <2>1, <3>1, <4>1 DEF Concerned
    <3>2. \A x \in Reading : Unread(p, x)' <=> Unread(p, x)
      BY <1>1 DEF Unread
    <3>3. QED
      BY <2>1, <3>1, <3>2 DEF Owes
  <2>4. QED
    BY <1>1, <1>3, <1>4, <1>5, <1>6, <2>1, <2>2, <2>3, ReadersFollow
<1>9. QED
  BY <1>1, <1>7, <1>8

LEMMA ReadersOfNoticeCall ==
  ASSUME ObjectsKept, ReadersKept, NEW p \in Machines, NoticeCall(p)
  PROVE  ReadersKept'
<1>0. ObjectsTyped /\ SlotsAreWritten /\ EventsAddressed /\ ResultsAreAnswers
  BY DEF ObjectsKept, ReadersKept
<1>1. /\ events[p] # << >> /\ events' = [events EXCEPT ![p] = Tail(@)]
      /\ UNCHANGED <<running, finished, display, results, answered, slots, farWrite, mail>>
      /\ Recompute(p, "receive", {})
  BY DEF NoticeCall
<1>2. \A q \in Machines : q # p => (CallComes(q) => CallComes(q)')
  BY <1>0, <1>1, EventsAfter DEF CallComes
<1>3. {} \in SUBSET Nodes
  OBVIOUS
<1>4. \A n \in Nodes : (Asks(n) => Asks(n)') /\ (n \in Concerned(p, "receive") => Asks(n)')
  BY <1>1, <1>3, ComputedAsks
<1>5. Len(slots[p]) <= Len(slots'[p]) /\ Len(slots'[p]) \in Nat
  <2>1. Len(slots[p]) \in Nat
    BY <1>0, SlotFacts
  <2>2. QED
    BY <1>1, <2>1
<1>6. ASSUME NEW n \in Nodes, Home[n] = p, NEW x \in Reading, Fits(n, x), Owes(n, x)
      PROVE  Owes(n, x)'
  <2>1. (Old(p, x)' <=> Old(p, x)) /\ (Unread(p, x)' <=> Unread(p, x))
    BY <1>1 DEF Old, Unread
  <2>2. Old(p, x) => Asks(n)'
    BY <1>4, <1>6 DEF Old, Fits, Concerned
  <2>3. QED
    BY <1>4, <1>6, <2>1, <2>2 DEF Owes
<1>7. ResultsAreAnswers'
  BY <1>0, <1>1 DEF ResultsAreAnswers
<1>8. QED
  BY <1>1, <1>2, <1>4, <1>5, <1>6, <1>7, ReadersFollow

LEMMA ReadersOfTakeResult ==
  ASSUME ObjectsKept, ReadersKept, NEW p \in Machines, TakeResult(p)
  PROVE  ReadersKept'
<1>. PICK m : m = Head(events[p])
  OBVIOUS
<1>0. ObjectsTyped /\ SlotsAreWritten /\ EventsAddressed /\ ResultsAreAnswers
  BY DEF ObjectsKept, ReadersKept
<1>1. /\ events[p] # << >> /\ m.kind = "result" /\ events' = [events EXCEPT ![p] = Tail(@)]
      /\ UNCHANGED <<running, finished, display, slots, farWrite, mail>>
      /\ results' = [results EXCEPT ![p] =
                       [k \in DOMAIN @ \cup {m.id} |-> IF k = m.id THEN m.value ELSE @[k]]]
      /\ answered' = answered \cup {[id |-> m.id, to |-> m.to, value |-> m.value, known |-> m.known]}
      /\ Recompute(p, "call", {})
  BY DEF TakeResult
<1>2. m \in CallMessage
  BY <1>0, <1>1, EventsAfter
<1>3. \A q \in Machines : CallComes(q) => CallComes(q)'
  BY <1>1, CallStillComes
<1>4. /\ DOMAIN results' = Machines /\ \A q \in Machines : q # p => results'[q] = results[q]
      /\ DOMAIN results'[p] = DOMAIN results[p] \cup {m.id}
      /\ results'[p][m.id] = m.value
      /\ \A k \in DOMAIN results[p] : k # m.id => results'[p][k] = results[p][k]
      /\ \A q \in Machines : \A id \in DOMAIN results'[q] : id \in RequestIds /\ results'[q][id] \in Nat
  BY <1>0, <1>1, <1>2, TakeResultAfter
<1>5. \A n \in Nodes : (Asks(n) => Asks(n)') /\ (n \in Concerned(p, "call") => Asks(n)')
  <2>1. {} \in SUBSET Nodes
    OBVIOUS
  <2>2. QED
    BY <1>1, <2>1, ComputedAsks
<1>6. Len(slots[p]) <= Len(slots'[p]) /\ Len(slots'[p]) \in Nat
  <2>1. Len(slots[p]) \in Nat
    BY <1>0, SlotFacts
  <2>2. QED
    BY <1>1, <2>1
<1>7. ASSUME NEW n \in Nodes, Home[n] = p, NEW x \in Reading, Fits(n, x), Owes(n, x)
      PROVE  Owes(n, x)'
  <2>1. Old(p, x)' <=> Old(p, x)
    BY <1>1 DEF Old
  <2>2. Unread(p, x)' => Asks(n)'
    <3>1. ASSUME Unread(p, x)' PROVE x.id # -1
      BY <1>4, <3>1, OcapnAssumption DEF Unread
    <3>2. QED
      BY <1>5, <1>7, <3>1 DEF Fits, Concerned
  <2>3. (Old(p, x) => Asks(n) \/ CallComes(p)) /\ (CallComes(p) => CallComes(p)')
    BY <1>3, <1>7 DEF Owes
  <2>4. QED
    BY <1>5, <1>7, <2>1, <2>2, <2>3 DEF Owes
<1>8. ResultsAreAnswers'
  <2>1. ASSUME NEW q \in Machines, NEW id \in DOMAIN results'[q]
        PROVE  \E a \in answered' : a.id = id /\ a.value = results'[q][id]
    <3>1. CASE q = p /\ id = m.id
      <4>. DEFINE a == [id |-> m.id, to |-> m.to, value |-> m.value, known |-> m.known]
      <4>1. a \in answered' /\ a.id = m.id /\ a.value = m.value
        BY <1>1
      <4>2. QED
        BY <1>4, <3>1, <4>1
    <3>2. CASE q # p \/ id # m.id
      <4>1. id \in DOMAIN results[q] /\ results'[q][id] = results[q][id]
        BY <1>4, <2>1, <3>2
      <4>2. PICK a \in answered : a.id = id /\ a.value = results[q][id]
        BY <1>0, <4>1 DEF ResultsAreAnswers
      <4>3. QED
        BY <1>1, <4>1, <4>2
    <3>3. QED
      BY <3>1, <3>2
  <2>2. QED
    BY <2>1 DEF ResultsAreAnswers
<1>9. QED
  BY <1>1, <1>3, <1>4, <1>5, <1>6, <1>7, <1>8, ReadersFollow

LEMMA NothingIsOwed ==
  ASSUME ObjectsTyped, NEW n \in Nodes
  PROVE  Fits(n, NothingShown) /\ Owes(n, NothingShown)
<1>1. NothingShown.pos = 0 /\ NothingShown.id = -1
  BY DEF NothingShown
<1>2. -1 \notin DOMAIN results[Home[n]]
  BY Homes, OcapnAssumption DEF ObjectsTyped
<1>3. QED
  BY <1>1, <1>2 DEF Fits, Owes, Old, Unread

\* A node that has not read anything.
LEMMA ReaderIsNew ==
  ASSUME ObjectsTyped, NEW n \in Nodes, ~ running[n].busy, Len(finished[Home[n]]) = 0,
         display[n] = NothingShown, mail[n] = << >>
  PROVE  Reader(n)
<1>1. Fits(n, display[n]) /\ Owes(n, display[n])
  BY NothingIsOwed
<1>2. \A x : ~ Reads(n, x)
  BY DEF Reads
<1>3. QED
  BY <1>1, <1>2 DEF Reader

LEMMA ReadersOfRestart ==
  ASSUME ObjectsKept, ObjectsTyped', ReadersKept, NEW p \in Machines, RestartPeer(p)
  PROVE  ReadersKept'
<1>0. ObjectsTyped /\ OneAtATime /\ ReadersAreDue /\ FailuresAreDue /\ ResultsAreAnswers
  BY DEF ObjectsKept, ReadersKept
<1>1. /\ \A q \in Machines : q # p => slots'[q] = slots[q] /\ farWrite'[q] = farWrite[q]
      /\ Len(finished'[p]) = 0 /\ \A q \in Machines : q # p => finished'[q] = finished[q]
      /\ \A q \in Machines : q # p => events'[q] = events[q] /\ results'[q] = results[q]
      /\ results'[p] = << >>
      /\ \A n \in Nodes : Home[n] = p => mail'[n] = << >> /\ running'[n] = Idle /\ display'[n] = NothingShown
      /\ \A n \in Nodes : Home[n] # p =>
           /\ mail'[n] = mail[n] /\ running'[n] = running[n] /\ display'[n] = display[n]
           /\ (n \in asked' <=> n \in asked) /\ (n \in missed' <=> n \in missed)
      /\ answered' = answered
  <2>1. answered' = answered
    BY DEF RestartPeer
  <2>2. QED
    BY <1>0, <2>1, RestartFacts
<1>2. ASSUME NEW n \in Nodes, Home[n] = p PROVE Reader(n)'
  <2>1. /\ ~ running'[n].busy /\ Len(finished'[Home[n]]) = 0
        /\ display'[n] = NothingShown /\ mail'[n] = << >>
    BY <1>1, <1>2 DEF Idle
  <2>2. Fits(n, NothingShown)' /\ Owes(n, NothingShown)'
    <3>1. NothingShown.pos = 0 /\ NothingShown.id = -1
      BY DEF NothingShown
    <3>2. -1 \notin DOMAIN results'[Home[n]]
      BY Homes, OcapnAssumption DEF ObjectsTyped
    <3>3. QED
      BY <3>1, <3>2 DEF Fits, Owes, Old, Unread
  <2>3. Fits(n, display[n])' /\ Owes(n, display[n])'
    BY <2>1, <2>2 DEF Fits, Owes, Old, Unread, Asks, CallComes
  <2>4. \A x : ~ Reads(n, x)'
    BY <2>1 DEF Reads
  <2>5. QED
    BY <2>1, <2>3, <2>4 DEF Reader
<1>3. ASSUME NEW n \in Nodes, Home[n] # p PROVE Reader(n)'
  <2>1. Home[n] \in Machines /\ Reader(n) /\ display'[n] = display[n]
    BY <1>0, <1>1, <1>3, Homes DEF ReadersAreDue
  <2>2. (Asks(n) => Asks(n)') /\ (CallComes(Home[n]) => CallComes(Home[n])')
    BY <1>1, <1>3, <2>1 DEF Asks, CallComes
  <2>3. \A x \in Reading : Reads(n, x)' <=> Reads(n, x)
    BY <1>1, <1>3, <2>1 DEF Reads
  <2>4. "mail" \in Does[n] /\ mail'[n] # << >> => Asks(n)' \/ running'[n].busy
    BY <1>1, <1>3, <2>1, <2>2 DEF Reader
  <2>5. QED
    BY <1>0, <1>1, <1>3, <2>1, <2>2, <2>3, <2>4, ReaderStill
<1>4. FailuresAreDue'
  <2>1. ASSUME NEW q \in Machines, NEW k \in 1 .. Len(finished'[q])
        PROVE  finished'[q][k].ok \/ finished'[q][k].node \in asked' \cup missed'
    <3>1. q # p
      BY <1>1, <2>1
    <3>2. finished'[q] = finished[q]
      BY <1>1, <3>1
    <3>. PICK o \in Nodes : o = finished[q][k].node
      BY <1>0, <2>1, <3>2, OutcomeOf
    <3>3. Home[o] = q /\ (finished[q][k].ok \/ Asks(o))
      BY <1>0, <2>1, <3>2 DEF FailuresAreDue, OneAtATime
    <3>4. Asks(o) => Asks(o)'
      BY <1>1, <3>1, <3>3 DEF Asks
    <3>5. QED
      BY <3>2, <3>3, <3>4 DEF Asks
  <2>2. QED
    BY <2>1 DEF FailuresAreDue, Asks
<1>5. ResultsAreAnswers'
  <2>1. DOMAIN << >> = {}
    BY EmptySeq, SMT
  <2>2. ASSUME NEW q \in Machines, NEW id \in DOMAIN results'[q]
        PROVE  \E a \in answered' : a.id = id /\ a.value = results'[q][id]
    <3>1. q # p
      BY <1>1, <2>1, <2>2
    <3>2. QED
      BY <1>0, <1>1, <2>2, <3>1 DEF ResultsAreAnswers
  <2>3. QED
    BY <2>2 DEF ResultsAreAnswers
<1>6. QED
  BY <1>2, <1>3, <1>4, <1>5 DEF ReadersKept, ReadersAreDue

LEMMA ReadersStart ==
  ASSUME OcapnInit, ObjectsTyped
  PROVE  ReadersKept
<1>1. /\ mail = [n \in Nodes |-> << >>] /\ running = [n \in Nodes |-> Idle]
      /\ finished = [p \in Machines |-> << >>] /\ results = [p \in Machines |-> << >>]
      /\ display = [n \in Nodes |-> NothingShown]
  BY DEF OcapnInit
<1>2. Idle.busy = FALSE /\ Len(<< >>) = 0 /\ DOMAIN << >> = {}
  BY EmptySeq DEF Idle
<1>3. ASSUME NEW n \in Nodes PROVE Reader(n)
  <2>1. /\ ~ running[n].busy /\ Len(finished[Home[n]]) = 0
        /\ display[n] = NothingShown /\ mail[n] = << >>
    BY <1>1, <1>2, Homes
  <2>2. QED
    BY <2>1, ReaderIsNew
<1>4. FailuresAreDue
  BY <1>1, <1>2 DEF FailuresAreDue
<1>5. ResultsAreAnswers
  BY <1>1, <1>2 DEF ResultsAreAnswers
<1>6. QED
  BY <1>3, <1>4, <1>5 DEF ReadersKept, ReadersAreDue

LEMMA ReadersUnchanged ==
  ASSUME ObjectsKept, ReadersKept, Untouched
  PROVE  ReadersKept'
<1>0. ObjectsTyped /\ ReadersAreDue /\ FailuresAreDue /\ ResultsAreAnswers
  BY DEF ObjectsKept, ReadersKept
<1>1. UNCHANGED <<running, finished, slots, farWrite, results, events, asked, missed, display, mail, answered>>
  BY DEF Untouched
<1>2. ASSUME NEW n \in Nodes PROVE Reader(n)'
  <2>1. Reader(n) /\ (Asks(n) => Asks(n)') /\ (CallComes(Home[n]) => CallComes(Home[n])')
    BY <1>0, <1>1 DEF ReadersAreDue, Asks, CallComes
  <2>2. \A x \in Reading : Reads(n, x)' <=> Reads(n, x)
    BY <1>1, ReadsStill
  <2>3. "mail" \in Does[n] /\ mail'[n] # << >> => Asks(n)' \/ running'[n].busy
    BY <1>1, <2>1 DEF Reader
  <2>4. QED
    BY <1>0, <1>1, <2>1, <2>2, <2>3, ReaderStill
<1>3. FailuresAreDue' /\ ResultsAreAnswers'
  BY <1>0, <1>1 DEF FailuresAreDue, ResultsAreAnswers, Asks
<1>4. QED
  BY <1>2, <1>3 DEF ReadersKept, ReadersAreDue

LEMMA ReadersKeep ==
  ASSUME RoundedAreNew, ObjectsKept, ReadersKept, OcapnNext
  PROVE  ReadersKept'
<1>1. ASSUME NEW n \in Nodes, Evaluate(n) \/ Export(n) \/ ExportNode(n) \/ TakeMail(n) \/ EditScript(n)
      PROVE  ReadersKept'
  BY <1>1, ReadersOfEvaluate, ReadersOfExports, ReadersOfMail
<1>2. ASSUME NEW n \in Nodes, NEW pos \in 1 .. MaxValues, ReceiveSlot(n, pos) PROVE ReadersKept'
  BY <1>2, ReadersOfReceive
<1>3. ASSUME NEW n \in Nodes, NEW id \in RequestIds, ReadResult(n, id) PROVE ReadersKept'
  BY <1>3, ReadersOfReadResult
<1>4. ASSUME NEW n \in Nodes, NEW kind \in {"call", "only"}, NEW method \in {"get", "set"}, NEW to \in Swiss,
             Request(n, kind, method, to)
      PROVE  ReadersKept'
  BY <1>4, ReadersOfRequest
<1>5. ASSUME NEW n \in Nodes, NEW ok \in BOOLEAN, Finish(n, ok) PROVE ReadersKept'
  BY <1>5, ReadersOfFinish
<1>6. ASSUME NEW p \in Machines, Apply(p) PROVE ReadersKept'
  BY <1>6, ReadersOfApply
<1>7. ASSUME NEW p \in Machines, TakeDelivery(p) \/ NoticeCall(p) \/ TakeResult(p) PROVE ReadersKept'
  BY <1>7, ReadersOfDelivery, ReadersOfNoticeCall, ReadersOfTakeResult
<1>8. ASSUME NEW p \in Machines, RestartPeer(p) PROVE ReadersKept'
  <2>1. ObjectsTyped'
    BY ObjectsKeep DEF ObjectsKept
  <2>2. QED
    BY <1>8, <2>1, ReadersOfRestart
<1>9. ASSUME NEW p \in Machines, NEW m \in wire, ServeCall(p, m) \/ HandOver(p, m) PROVE ReadersKept'
  BY <1>9, ReadersOfServeCall, ReadersOfHandOver
<1>10. ASSUME NEW p \in Machines, NEW c \in Sheets, ShowCanvas(p, c) PROVE ReadersKept'
  BY <1>10, NothingTouched, ReadersUnchanged
<1>11. QED
  BY <1>1, <1>2, <1>3, <1>4, <1>5, <1>6, <1>7, <1>8, <1>9, <1>10 DEF OcapnNext

\* A process that has nothing to do has no evaluation and no result, and its nodes
\* are not to be computed.
LEMMA QuietReads ==
  ASSUME ObjectsKept, ReadersKept, NEW n \in Nodes, QuietPeer(Home[n]), n \notin missed
  PROVE  /\ ~ Asks(n) /\ ~ CallComes(Home[n]) /\ ~ running[n].busy
         /\ "mail" \in Does[n] => mail[n] = << >>
         /\ display[n] \in Reading /\ Fits(n, display[n]) /\ Owes(n, display[n])
<1>0. ObjectsTyped /\ Reader(n)
  BY DEF ObjectsKept, ReadersKept, ReadersAreDue
<1>1. /\ finished[Home[n]] = << >> /\ events[Home[n]] = << >>
      /\ n \notin asked /\ ~ running[n].busy
  BY DEF QuietPeer
<1>2. Len(finished[Home[n]]) = 0 /\ Len(events[Home[n]]) = 0
  BY <1>1, EmptySeq
<1>3. ~ Asks(n) /\ ~ CallComes(Home[n]) /\ \A x \in Reading : ~ Reads(n, x)
  BY <1>1, <1>2 DEF Asks, CallComes, Reads
<1>4. Fits(n, display[n]) /\ Owes(n, display[n]) /\ ("mail" \in Does[n] => mail[n] = << >>)
  BY <1>0, <1>1, <1>3 DEF Reader
<1>5. QED
  BY <1>0, <1>1, <1>3, <1>4 DEF ObjectsTyped

LEMMA ReceiversKeepUp ==
  ASSUME ObjectsKept, ReadersKept
  PROVE  ReceiversAreCurrent
<1>1. ASSUME NEW n \in Nodes, QuietPeer(Home[n]), n \notin missed, display[n].pos # 0
      PROVE  Upto(slots[Home[n]][display[n].pos], display[n].value) >= farWrite[Home[n]][display[n].pos]
  <2>. DEFINE p == Home[n]
  <2>. PICK d \in Reading : d = display[n]
    BY <1>1, QuietReads
  <2>1. Fits(n, d) /\ ~ Old(p, d)
    BY <1>1, QuietReads DEF Owes
  <2>2. d.pos \in 1 .. Len(slots[p]) /\ d.value \in Nat
    BY <1>1, <2>1 DEF Fits, Reading
  <2>3. slots[p][d.pos] \in Seq(Nat) /\ farWrite[p][d.pos] \in Nat
    BY <2>2, SlotFacts, Homes DEF ObjectsKept
  <2>4. Upto(slots[p][d.pos], d.value) \in 0 .. Len(slots[p][d.pos]) /\ Len(slots[p][d.pos]) \in Nat
    BY <2>2, <2>3, UptoGrows
  <2>5. ~ (Upto(slots[p][d.pos], d.value) < farWrite[p][d.pos])
    BY <1>1, <2>1 DEF Old
  <2>6. QED
    BY <2>3, <2>4, <2>5
<1>2. QED
  BY <1>1 DEF ReceiversAreCurrent

LEMMA MailComesOnce ==
  ASSUME ObjectsKept, NumbersKept, ReadersKept
  PROVE  MailIsRead
<1>1. ASSUME NEW n \in Nodes, NEW j \in 1 .. Len(taken[n] \o mail[n]), NEW k \in 1 .. Len(taken[n] \o mail[n]),
             (taken[n] \o mail[n])[j] = (taken[n] \o mail[n])[k]
      PROVE  j = k
  <2>. DEFINE t == taken[n]
  <2>. DEFINE l == mail[n]
  <2>. DEFINE A == Len(t)
  <2>. DEFINE B == Len(l)
  <2>1. t \in Seq(RequestIds) /\ l \in Seq(RequestIds) /\ A \in Nat /\ B \in Nat
    BY LenProperties DEF ObjectsKept, ObjectsTyped
  <2>2. /\ \A a, b \in 1 .. A : t[a] = t[b] => a = b
        /\ \A a, b \in 1 .. B : l[a] = l[b] => a = b
        /\ \A id \in RequestIds : ~ (Holds(t, id) /\ Holds(l, id))
    BY DEF NumbersKept, MailOnce
  <2>3. /\ Len(t \o l) = A + B
        /\ \A a \in 1 .. A + B : (t \o l)[a] = IF a <= A THEN t[a] ELSE l[a - A]
    BY <2>1, ConcatProperties
  <2>4. ASSUME NEW a \in 1 .. A, NEW b \in 1 .. B PROVE t[a] # l[b]
    <3>1. t[a] \in RequestIds
      BY <2>1, ElementOfSeq
    <3>2. QED
      BY <2>2, <3>1 DEF Holds
  <2>5. j \in 1 .. A + B /\ k \in 1 .. A + B
    BY <2>3
  <2>6. (t \o l)[j] = (t \o l)[k]
    BY <1>1
  <2>. HIDE DEF A, B, t, l
  <2>7. CASE j <= A /\ k <= A
    BY <2>1, <2>2, <2>3, <2>5, <2>6, <2>7
  <2>8. CASE j <= A /\ ~ (k <= A)
    <3>1. j \in 1 .. A /\ k - A \in 1 .. B /\ t[j] = l[k - A]
      BY <2>1, <2>3, <2>5, <2>6, <2>8
    <3>2. QED
      BY <2>4, <3>1
  <2>9. CASE ~ (j <= A) /\ k <= A
    <3>1. k \in 1 .. A /\ j - A \in 1 .. B /\ t[k] = l[j - A]
      BY <2>1, <2>3, <2>5, <2>6, <2>9
    <3>2. QED
      BY <2>4, <3>1
  <2>10. CASE ~ (j <= A) /\ ~ (k <= A)
    <3>1. k - A \in 1 .. B /\ j - A \in 1 .. B /\ l[k - A] = l[j - A]
      BY <2>1, <2>3, <2>5, <2>6, <2>10
    <3>2. k - A = j - A
      BY <2>2, <3>1
    <3>3. QED
      BY <2>1, <2>5, <3>2
  <2>11. QED
    BY <2>7, <2>8, <2>9, <2>10
<1>2. ASSUME NEW n \in Nodes, QuietPeer(Home[n]), n \notin missed, "mail" \in Does[n] PROVE mail[n] = << >>
  BY <1>2, QuietReads
<1>3. QED
  BY <1>1, <1>2 DEF MailIsRead

LEMMA CallersHear ==
  ASSUME ObjectsKept, NumbersKept, ReadersKept
  PROVE  CallersSeeTheirAnswers
<1>1. ASSUME NEW n \in Nodes, NEW a \in answered, QuietPeer(Home[n]), n \notin missed,
             display[n].id = a.id, a.id \in DOMAIN results[Home[n]]
      PROVE  display[n].value = IF Rounded(a.id) = a.id THEN a.value ELSE 0
  <2>. PICK d \in Reading : d = display[n]
    BY <1>1, QuietReads
  <2>1. Fits(n, d) /\ ~ Unread(Home[n], d)
    BY <1>1, QuietReads DEF Owes
  <2>2. a.id \in RequestIds /\ a.id # -1
    BY <1>1, Homes, OcapnAssumption DEF ObjectsKept, ObjectsTyped
  <2>3. CASE Rounded(a.id) # a.id
    BY <1>1, <2>1, <2>2, <2>3 DEF Fits
  <2>4. CASE Rounded(a.id) = a.id
    <3>1. d.value = results[Home[n]][a.id]
      BY <1>1, <2>1, <2>4 DEF Unread
    <3>2. PICK b \in answered : b.id = a.id /\ b.value = results[Home[n]][a.id]
      BY <1>1, Homes DEF ReadersKept, ResultsAreAnswers
    <3>3. b = a
      BY <3>2 DEF NumbersKept, AnsweredOnce
    <3>4. QED
      BY <2>4, <3>1, <3>2, <3>3
  <2>5. QED
    BY <2>3, <2>4
<1>2. QED
  BY <1>1 DEF CallersSeeTheirAnswers

\* What came from another process has reached its script when the process has
\* nothing to do, or the script missed it, whatever fails or restarts and whatever
\* canvas is shown, if no number of a call is that of another one rounded (app.rs,
\* bridge.rs:871).
THEOREM QuietPeersHaveReceived ==
  ASSUME RoundedAreNew, IsFiniteSet(Nodes)
  PROVE  OcapnSpec => []QuietMeansReceived
<1>. DEFINE Inv == ObjectsKept /\ NumbersKept /\ RequestsCounted /\ ReadersKept
<1>1. OcapnInit => Inv
  BY OcapnStarts, NumbersStart, ReadersStart DEF ObjectsKept
<1>2. Inv /\ [OcapnNext]_ocapnVars => Inv'
  <2>1. ASSUME Inv, OcapnNext PROVE Inv'
    BY <2>1, ObjectsKeep, NumbersKeep, CountedStill, ReadersKeep
  <2>2. ASSUME Inv, UNCHANGED ocapnVars PROVE Inv'
    BY <2>2, NothingTouched, ObjectsStill, NumbersUnchanged, ReadersUnchanged
  <2>3. QED
    BY <2>1, <2>2
<1>3. Inv => QuietMeansReceived
  BY TypesAreOK, ReceiversKeepUp, MailComesOnce, CallersHear DEF QuietMeansReceived
<1>4. QED
  BY <1>1, <1>2, <1>3, PTL DEF OcapnSpec
===========================================================================
