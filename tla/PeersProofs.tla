--------------------------- MODULE PeersProofs ----------------------------
(***************************************************************************)
(* Proofs about Delivery, for any canvases, modules, imports and peers,    *)
(* and about Gossip, for any processes, channels, messages and restarts.   *)
(***************************************************************************)
EXTENDS Delivery, Gossip, SequenceTheorems, TLAPS

-----------------------------------------------------------------------------
(***************************************************************************)
(* Delivery: libraries of nodes and phantoms                               *)
(***************************************************************************)

\* The labels whose nodes stay where they are.
Lasting == Modules \ {e[2] : e \in Edited}

\* v has what a script gave to the exports of m, where no widget is set.
Agrees(v, m, o, w) == \A x \in Exports[m] : o[x] # None /\ w[x] = None => v[x] = o[x]

\* The library l has every export with a value, and no other value than the node's.
Keeps(l, m, o, w) ==
  \A x \in Names : o[x] # None =>
    /\ x \in Exports[m] => l[x] # None
    /\ l[x] \in {o[x], w[x], None}

\* The values v under the channel ch are those last published there.
Last(v, ch, n) ==
  \A x \in Names : v[x] # None /\ n[v[x].from][ch] # None => n[v[x].from][ch] = v

\* What a phantom ph of m shows.
ShowsSource(ph, m, o, w) == ph.peer \in Canvas => Agrees(ph.val, m, o[ph.peer][m], w[ph.peer][m])
ShowsPeer(ph, m, l, n) ==
  ph.peer \notin Canvas /\ ph.val # NoValues =>
    l[<<ph.peer, m>>] = ph.val /\ Last(ph.val, <<ph.peer, m>>, n)

\* The invariant: what a node that is gone computed is forgotten; the libraries, the
\* publications and the phantoms of nodes have their values.
NodesHaveLibraries ==
  /\ TypeOK
  /\ \A c \in Canvas, m \in Modules : m \notin local[c] => out[c][m] = NoValues
  /\ \A c \in Canvas : \A m \in local[c] : Keeps(lib[<<c, m>>], m, out[c][m], widget[c][m])
  /\ \A c \in Canvas, m \in Modules : Agrees(net[Here][<<c, m>>], m, out[c][m], widget[c][m])
  /\ \A c \in Canvas, m \in Lasting : phantom[c][m] # None /\ m \notin local[c] =>
       /\ ShowsSource(phantom[c][m], m, out, widget)
       /\ ShowsPeer(phantom[c][m], m, lib, net)

LEMMA Stamps ==
  /\ Zero \in Value /\ Zero # None
  /\ \A p \in Peers \cup {Here} :
       stamp \in 0 .. MaxStamp /\ stamp < MaxStamp =>
         /\ NextValue(p) \in Value /\ NextValue(p) # None /\ NextValue(p).from = p
         /\ stamp + 1 \in 0 .. MaxStamp
<1>1. Zero \in Value
  BY ConstantsAssumption DEF Zero, Value
<1>2. ASSUME NEW p \in Peers \cup {Here}, stamp \in 0 .. MaxStamp, stamp < MaxStamp
      PROVE  NextValue(p) \in Value /\ NextValue(p).from = p /\ stamp + 1 \in 0 .. MaxStamp
  BY <1>2, ConstantsAssumption DEF NextValue, Value
<1>3. QED
  BY <1>1, <1>2, NoneAssumption

LEMMA LastingFacts == /\ Lasting \subseteq Modules
                      /\ \A c, m : <<c, m>> \in Edited => m \notin Lasting
BY DEF Lasting

LEMMA Channels2 == \A c \in Canvas, m \in Modules : <<c, m>> \in Channel
BY DEF Channel, Sources

\* Sets of values.
LEMMA ValueSets ==
  /\ NoValues \in Values
  /\ \A m \in Modules : Zeros(m) \in Values /\ Saved(m) \in Values
  /\ \A v, w \in Values : Overlaid(v, w) \in Values /\ Published(v, w) \in Values
  /\ \A m \in Modules, v \in Values : Stub(m, v) \in Values
<1>1. NoValues \in Values
  BY DEF NoValues, Values
<1>2. ASSUME NEW m \in Modules PROVE Zeros(m) \in Values /\ Saved(m) \in Values
  BY Stamps DEF Zeros, Saved, Values
<1>3. ASSUME NEW v \in Values, NEW w \in Values PROVE Overlaid(v, w) \in Values
  BY DEF Overlaid, Values
<1>4. ASSUME NEW m \in Modules, NEW v \in Values PROVE Stub(m, v) \in Values
  <2>1. Overlaid(v, Zeros(m)) \in Values
    BY <1>2, <1>3
  <2>2. QED
    BY <2>1 DEF Stub, Values
<1>5. QED
  BY <1>1, <1>2, <1>3, <1>4 DEF Published

LEMMA GivenValues ==
  ASSUME NEW p \in Peers \cup {Here}, stamp \in 0 .. MaxStamp, stamp < MaxStamp, NEW given
  PROVE  /\ Given(given, p) \in Values
         /\ \A x \in Names : Given(given, p)[x] # None => Given(given, p)[x].from = p
BY Stamps DEF Given, Values

\* What a node has, however it is put together, holds and agrees.
LEMMA NodesValues ==
  ASSUME NEW m \in Modules, NEW o \in Values, NEW w \in Values
  PROVE  /\ Keeps(o, m, o, w) /\ Keeps(Published(o, w), m, o, w) /\ Keeps(Stub(m, o), m, o, w)
         /\ Agrees(Published(o, w), m, o, w)
         /\ Published(o, w) = NoValues => o = NoValues
         /\ \A v : Agrees(v, m, NoValues, w) /\ Keeps(v, m, NoValues, w)
<1>1. Exports[m] \subseteq Names
  BY ConstantsAssumption
<1>2. \A x \in Names : Published(o, w)[x] = IF w[x] # None THEN w[x] ELSE o[x]
  BY DEF Published, Overlaid
<1>3. \A x \in Names : NoValues[x] = None
  BY DEF NoValues
<1>4. Keeps(o, m, o, w)
  BY DEF Keeps
<1>5. Keeps(Published(o, w), m, o, w)
  BY <1>2 DEF Keeps
<1>6. Keeps(Stub(m, o), m, o, w)
  <2>1. \A x \in Names : o[x] # None => Stub(m, o)[x] = IF x \in Exports[m] THEN o[x] ELSE None
    BY DEF Stub, Overlaid
  <2>2. QED
    BY <2>1 DEF Keeps
<1>7. Agrees(Published(o, w), m, o, w)
  BY <1>1, <1>2 DEF Agrees
<1>8. Published(o, w) = NoValues => o = NoValues
  <2>1. SUFFICES ASSUME Published(o, w) = NoValues PROVE o = NoValues
    OBVIOUS
  <2>2. \A x \in Names : o[x] = None
    BY <1>2, <1>3, <2>1
  <2>3. o = [x \in Names |-> o[x]]
    BY DEF Values
  <2>4. QED
    BY <2>2, <2>3 DEF NoValues
<1>9. \A v : Agrees(v, m, NoValues, w) /\ Keeps(v, m, NoValues, w)
  BY <1>1, <1>3 DEF Agrees, Keeps
<1>10. QED
  BY <1>4, <1>5, <1>6, <1>7, <1>8, <1>9

\* What ensure_imports takes from a node: its values, or zeros.
LEMMA ValuesFound ==
  ASSUME NodesHaveLibraries, NEW d \in Canvas, NEW m \in Modules
  PROVE  /\ ValuesOf(d, m) \in Values
         /\ Keeps(ValuesOf(d, m), m, out[d][m], widget[d][m])
         /\ Agrees(ValuesOf(d, m), m, out[d][m], widget[d][m])
<1>. DEFINE o == out[d][m]
            w == widget[d][m]
<1>1. o \in Values /\ w \in Values
  BY DEF NodesHaveLibraries, TypeOK
<1>2. ValuesOf(d, m) = IF Published(o, w) = NoValues THEN Zeros(m) ELSE Published(o, w)
  BY DEF ValuesOf
<1>. HIDE DEF o, w
<1>3. CASE Published(o, w) = NoValues
  <2>1. o = NoValues
    BY <1>1, <1>3, NodesValues
  <2>2. ValuesOf(d, m) \in Values
    BY <1>2, <1>3, ValueSets
  <2>3. Keeps(ValuesOf(d, m), m, NoValues, w) /\ Agrees(ValuesOf(d, m), m, NoValues, w)
    BY <1>1, NodesValues
  <2>4. QED
    BY <2>1, <2>2, <2>3 DEF o, w
<1>4. CASE Published(o, w) # NoValues
  <2>1. Published(o, w) \in Values
    BY <1>1, ValueSets
  <2>2. Keeps(Published(o, w), m, o, w) /\ Agrees(Published(o, w), m, o, w)
    BY <1>1, NodesValues
  <2>3. QED
    BY <1>2, <1>4, <2>1, <2>2 DEF o, w
<1>5. QED
  BY <1>3, <1>4

LEMMA LibrariesInit == Init => NodesHaveLibraries
<1>1. SUFFICES ASSUME Init PROVE NodesHaveLibraries
  OBVIOUS
<1>2. /\ local \in [Canvas -> SUBSET Modules]
      /\ \A c \in Canvas, m \in Modules : out[c][m] = NoValues /\ phantom[c][m] = None
  BY <1>1, ConstantsAssumption DEF Init
<1>3. widget \in [Canvas -> [Modules -> Values]]
  <2>1. PICK saved \in SUBSET Modules :
          widget = [c \in Canvas |-> [m \in Modules |->
                      IF m \in Local[c] \cap saved THEN Saved(m) ELSE NoValues]]
    BY <1>1 DEF Init
  <2>2. QED
    BY <2>1, ValueSets
<1>4. TypeOK
  <2>1. \A ch \in Channel : ch[2] \in Modules
    BY DEF Channel
  <2>2. \A m \in Modules : Stub(m, NoValues) \in Values
    BY ValueSets
  <2>3. lib \in [Channel -> Values]
    BY <1>1, <2>1, <2>2, ValueSets DEF Init
  <2>4. stamp \in 0 .. MaxStamp
    BY <1>1, ConstantsAssumption DEF Init
  <2>5. out \in [Canvas -> [Modules -> Values]]
    BY <1>1, ValueSets DEF Init
  <2>6. QED
    BY <1>1, <1>2, <1>3, <2>3, <2>4, <2>5 DEF Init, TypeOK
<1>5. ASSUME NEW c \in Canvas, NEW m \in Modules
      PROVE  /\ Keeps(lib[<<c, m>>], m, out[c][m], widget[c][m])
             /\ Agrees(net[Here][<<c, m>>], m, out[c][m], widget[c][m])
  <2>1. widget[c][m] \in Values /\ NoValues \in Values /\ out[c][m] = NoValues
    BY <1>2, <1>3, ValueSets
  <2>2. \A v : Agrees(v, m, NoValues, widget[c][m]) /\ Keeps(v, m, NoValues, widget[c][m])
    BY <2>1, NodesValues
  <2>3. QED
    BY <2>1, <2>2
<1>6. QED
  BY <1>2, <1>4, <1>5, LastingFacts DEF NodesHaveLibraries

\* The invariant of the next state, from its parts.
LEMMA LibrariesAgain ==
  ASSUME TypeOK',
         \A c \in Canvas, m \in Modules : m \notin local'[c] => out'[c][m] = NoValues,
         \A c \in Canvas : \A m \in local'[c] : Keeps(lib'[<<c, m>>], m, out'[c][m], widget'[c][m]),
         \A c \in Canvas, m \in Modules : Agrees(net'[Here][<<c, m>>], m, out'[c][m], widget'[c][m]),
         \A c \in Canvas, m \in Lasting : phantom'[c][m] # None /\ m \notin local'[c] =>
           /\ ShowsSource(phantom'[c][m], m, out', widget')
           /\ ShowsPeer(phantom'[c][m], m, lib', net')
  PROVE  NodesHaveLibraries'
BY DEF NodesHaveLibraries

\* What the invariant says of one phantom, whatever becomes of other channels.
LEMMA ShownNow ==
  ASSUME NodesHaveLibraries, NEW c \in Canvas, NEW m \in Lasting,
         phantom[c][m] # None, m \notin local[c]
  PROVE  /\ phantom[c][m] \in Phantom /\ <<phantom[c][m].peer, m>> \in Channel
         /\ ShowsSource(phantom[c][m], m, out, widget)
         /\ ShowsPeer(phantom[c][m], m, lib, net)
<1>1. phantom[c][m] \in Phantom
  BY LastingFacts DEF NodesHaveLibraries, TypeOK
<1>2. <<phantom[c][m].peer, m>> \in Channel
  BY <1>1, LastingFacts DEF Phantom, Channel
<1>3. QED
  BY <1>1, <1>2 DEF NodesHaveLibraries

LEMMA StillShowsPeer ==
  ASSUME NEW ph \in Phantom, NEW m, NEW l, NEW k, NEW n, NEW j, ShowsPeer(ph, m, l, n),
         ph.peer \notin Canvas =>
           /\ k[<<ph.peer, m>>] = l[<<ph.peer, m>>]
           /\ \A p \in Peers \cup {Here} : j[p][<<ph.peer, m>>] \in {n[p][<<ph.peer, m>>], None}
  PROVE  ShowsPeer(ph, m, k, j)
<1>1. SUFFICES ASSUME ph.peer \notin Canvas, ph.val # NoValues
               PROVE  k[<<ph.peer, m>>] = ph.val /\ Last(ph.val, <<ph.peer, m>>, j)
  BY DEF ShowsPeer
<1>2. l[<<ph.peer, m>>] = ph.val /\ Last(ph.val, <<ph.peer, m>>, n)
  BY <1>1 DEF ShowsPeer
<1>3. \A x \in Names : ph.val[x] # None => ph.val[x].from \in Peers \cup {Here}
  BY DEF Phantom, Values, Value
<1>4. Last(ph.val, <<ph.peer, m>>, j)
  BY <1>1, <1>2, <1>3 DEF Last
<1>5. QED
  BY <1>1, <1>2, <1>4

\* A step that changes no values and no phantoms, and registers at the channels of
\* nodes of this process what holds.
LEMMA OwnRegistered ==
  ASSUME NodesHaveLibraries, UNCHANGED <<nodes, phantom, net>>,
         connected' \subseteq Peers, pending' \subseteq Canvas \X Modules,
         behind' \subseteq Canvas \X Modules, current' \in Canvas, stamp' \in 0 .. MaxStamp,
         lib' \in [Channel -> Values],
         \A c \in Canvas : \A m \in local[c] :
           \/ lib'[<<c, m>>] = lib[<<c, m>>]
           \/ Keeps(lib'[<<c, m>>], m, out[c][m], widget[c][m]),
         \A s \in Sources, m \in Modules : s \notin Canvas => lib'[<<s, m>>] = lib[<<s, m>>]
  PROVE  NodesHaveLibraries'
<1>1. UNCHANGED <<local, out, widget, phantom, net>>
  BY DEF nodes
<1>2. TypeOK'
  BY <1>1 DEF NodesHaveLibraries, TypeOK
<1>3. \A c \in Canvas : \A m \in local'[c] : Keeps(lib'[<<c, m>>], m, out'[c][m], widget'[c][m])
  BY <1>1 DEF NodesHaveLibraries
<1>4. ASSUME NEW c \in Canvas, NEW m \in Lasting, phantom'[c][m] # None, m \notin local'[c]
      PROVE  /\ ShowsSource(phantom'[c][m], m, out', widget')
             /\ ShowsPeer(phantom'[c][m], m, lib', net')
  <2>. DEFINE ph == phantom[c][m]
  <2>1. ph # None /\ m \notin local[c] /\ m \in Modules /\ phantom'[c][m] = ph
    BY <1>1, <1>4, LastingFacts
  <2>2. /\ ph \in Phantom /\ ShowsSource(ph, m, out, widget) /\ ShowsPeer(ph, m, lib, net)
    BY <2>1, ShownNow
  <2>. HIDE DEF ph
  <2>3. ph.peer \notin Canvas => lib'[<<ph.peer, m>>] = lib[<<ph.peer, m>>]
    BY <2>1, <2>2 DEF Phantom
  <2>4. ShowsPeer(ph, m, lib', net')
    BY <1>1, <2>2, <2>3, StillShowsPeer
  <2>5. QED
    BY <1>1, <2>1, <2>2, <2>4
<1>5. /\ \A c \in Canvas, m \in Modules : m \notin local'[c] => out'[c][m] = NoValues
      /\ \A c \in Canvas, m \in Modules : Agrees(net'[Here][<<c, m>>], m, out'[c][m], widget'[c][m])
  BY <1>1 DEF NodesHaveLibraries
<1>6. QED
  BY <1>2, <1>3, <1>4, <1>5, LibrariesAgain

LEMMA SameLibraries ==
  ASSUME NodesHaveLibraries, UNCHANGED <<nodes, phantom, lib, net>>,
         connected' \subseteq Peers, pending' \subseteq Canvas \X Modules,
         behind' \subseteq Canvas \X Modules, current' \in Canvas, stamp' \in 0 .. MaxStamp
  PROVE  NodesHaveLibraries'
<1>1. lib' \in [Channel -> Values]
  BY DEF NodesHaveLibraries, TypeOK
<1>2. QED
  BY <1>1, OwnRegistered

LEMMA ComputeNodeLibraries ==
  ASSUME NodesHaveLibraries, NEW c \in Canvas, NEW k \in Modules, ComputeNode(c, k)
  PROVE  NodesHaveLibraries'
<1>1. PICK from \in [Found(c, k) -> Canvas] :
        /\ \A m \in Found(c, k) : from[m] \in Elsewhere(c, m)
        /\ phantom' = [phantom EXCEPT ![c] =
                        [m \in Modules |->
                           IF m \in Found(c, k)
                           THEN PhantomWith(c, from[m], m, ValuesOf(from[m], m))
                           ELSE @[m]]]
        /\ lib' = [ch \in Channel |->
                    IF /\ ch[2] \in Found(c, k)
                       /\ ch[1] = from[ch[2]]
                       /\ ValuesOf(ch[1], ch[2]) # NoValues
                    THEN ValuesOf(ch[1], ch[2]) ELSE lib[ch]]
  BY DEF ComputeNode
<1>2. /\ pending' = pending \cup {<<c, k>>} \cup UNION {AskedBy({c}, m) : m \in Found(c, k)}
      /\ behind' \subseteq behind \cup {<<c, k>>}
      /\ UNCHANGED <<local, out, widget, net, connected, current, stamp>>
  BY DEF ComputeNode, nodes
<1>3. /\ local \in [Canvas -> SUBSET Modules] /\ lib \in [Channel -> Values]
      /\ phantom \in [Canvas -> [Modules -> Phantom \cup {None}]]
      /\ pending \subseteq Canvas \X Modules /\ behind \subseteq Canvas \X Modules
      /\ TypeOK
  BY DEF NodesHaveLibraries, TypeOK
<1>4. Found(c, k) \subseteq Modules
  BY ConstantsAssumption DEF Found, Missing
<1>5. \A m \in Found(c, k) : from[m] \in Canvas /\ m \in local[from[m]]
  BY <1>1 DEF Elsewhere, Own
<1>6. ASSUME NEW d \in Canvas, NEW m \in Modules
      PROVE  /\ ValuesOf(d, m) \in Values
             /\ Keeps(ValuesOf(d, m), m, out[d][m], widget[d][m])
             /\ Agrees(ValuesOf(d, m), m, out[d][m], widget[d][m])
  BY ValuesFound
<1>7. ASSUME NEW ch \in Channel
      PROVE  lib'[ch] = lib[ch] \/ (ch[1] \in Canvas /\ ch[2] \in Modules /\ lib'[ch] = ValuesOf(ch[1], ch[2]))
  BY <1>1, <1>4, <1>5
<1>8. lib' \in [Channel -> Values]
  <2>1. \A ch \in Channel : lib'[ch] \in Values
    BY <1>3, <1>6, <1>7
  <2>2. QED
    BY <1>1, <2>1
<1>9. \A d \in Canvas : \A m \in local'[d] : Keeps(lib'[<<d, m>>], m, out'[d][m], widget'[d][m])
  <2>1. ASSUME NEW d \in Canvas, NEW m \in local[d]
        PROVE  Keeps(lib'[<<d, m>>], m, out[d][m], widget[d][m])
    <3>1. m \in Modules /\ <<d, m>> \in Channel
      BY <1>3, Channels2
    <3>2. CASE lib'[<<d, m>>] = lib[<<d, m>>]
      BY <3>2 DEF NodesHaveLibraries
    <3>3. CASE lib'[<<d, m>>] = ValuesOf(d, m)
      BY <1>6, <3>1, <3>3
    <3>4. QED
      BY <1>7, <3>1, <3>2, <3>3
  <2>2. QED
    BY <1>2, <2>1
<1>10. ASSUME NEW d \in Canvas, NEW m \in Modules
       PROVE  \/ phantom'[d][m] = phantom[d][m]
              \/ \E e \in Canvas : phantom'[d][m] = [peer |-> e, val |-> ValuesOf(e, m)]
  <2>1. CASE d = c /\ m \in Found(c, k)
    <3>1. phantom'[d][m] = [peer |-> from[m], val |-> ValuesOf(from[m], m)]
      BY <1>1, <1>3, <2>1 DEF PhantomWith
    <3>2. QED
      BY <1>5, <2>1, <3>1
  <2>2. CASE d # c \/ m \notin Found(c, k)
    BY <1>1, <1>3, <2>2
  <2>3. QED
    BY <2>1, <2>2
<1>11. phantom' \in [Canvas -> [Modules -> Phantom \cup {None}]]
  <2>1. phantom' = [phantom EXCEPT ![c] = [m \in Modules |-> phantom'[c][m]]]
    BY <1>1, <1>3
  <2>2. \A m \in Modules : phantom'[c][m] \in Phantom \cup {None}
    <3>1. ASSUME NEW m \in Modules PROVE phantom'[c][m] \in Phantom \cup {None}
      <4>1. \A e \in Canvas : [peer |-> e, val |-> ValuesOf(e, m)] \in Phantom
        BY <1>6 DEF Phantom, Sources
      <4>2. QED
        BY <1>3, <1>10, <4>1
    <3>2. QED
      BY <3>1
  <2>3. QED
    BY <1>3, <2>1, <2>2
<1>12. TypeOK'
  <2>1. pending' \subseteq Canvas \X Modules /\ behind' \subseteq Canvas \X Modules
    BY <1>2, <1>3 DEF AskedBy, Takers
  <2>2. QED
    BY <1>2, <1>3, <1>8, <1>11, <2>1 DEF TypeOK
<1>13. ASSUME NEW d \in Canvas, NEW m \in Lasting, phantom'[d][m] # None, m \notin local'[d]
       PROVE  /\ ShowsSource(phantom'[d][m], m, out', widget')
              /\ ShowsPeer(phantom'[d][m], m, lib', net')
  <2>. DEFINE ph == phantom'[d][m]
  <2>1. m \in Modules /\ m \notin local[d]
    BY <1>2, <1>13, LastingFacts
  <2>2. CASE ph = phantom[d][m]
    <3>1. ph \in Phantom /\ <<ph.peer, m>> \in Channel
          /\ ShowsSource(ph, m, out, widget) /\ ShowsPeer(ph, m, lib, net)
      BY <1>13, <2>1, <2>2, ShownNow
    <3>. HIDE DEF ph
    <3>2. ph.peer \notin Canvas => lib'[<<ph.peer, m>>] = lib[<<ph.peer, m>>]
      BY <1>7, <3>1
    <3>3. ShowsPeer(ph, m, lib', net')
      BY <1>2, <3>1, <3>2, StillShowsPeer
    <3>4. QED
      BY <1>2, <3>1, <3>3 DEF ph
  <2>3. ASSUME NEW e \in Canvas, ph = [peer |-> e, val |-> ValuesOf(e, m)]
        PROVE  ShowsSource(ph, m, out', widget') /\ ShowsPeer(ph, m, lib', net')
    <3>1. ph.peer = e /\ ph.val = ValuesOf(e, m)
      BY <2>3
    <3>. HIDE DEF ph
    <3>2. QED
      BY <1>2, <1>6, <2>1, <3>1 DEF ShowsSource, ShowsPeer
  <2>4. QED
    BY <1>10, <2>1, <2>2, <2>3
<1>14. /\ \A d \in Canvas, m \in Modules : m \notin local'[d] => out'[d][m] = NoValues
       /\ \A d \in Canvas, m \in Modules : Agrees(net'[Here][<<d, m>>], m, out'[d][m], widget'[d][m])
  BY <1>2 DEF NodesHaveLibraries
<1>15. QED
  BY <1>9, <1>12, <1>13, <1>14, LibrariesAgain

\* Deliveries: every canvas of T without a node of the label has the phantom ...
LEMMA DeliveredPhantoms ==
  ASSUME TypeOK, NEW T \in SUBSET Canvas, NEW src \in Sources, NEW m \in Modules,
         NEW v \in Values
  PROVE  /\ PhantomsAfter(T, src, m, v) \in [Canvas -> [Modules -> Phantom \cup {None}]]
         /\ \A c \in Canvas, k \in Modules :
              PhantomsAfter(T, src, m, v)[c][k] =
                IF c \in T /\ ~Own(c, m) /\ k = m THEN [peer |-> src, val |-> v]
                ELSE phantom[c][k]
<1>1. phantom \in [Canvas -> [Modules -> Phantom \cup {None}]]
  BY DEF TypeOK
<1>2. [peer |-> src, val |-> v] \in Phantom
  BY DEF Phantom
<1>. DEFINE after == PhantomsAfter(T, src, m, v)
            one == [peer |-> src, val |-> v]
<1>3. after = [c \in Canvas |-> IF c \in T /\ ~Own(c, m)
                                THEN [phantom[c] EXCEPT ![m] = one] ELSE phantom[c]]
  BY DEF PhantomsAfter, Takers, PhantomWith
<1>. HIDE DEF after, one
<1>4. after \in [Canvas -> [Modules -> Phantom \cup {None}]]
  BY <1>1, <1>2, <1>3 DEF one
<1>5. \A c \in Canvas, k \in Modules :
        after[c][k] = IF c \in T /\ ~Own(c, m) /\ k = m THEN one ELSE phantom[c][k]
  BY <1>1, <1>3
<1>6. QED
  BY <1>4, <1>5 DEF after, one

\* ... and the library has the values if there is such a canvas, and values.
LEMMA DeliveredLibrary ==
  ASSUME NEW T \in SUBSET Canvas, NEW src \in Sources, NEW m \in Modules,
         NEW v \in Values, NEW libs \in [Channel -> Values]
  PROVE  /\ LibAfter(libs, T, src, m, v) \in [Channel -> Values]
         /\ \A ch \in Channel :
              LibAfter(libs, T, src, m, v)[ch] =
                IF ch = <<src, m>> /\ v # NoValues /\ (\E c \in T : ~Own(c, m)) THEN v ELSE libs[ch]
<1>1. <<src, m>> \in Channel
  BY DEF Channel
<1>2. LibAfter(libs, T, src, m, v) =
        IF v # NoValues /\ (\E c \in T : ~Own(c, m)) THEN [libs EXCEPT ![<<src, m>>] = v] ELSE libs
  BY DEF LibAfter, Registered, Takers
<1>3. CASE v # NoValues /\ \E c \in T : ~Own(c, m)
  BY <1>1, <1>2, <1>3
<1>4. CASE ~ (v # NoValues /\ \E c \in T : ~Own(c, m))
  BY <1>2, <1>4
<1>5. QED
  BY <1>3, <1>4

LEMMA AskedAreNodes ==
  ASSUME NEW T \in SUBSET Canvas, NEW m PROVE AskedBy(T, m) \subseteq Canvas \X Modules
BY DEF AskedBy, Takers

\* A result of a node that is still there.
LEMMA ResultLibraries ==
  ASSUME NodesHaveLibraries, NEW c \in Canvas, NEW m \in Modules, NEW given,
         ApplyResult(c, m, given), Own(c, m)
  PROVE  NodesHaveLibraries'
<1>. DEFINE o == OutputsWith(c, m, given)
            v == Published(o, widget[c][m])
            to == IF m \in Exporting THEN Canvas \ {c} ELSE {}
            libs == Registered(lib, <<c, m>>, o)
<1>1. /\ stamp < MaxStamp /\ stamp' = stamp + 1
      /\ out' = [out EXCEPT ![c][m] = o]
      /\ phantom' = PhantomsAfter(to, c, m, v)
      /\ lib' = LibAfter(libs, to, c, m, v)
      /\ net' = IF m \in Exporting THEN [net EXCEPT ![Here][<<c, m>>] = v] ELSE net
      /\ pending' = (pending \ {<<c, m>>}) \cup AskedBy(to, m)
                      \cup {<<c, k>> : k \in {k \in local[c] : m \in Imports[k]}}
      /\ behind' \subseteq behind
      /\ UNCHANGED <<local, widget, connected, current>>
  BY DEF ApplyResult
<1>2. /\ local \in [Canvas -> SUBSET Modules]
      /\ out \in [Canvas -> [Modules -> Values]]
      /\ widget \in [Canvas -> [Modules -> Values]]
      /\ lib \in [Channel -> Values]
      /\ net \in [Peers \cup {Here} -> [Channel -> Values \cup {None}]]
      /\ pending \subseteq Canvas \X Modules /\ behind \subseteq Canvas \X Modules
      /\ stamp \in 0 .. MaxStamp /\ TypeOK
  BY DEF NodesHaveLibraries, TypeOK
<1>3. o \in Values /\ v \in Values /\ stamp' \in 0 .. MaxStamp
  <2>1. Given(given, Here) \in Values
    BY <1>1, <1>2, GivenValues
  <2>2. o \in Values
    BY <1>2, <2>1, ValueSets DEF OutputsWith
  <2>. HIDE DEF o
  <2>3. v \in Values
    BY <1>2, <2>2, ValueSets
  <2>4. stamp' \in 0 .. MaxStamp
    BY <1>1, <1>2, Stamps
  <2>5. QED
    BY <2>2, <2>3, <2>4
<1>. HIDE DEF o
<1>4. /\ Keeps(o, m, o, widget[c][m]) /\ Keeps(v, m, o, widget[c][m])
      /\ Agrees(v, m, o, widget[c][m])
  BY <1>2, <1>3, NodesValues
<1>. HIDE DEF v
<1>5. <<c, m>> \in Channel /\ c \in Sources /\ to \in SUBSET Canvas
  BY DEF Channel, Sources
<1>6. libs \in [Channel -> Values] /\ \A ch \in Channel : libs[ch] \in {lib[ch], IF ch = <<c, m>> THEN o ELSE lib[ch]}
  BY <1>2, <1>3, <1>5 DEF Registered
<1>7. o # NoValues => libs[<<c, m>>] = o
  BY <1>2, <1>3, <1>5 DEF Registered
<1>. HIDE DEF libs, to
<1>8. /\ phantom' \in [Canvas -> [Modules -> Phantom \cup {None}]]
      /\ \A d \in Canvas, k \in Modules :
           phantom'[d][k] = IF d \in to /\ ~Own(d, m) /\ k = m THEN [peer |-> c, val |-> v]
                            ELSE phantom[d][k]
  <2>. DEFINE phs == PhantomsAfter(to, c, m, v)
  <2>0. TypeOK /\ to \in SUBSET Canvas /\ c \in Sources /\ v \in Values
    BY <1>2, <1>3, <1>5
  <2>1. phs \in [Canvas -> [Modules -> Phantom \cup {None}]]
    BY <2>0, DeliveredPhantoms
  <2>2. ASSUME NEW d \in Canvas, NEW k \in Modules
        PROVE  phs[d][k] = IF d \in to /\ ~Own(d, m) /\ k = m THEN [peer |-> c, val |-> v]
                           ELSE phantom[d][k]
    BY <2>0, DeliveredPhantoms
  <2>3. phantom' = phs
    BY <1>1
  <2>. HIDE DEF phs
  <2>4. QED
    BY <2>1, <2>2, <2>3
<1>9. /\ lib' \in [Channel -> Values]
      /\ \A ch \in Channel : lib'[ch] \in {libs[ch], IF ch = <<c, m>> THEN v ELSE libs[ch]}
  <2>. DEFINE ls == LibAfter(libs, to, c, m, v)
  <2>1. ls \in [Channel -> Values]
    BY <1>3, <1>5, <1>6, DeliveredLibrary
  <2>2. ls \in {libs, [libs EXCEPT ![<<c, m>>] = v]}
    BY DEF LibAfter, Registered
  <2>3. lib' = ls
    BY <1>1
  <2>. HIDE DEF ls
  <2>4. QED
    BY <1>5, <1>6, <2>1, <2>2, <2>3
<1>10. \A d \in Canvas, k \in Modules :
         out'[d][k] = IF d = c /\ k = m THEN o ELSE out[d][k]
  BY <1>1, <1>2
<1>11. TypeOK'
  <2>1. out' \in [Canvas -> [Modules -> Values]]
    BY <1>1, <1>2, <1>3
  <2>2. net' \in [Peers \cup {Here} -> [Channel -> Values \cup {None}]]
    BY <1>1, <1>2, <1>3
  <2>3. AskedBy(to, m) \subseteq Canvas \X Modules
    BY <1>5, AskedAreNodes
  <2>4. pending' \subseteq Canvas \X Modules
    BY <1>1, <1>2, <2>3
  <2>5. QED
    BY <1>1, <1>2, <1>3, <1>8, <1>9, <2>1, <2>2, <2>4 DEF TypeOK
<1>12. \A d \in Canvas, k \in Modules : k \notin local'[d] => out'[d][k] = NoValues
  BY <1>1, <1>10 DEF NodesHaveLibraries, Own
<1>13. ASSUME NEW d \in Canvas, NEW k \in local'[d]
       PROVE  Keeps(lib'[<<d, k>>], k, out'[d][k], widget'[d][k])
  <2>1. k \in Modules /\ k \in local[d] /\ <<d, k>> \in Channel /\ widget' = widget
    BY <1>1, <1>2, Channels2
  <2>2. CASE d = c /\ k = m
    <3>1. out'[d][k] = o /\ lib'[<<d, k>>] \in {libs[<<c, m>>], v}
      BY <1>9, <1>10, <2>1, <2>2
    <3>2. CASE o = NoValues
      <4>1. \A w : Keeps(w, m, NoValues, widget[c][m])
        BY <1>2, <1>3, <3>2, NodesValues
      <4>2. QED
        BY <2>1, <2>2, <3>1, <3>2, <4>1
    <3>3. CASE o # NoValues
      BY <1>4, <1>7, <2>1, <2>2, <3>1, <3>3
    <3>4. QED
      BY <3>2, <3>3
  <2>3. CASE ~ (d = c /\ k = m)
    <3>1. <<d, k>> # <<c, m>>
      BY <2>3
    <3>2. out'[d][k] = out[d][k] /\ lib'[<<d, k>>] = lib[<<d, k>>]
      BY <1>6, <1>9, <1>10, <2>1, <2>3, <3>1
    <3>3. QED
      BY <2>1, <3>2 DEF NodesHaveLibraries
  <2>4. QED
    BY <2>2, <2>3
<1>14. ASSUME NEW d \in Canvas, NEW k \in Modules
       PROVE  Agrees(net'[Here][<<d, k>>], k, out'[d][k], widget'[d][k])
  <2>1. <<d, k>> \in Channel /\ widget' = widget
    BY <1>1, Channels2
  <2>2. CASE d = c /\ k = m /\ m \in Exporting
    <3>1. net'[Here][<<d, k>>] = v
      BY <1>1, <1>2, <2>1, <2>2
    <3>2. QED
      BY <1>4, <1>10, <2>1, <2>2, <3>1
  <2>3. CASE d = c /\ k = m /\ m \notin Exporting
    BY <2>3 DEF Exporting, Agrees
  <2>4. CASE ~ (d = c /\ k = m)
    <3>1. net'[Here][<<d, k>>] = net[Here][<<d, k>>]
      BY <1>1, <1>2, <2>1, <2>4
    <3>2. QED
      BY <1>10, <2>1, <2>4, <3>1 DEF NodesHaveLibraries
  <2>5. QED
    BY <2>2, <2>3, <2>4
<1>15. ASSUME NEW d \in Canvas, NEW k \in Lasting, phantom'[d][k] # None, k \notin local'[d]
       PROVE  /\ ShowsSource(phantom'[d][k], k, out', widget')
              /\ ShowsPeer(phantom'[d][k], k, lib', net')
  <2>. DEFINE ph == phantom'[d][k]
  <2>1. k \in Modules /\ ~ Own(d, k) /\ widget' = widget /\ k \notin local[d]
    BY <1>1, <1>15, LastingFacts DEF Own
  <2>2. CASE k = m /\ m \in Exporting
    <3>1. ph = [peer |-> c, val |-> v]
      <4>1. d \in to
        BY <2>1, <2>2 DEF to
      <4>2. QED
        BY <1>8, <2>1, <2>2, <4>1
    <3>2. ph.peer = c /\ ph.val = v
      BY <3>1
    <3>. HIDE DEF ph
    <3>3. QED
      BY <1>4, <1>10, <2>1, <2>2, <3>2 DEF ShowsSource, ShowsPeer, ph
  <2>3. CASE k # m \/ m \notin Exporting
    <3>1. ph = phantom[d][k]
      <4>1. CASE k # m
        BY <1>8, <2>1, <4>1
      <4>2. CASE m \notin Exporting
        <5>1. d \notin to
          BY <4>2 DEF to
        <5>2. QED
          BY <1>8, <2>1, <5>1
      <4>3. QED
        BY <2>3, <4>1, <4>2
    <3>2. /\ ph \in Phantom /\ <<ph.peer, k>> \in Channel
          /\ ShowsSource(ph, k, out, widget) /\ ShowsPeer(ph, k, lib, net)
      BY <1>15, <2>1, <3>1, ShownNow
    <3>. HIDE DEF ph
    <3>3. ShowsSource(ph, k, out', widget')
      <4>1. SUFFICES ASSUME ph.peer \in Canvas
                     PROVE  Agrees(ph.val, k, out'[ph.peer][k], widget[ph.peer][k])
        BY <2>1 DEF ShowsSource
      <4>2. CASE k # m
        BY <1>10, <2>1, <3>2, <4>1, <4>2 DEF ShowsSource
      <4>3. CASE k = m
        BY <2>3, <4>3 DEF Exporting, Agrees
      <4>4. QED
        BY <4>2, <4>3
    <3>4. ph.peer \notin Canvas =>
            /\ lib'[<<ph.peer, k>>] = lib[<<ph.peer, k>>]
            /\ \A p \in Peers \cup {Here} : net'[p][<<ph.peer, k>>] = net[p][<<ph.peer, k>>]
      <4>1. SUFFICES ASSUME ph.peer \notin Canvas
                     PROVE  /\ lib'[<<ph.peer, k>>] = lib[<<ph.peer, k>>]
                            /\ \A p \in Peers \cup {Here} : net'[p][<<ph.peer, k>>] = net[p][<<ph.peer, k>>]
        OBVIOUS
      <4>2. <<ph.peer, k>> # <<c, m>>
        BY <4>1
      <4>3. lib'[<<ph.peer, k>>] = lib[<<ph.peer, k>>]
        BY <1>6, <1>9, <3>2, <4>2
      <4>4. \A p \in Peers \cup {Here} : net'[p][<<ph.peer, k>>] = net[p][<<ph.peer, k>>]
        BY <1>1, <1>2, <3>2, <4>2
      <4>5. QED
        BY <4>3, <4>4
    <3>5. ShowsPeer(ph, k, lib', net')
      BY <3>2, <3>4, StillShowsPeer
    <3>6. QED
      BY <3>3, <3>5 DEF ph
  <2>4. QED
    BY <2>2, <2>3
<1>16. QED
  BY <1>11, <1>12, <1>13, <1>14, <1>15, LibrariesAgain

LEMMA ApplyResultLibraries ==
  ASSUME NodesHaveLibraries, NEW c \in Canvas, NEW m \in Modules, NEW given,
         ApplyResult(c, m, given)
  PROVE  NodesHaveLibraries'
<1>1. CASE Own(c, m)
  BY <1>1, ResultLibraries
<1>2. CASE ~ Own(c, m)
  <2>1. /\ UNCHANGED <<local, out, widget, phantom, lib, net, connected, current>>
        /\ stamp < MaxStamp /\ stamp' = stamp + 1
        /\ pending' = pending \ {<<c, m>>} /\ behind' \subseteq behind
    BY <1>2 DEF ApplyResult
  <2>2. /\ connected' \subseteq Peers /\ pending' \subseteq Canvas \X Modules /\ current' \in Canvas
        /\ behind' \subseteq Canvas \X Modules /\ stamp' \in 0 .. MaxStamp
    BY <2>1, Stamps DEF NodesHaveLibraries, TypeOK
  <2>3. QED
    BY <2>1, <2>2, SameLibraries DEF nodes
<1>3. QED
  BY <1>1, <1>2

LEMMA ApplyErrorLibraries ==
  ASSUME NodesHaveLibraries, NEW c \in Canvas, NEW m \in Modules, ApplyError(c, m)
  PROVE  NodesHaveLibraries'
<1>1. /\ UNCHANGED <<nodes, phantom, lib, net, connected, current, stamp>>
      /\ pending' = pending \ {<<c, m>>} /\ behind' \subseteq behind
  BY DEF ApplyError
<1>2. /\ connected' \subseteq Peers /\ pending' \subseteq Canvas \X Modules /\ current' \in Canvas
      /\ behind' \subseteq Canvas \X Modules /\ stamp' \in 0 .. MaxStamp
  BY <1>1 DEF NodesHaveLibraries, TypeOK
<1>3. QED
  BY <1>1, <1>2, SameLibraries

\* What a widget is set to takes a name away from what has to agree.
LEMMA UpdateWidgetLibraries ==
  ASSUME NodesHaveLibraries, NEW c \in Canvas, NEW m \in Modules, NEW x \in Names,
         UpdateWidget(c, m, x)
  PROVE  NodesHaveLibraries'
<1>. DEFINE new == NextValue(Here)
            o == out[c][m]
<1>1. /\ x \in Widgets[m] /\ Own(c, m) /\ stamp < MaxStamp /\ stamp' = stamp + 1
      /\ widget' = [widget EXCEPT ![c][m][x] = new]
      /\ lib' = Registered(lib, <<c, m>>, o)
      /\ pending' = pending \cup {<<c, m>>}
      /\ behind' \subseteq behind \cup {<<c, m>>}
      /\ UNCHANGED <<local, out, phantom, net, connected, current>>
  BY DEF UpdateWidget
<1>2. /\ local \in [Canvas -> SUBSET Modules]
      /\ out \in [Canvas -> [Modules -> Values]]
      /\ widget \in [Canvas -> [Modules -> Values]]
      /\ lib \in [Channel -> Values]
      /\ pending \subseteq Canvas \X Modules /\ behind \subseteq Canvas \X Modules
      /\ stamp \in 0 .. MaxStamp /\ TypeOK
  BY DEF NodesHaveLibraries, TypeOK
<1>3. new \in Value /\ new # None /\ stamp' \in 0 .. MaxStamp
  BY <1>1, <1>2, Stamps
<1>. HIDE DEF new
<1>4. ASSUME NEW d \in Canvas, NEW k \in Modules
      PROVE  /\ widget'[d][k] \in Values
             /\ widget'[d][k] = IF d = c /\ k = m THEN [widget[c][m] EXCEPT ![x] = new] ELSE widget[d][k]
             /\ \A y \in Names : widget[d][k][y] # None => widget'[d][k][y] # None
  <2>1. widget'[d][k] = IF d = c /\ k = m THEN [widget[c][m] EXCEPT ![x] = new] ELSE widget[d][k]
    BY <1>1, <1>2
  <2>2. widget[d][k] \in Values /\ widget[c][m] \in Values
    BY <1>2
  <2>3. [widget[c][m] EXCEPT ![x] = new] \in Values
    BY <1>3, <2>2 DEF Values
  <2>4. \A y \in Names : [widget[c][m] EXCEPT ![x] = new][y] = IF y = x THEN new ELSE widget[c][m][y]
    BY <2>2 DEF Values
  <2>5. QED
    BY <1>3, <2>1, <2>2, <2>3, <2>4
<1>5. TypeOK'
  <2>1. widget' \in [Canvas -> [Modules -> Values]]
    <3>1. widget' = [widget EXCEPT ![c] = [widget[c] EXCEPT ![m] = [widget[c][m] EXCEPT ![x] = new]]]
      BY <1>1, <1>2
    <3>2. widget'[c][m] = [widget[c][m] EXCEPT ![x] = new] /\ widget'[c][m] \in Values
      BY <1>4
    <3>3. QED
      BY <1>2, <3>1, <3>2
  <2>2. lib' \in [Channel -> Values]
    BY <1>1, <1>2 DEF Registered
  <2>3. pending' \subseteq Canvas \X Modules /\ behind' \subseteq Canvas \X Modules
    BY <1>1, <1>2
  <2>4. QED
    BY <1>1, <1>2, <1>3, <2>1, <2>2, <2>3 DEF TypeOK
<1>6. ASSUME NEW d \in Canvas, NEW k \in local'[d]
      PROVE  Keeps(lib'[<<d, k>>], k, out'[d][k], widget'[d][k])
  <2>1. k \in Modules /\ k \in local[d] /\ <<d, k>> \in Channel /\ out' = out
    BY <1>1, <1>2, Channels2
  <2>2. out[d][k] \in Values /\ widget'[d][k] \in Values
    BY <1>2, <1>4, <2>1
  <2>3. CASE d = c /\ k = m
    <3>1. CASE o = NoValues
      <4>1. Keeps(lib'[<<d, k>>], k, NoValues, widget'[d][k])
        BY <2>1, <2>2, NodesValues
      <4>2. QED
        BY <2>1, <2>3, <3>1, <4>1
    <3>2. CASE o # NoValues
      <4>1. lib'[<<d, k>>] = out[d][k]
        BY <1>1, <1>2, <2>1, <2>3, <3>2 DEF Registered
      <4>2. Keeps(out[d][k], k, out[d][k], widget'[d][k])
        BY <2>1, <2>2, NodesValues
      <4>3. QED
        BY <2>1, <4>1, <4>2
    <3>3. QED
      BY <3>1, <3>2
  <2>4. CASE ~ (d = c /\ k = m)
    <3>1. lib'[<<d, k>>] = lib[<<d, k>>] /\ widget'[d][k] = widget[d][k]
      BY <1>1, <1>2, <1>4, <2>1, <2>4 DEF Registered
    <3>2. QED
      BY <2>1, <3>1 DEF NodesHaveLibraries
  <2>5. QED
    BY <2>3, <2>4
<1>7. ASSUME NEW d \in Canvas, NEW k \in Modules, NEW v, Agrees(v, k, out[d][k], widget[d][k])
      PROVE  Agrees(v, k, out'[d][k], widget'[d][k])
  <2>1. Exports[k] \subseteq Names
    BY ConstantsAssumption
  <2>2. QED
    BY <1>1, <1>4, <1>7, <2>1 DEF Agrees
<1>8. ASSUME NEW d \in Canvas, NEW k \in Lasting, phantom'[d][k] # None, k \notin local'[d]
      PROVE  /\ ShowsSource(phantom'[d][k], k, out', widget')
             /\ ShowsPeer(phantom'[d][k], k, lib', net')
  <2>. DEFINE ph == phantom[d][k]
  <2>1. k \in Modules /\ k \notin local[d] /\ phantom'[d][k] = ph /\ net' = net
    BY <1>1, <1>8, LastingFacts
  <2>2. /\ ph \in Phantom /\ <<ph.peer, k>> \in Channel
        /\ ShowsSource(ph, k, out, widget) /\ ShowsPeer(ph, k, lib, net)
    BY <1>8, <2>1, ShownNow
  <2>. HIDE DEF ph
  <2>3. ShowsSource(ph, k, out', widget')
    BY <1>7, <2>1, <2>2 DEF ShowsSource
  <2>4. ph.peer \notin Canvas => lib'[<<ph.peer, k>>] = lib[<<ph.peer, k>>]
    BY <1>1, <1>2, <2>2 DEF Registered
  <2>5. ShowsPeer(ph, k, lib', net')
    BY <2>1, <2>2, <2>4, StillShowsPeer
  <2>6. QED
    BY <2>1, <2>3, <2>5
<1>9. /\ \A d \in Canvas, k \in Modules : k \notin local'[d] => out'[d][k] = NoValues
      /\ \A d \in Canvas, k \in Modules : Agrees(net'[Here][<<d, k>>], k, out'[d][k], widget'[d][k])
  BY <1>1, <1>7 DEF NodesHaveLibraries
<1>10. QED
  BY <1>5, <1>6, <1>8, <1>9, LibrariesAgain

\* A node of an edited label is made or deleted: it has no values then.
LEMMA EditedLibraries ==
  ASSUME NodesHaveLibraries, NEW c \in Canvas, NEW m \in Modules,
         CreateNode(c, m) \/ DeleteNode(c, m)
  PROVE  NodesHaveLibraries'
<1>1. PICK set \in {NoValues, Saved(m)} :
      /\ <<c, m>> \in Edited
      /\ UNCHANGED <<phantom, lib, net, connected, current, stamp>>
      /\ pending' \subseteq pending /\ behind' \subseteq behind
      /\ widget' = [widget EXCEPT ![c][m] = set]
      /\ \/ local' = [local EXCEPT ![c] = @ \cup {m}] /\ out' = out /\ m \notin local[c]
         \/ local' = [local EXCEPT ![c] = @ \ {m}] /\ out' = [out EXCEPT ![c][m] = NoValues]
  BY DEF CreateNode, DeleteNode, waits, Own
<1>2. /\ local \in [Canvas -> SUBSET Modules]
      /\ out \in [Canvas -> [Modules -> Values]]
      /\ widget \in [Canvas -> [Modules -> Values]]
      /\ TypeOK
  BY DEF NodesHaveLibraries, TypeOK
<1>3. m \notin Lasting /\ set \in Values /\ NoValues \in Values
  BY <1>1, LastingFacts, ValueSets
<1>4. TypeOK'
  <2>1. local' \in [Canvas -> SUBSET Modules]
    BY <1>1, <1>2
  <2>2. out' \in [Canvas -> [Modules -> Values]]
    <3>1. [out EXCEPT ![c][m] = NoValues] \in [Canvas -> [Modules -> Values]]
      BY <1>2, <1>3
    <3>2. QED
      BY <1>1, <1>2, <3>1
  <2>3. widget' \in [Canvas -> [Modules -> Values]]
    BY <1>1, <1>2, <1>3
  <2>4. QED
    BY <1>1, <1>2, <2>1, <2>2, <2>3 DEF TypeOK
<1>5. out'[c][m] = NoValues
  BY <1>1, <1>2 DEF NodesHaveLibraries
<1>6. ASSUME NEW d \in Canvas, NEW k \in Modules, ~ (d = c /\ k = m)
      PROVE  /\ (k \in local'[d] <=> k \in local[d])
             /\ out'[d][k] = out[d][k] /\ widget'[d][k] = widget[d][k]
  BY <1>1, <1>2, <1>6
<1>7. widget'[c][m] \in Values
  BY <1>4 DEF TypeOK
<1>8. \A v : Keeps(v, m, out'[c][m], widget'[c][m]) /\ Agrees(v, m, out'[c][m], widget'[c][m])
  <2>1. \A v : Agrees(v, m, NoValues, widget'[c][m]) /\ Keeps(v, m, NoValues, widget'[c][m])
    BY <1>3, <1>7, NodesValues
  <2>2. QED
    BY <1>5, <2>1
<1>9. ASSUME NEW d \in Canvas, NEW k \in Modules
      PROVE  /\ k \notin local'[d] => out'[d][k] = NoValues
             /\ k \in local'[d] => Keeps(lib'[<<d, k>>], k, out'[d][k], widget'[d][k])
             /\ Agrees(net'[Here][<<d, k>>], k, out'[d][k], widget'[d][k])
  <2>1. CASE d = c /\ k = m
    BY <1>5, <1>8, <2>1
  <2>2. CASE ~ (d = c /\ k = m)
    BY <1>1, <1>6, <2>2 DEF NodesHaveLibraries
  <2>3. QED
    BY <2>1, <2>2
<1>10. ASSUME NEW d \in Canvas, NEW k \in Lasting, phantom'[d][k] # None, k \notin local'[d]
       PROVE  /\ ShowsSource(phantom'[d][k], k, out', widget')
              /\ ShowsPeer(phantom'[d][k], k, lib', net')
  <2>1. k \in Modules /\ k # m /\ phantom' = phantom /\ lib' = lib /\ net' = net /\ k \notin local[d]
    BY <1>1, <1>3, <1>6, <1>10, LastingFacts
  <2>2. ShowsSource(phantom[d][k], k, out, widget) /\ ShowsPeer(phantom[d][k], k, lib, net)
    BY <1>10, <2>1, ShownNow
  <2>3. \A e \in Canvas : out'[e][k] = out[e][k] /\ widget'[e][k] = widget[e][k]
    BY <1>6, <2>1
  <2>4. ShowsSource(phantom[d][k], k, out', widget')
    BY <2>2, <2>3 DEF ShowsSource
  <2>5. QED
    BY <2>1, <2>2, <2>4
<1>11. \A d \in Canvas : \A k \in local'[d] : k \in Modules
  BY <1>4 DEF TypeOK
<1>12. \A d \in Canvas : \A k \in local'[d] : Keeps(lib'[<<d, k>>], k, out'[d][k], widget'[d][k])
  BY <1>9, <1>11
<1>13. QED
  BY <1>4, <1>9, <1>10, <1>12, LibrariesAgain

LEMMA SwitchCanvasLibraries ==
  ASSUME NodesHaveLibraries, NEW c \in Canvas, SwitchCanvas(c)
  PROVE  NodesHaveLibraries'
<1>1. /\ current' = c
      /\ lib' = [ch \in Channel |->
                  IF ch[1] = c /\ ch[2] \in local[c] \cap Exporting
                  THEN Stub(ch[2], out[c][ch[2]]) ELSE lib[ch]]
      /\ UNCHANGED <<nodes, phantom, net, connected, pending, behind, stamp>>
  BY DEF SwitchCanvas, waits
<1>2. /\ local \in [Canvas -> SUBSET Modules] /\ TypeOK
      /\ out \in [Canvas -> [Modules -> Values]] /\ widget \in [Canvas -> [Modules -> Values]]
      /\ lib \in [Channel -> Values]
  BY DEF NodesHaveLibraries, TypeOK
<1>3. \A m \in Modules : Stub(m, out[c][m]) \in Values
  BY <1>2, ValueSets
<1>4. lib' \in [Channel -> Values]
  BY <1>1, <1>2, <1>3
<1>5. ASSUME NEW d \in Canvas, NEW m \in local[d]
      PROVE  lib'[<<d, m>>] = lib[<<d, m>>] \/ Keeps(lib'[<<d, m>>], m, out[d][m], widget[d][m])
  <2>1. m \in Modules /\ <<d, m>> \in Channel
    BY <1>2, Channels2
  <2>2. Keeps(Stub(m, out[d][m]), m, out[d][m], widget[d][m])
    BY <1>2, <2>1, NodesValues
  <2>3. lib'[<<d, m>>] \in {lib[<<d, m>>], Stub(m, out[d][m])}
    BY <1>1, <2>1
  <2>4. QED
    BY <2>2, <2>3
<1>6. \A s \in Sources, m \in Modules : s \notin Canvas => lib'[<<s, m>>] = lib[<<s, m>>]
  BY <1>1 DEF Channel
<1>7. /\ connected' \subseteq Peers /\ pending' \subseteq Canvas \X Modules /\ current' \in Canvas
      /\ behind' \subseteq Canvas \X Modules /\ stamp' \in 0 .. MaxStamp
  BY <1>1, <1>2 DEF TypeOK
<1>8. QED
  BY <1>1, <1>4, <1>5, <1>6, <1>7, OwnRegistered

LEMMA PeerDiscoveredLibraries ==
  ASSUME NodesHaveLibraries, NEW p \in Peers, PeerDiscovered(p)
  PROVE  NodesHaveLibraries'
<1>1. /\ UNCHANGED <<nodes, phantom, lib, net, pending, behind, current, stamp>>
      /\ connected' = connected \cup {p}
  BY DEF PeerDiscovered, waits
<1>2. /\ connected' \subseteq Peers /\ pending' \subseteq Canvas \X Modules /\ current' \in Canvas
      /\ behind' \subseteq Canvas \X Modules /\ stamp' \in 0 .. MaxStamp
  BY <1>1 DEF NodesHaveLibraries, TypeOK
<1>3. QED
  BY <1>1, <1>2, SameLibraries

\* Values of a peer, under a canvas name that is not one of this process.
LEMMA ValuesReceivedLibraries ==
  ASSUME NodesHaveLibraries, NEW p \in Peers, NEW name \in Remote, NEW m \in Modules, NEW given,
         ValuesReceived(p, name, m, given), Canvas \cap Remote = {}
  PROVE  NodesHaveLibraries'
<1>. DEFINE v == Given(given, p)
<1>1. /\ stamp < MaxStamp /\ stamp' = stamp + 1
      /\ net' = [net EXCEPT ![p][<<name, m>>] = v]
      /\ phantom' = PhantomsAfter(Canvas, name, m, v)
      /\ lib' = LibAfter(lib, Canvas, name, m, v)
      /\ pending' = pending \cup AskedBy(Canvas, m)
      /\ UNCHANGED <<local, out, widget, behind, connected, current>>
  BY DEF ValuesReceived, nodes
<1>2. /\ local \in [Canvas -> SUBSET Modules]
      /\ lib \in [Channel -> Values]
      /\ net \in [Peers \cup {Here} -> [Channel -> Values \cup {None}]]
      /\ pending \subseteq Canvas \X Modules /\ stamp \in 0 .. MaxStamp
      /\ TypeOK
  BY DEF NodesHaveLibraries, TypeOK
<1>3. v \in Values /\ \A x \in Names : v[x] # None => v[x].from = p
  BY <1>1, <1>2, GivenValues
<1>4. stamp' \in 0 .. MaxStamp
  BY <1>1, <1>2, Stamps
<1>5. <<name, m>> \in Channel /\ name \in Sources /\ Canvas \in SUBSET Canvas /\ name \notin Canvas
  BY DEF Channel, Sources
<1>. HIDE DEF v
<1>6. /\ phantom' \in [Canvas -> [Modules -> Phantom \cup {None}]]
      /\ \A d \in Canvas, k \in Modules :
           phantom'[d][k] = IF ~Own(d, m) /\ k = m THEN [peer |-> name, val |-> v]
                            ELSE phantom[d][k]
  <2>. DEFINE phs == PhantomsAfter(Canvas, name, m, v)
  <2>0. TypeOK /\ Canvas \in SUBSET Canvas /\ name \in Sources /\ v \in Values
    BY <1>2, <1>3, <1>5
  <2>1. phs \in [Canvas -> [Modules -> Phantom \cup {None}]]
    BY <2>0, DeliveredPhantoms
  <2>2. ASSUME NEW d \in Canvas, NEW k \in Modules
        PROVE  phs[d][k] = IF d \in Canvas /\ ~Own(d, m) /\ k = m THEN [peer |-> name, val |-> v]
                           ELSE phantom[d][k]
    BY <2>0, DeliveredPhantoms
  <2>3. phantom' = phs
    BY <1>1
  <2>. HIDE DEF phs
  <2>4. QED
    BY <2>1, <2>2, <2>3
<1>7. /\ lib' \in [Channel -> Values]
      /\ \A ch \in Channel :
           lib'[ch] = IF ch = <<name, m>> /\ v # NoValues /\ (\E d \in Canvas : ~Own(d, m))
                      THEN v ELSE lib[ch]
  <2>. DEFINE ls == LibAfter(lib, Canvas, name, m, v)
  <2>0. lib \in [Channel -> Values] /\ Canvas \in SUBSET Canvas /\ name \in Sources /\ v \in Values
    BY <1>2, <1>3, <1>5
  <2>1. ls \in [Channel -> Values]
    BY <2>0, DeliveredLibrary
  <2>2. ASSUME NEW ch \in Channel
        PROVE  ls[ch] = IF ch = <<name, m>> /\ v # NoValues /\ (\E d \in Canvas : ~Own(d, m))
                        THEN v ELSE lib[ch]
    <3>1. ls = IF v # NoValues /\ (\E d \in Canvas : ~Own(d, m))
               THEN [lib EXCEPT ![<<name, m>>] = v] ELSE lib
      BY DEF LibAfter, Registered, Takers
    <3>. HIDE DEF ls
    <3>2. CASE v # NoValues /\ (\E d \in Canvas : ~Own(d, m))
      BY <1>5, <2>0, <3>1, <3>2
    <3>3. CASE ~ (v # NoValues /\ (\E d \in Canvas : ~Own(d, m)))
      BY <3>1, <3>3
    <3>4. QED
      BY <3>2, <3>3
  <2>3. lib' = ls
    BY <1>1
  <2>. HIDE DEF ls
  <2>4. QED
    BY <2>1, <2>2, <2>3
<1>8. TypeOK'
  <2>1. net' \in [Peers \cup {Here} -> [Channel -> Values \cup {None}]]
    BY <1>1, <1>2, <1>3
  <2>2. AskedBy(Canvas, m) \subseteq Canvas \X Modules
    BY <1>5, AskedAreNodes
  <2>3. QED
    BY <1>1, <1>2, <1>4, <1>6, <1>7, <2>1, <2>2 DEF TypeOK
<1>9. \A d \in Canvas, k \in Modules : /\ lib'[<<d, k>>] = lib[<<d, k>>]
                                       /\ net'[Here][<<d, k>>] = net[Here][<<d, k>>]
  <2>1. \A d \in Canvas, k \in Modules : <<d, k>> \in Channel /\ <<d, k>> # <<name, m>>
    BY <1>5, Channels2
  <2>2. Here # p
    BY ConstantsAssumption
  <2>3. QED
    BY <1>1, <1>2, <1>7, <2>1, <2>2
<1>10. /\ \A d \in Canvas, k \in Modules : k \notin local'[d] => out'[d][k] = NoValues
       /\ \A d \in Canvas, k \in Modules : Agrees(net'[Here][<<d, k>>], k, out'[d][k], widget'[d][k])
  BY <1>1, <1>9 DEF NodesHaveLibraries
<1>11. \A d \in Canvas : \A k \in local'[d] : Keeps(lib'[<<d, k>>], k, out'[d][k], widget'[d][k])
  <2>1. \A d \in Canvas : \A k \in local'[d] : k \in Modules /\ k \in local[d]
    BY <1>1, <1>2
  <2>2. QED
    BY <1>1, <1>9, <2>1 DEF NodesHaveLibraries
<1>12. ASSUME NEW d \in Canvas, NEW k \in Lasting, phantom'[d][k] # None, k \notin local'[d]
       PROVE  /\ ShowsSource(phantom'[d][k], k, out', widget')
              /\ ShowsPeer(phantom'[d][k], k, lib', net')
  <2>. DEFINE ph == phantom'[d][k]
  <2>1. k \in Modules /\ ~ Own(d, k) /\ k \notin local[d] /\ out' = out /\ widget' = widget
    BY <1>1, <1>12, LastingFacts DEF Own
  <2>2. CASE k = m
    <3>1. ph = [peer |-> name, val |-> v]
      BY <1>6, <2>1, <2>2
    <3>2. ph.peer = name /\ ph.val = v
      BY <3>1
    <3>. HIDE DEF ph
    <3>3. v # NoValues => lib'[<<name, m>>] = v
      BY <1>5, <1>7, <2>1, <2>2
    <3>4. net'[p][<<name, m>>] = v
      BY <1>1, <1>2, <1>5
    <3>5. Last(v, <<name, m>>, net')
      BY <1>3, <3>4 DEF Last
    <3>6. QED
      BY <1>5, <2>2, <3>2, <3>3, <3>5 DEF ShowsSource, ShowsPeer, ph
  <2>3. CASE k # m
    <3>1. ph = phantom[d][k]
      BY <1>6, <2>1, <2>3
    <3>2. /\ ph \in Phantom /\ <<ph.peer, k>> \in Channel
          /\ ShowsSource(ph, k, out, widget) /\ ShowsPeer(ph, k, lib, net)
      BY <1>12, <2>1, <3>1, ShownNow
    <3>. HIDE DEF ph
    <3>3. <<ph.peer, k>> # <<name, m>>
      BY <2>3
    <3>4. /\ lib'[<<ph.peer, k>>] = lib[<<ph.peer, k>>]
          /\ \A q \in Peers \cup {Here} : net'[q][<<ph.peer, k>>] = net[q][<<ph.peer, k>>]
      BY <1>1, <1>2, <1>7, <3>2, <3>3
    <3>5. ShowsPeer(ph, k, lib', net')
      BY <3>2, <3>4, StillShowsPeer
    <3>6. QED
      BY <2>1, <3>2, <3>5 DEF ph
  <2>4. QED
    BY <2>2, <2>3
<1>13. QED
  BY <1>8, <1>10, <1>11, <1>12, LibrariesAgain

LEMMA PeerLostLibraries ==
  ASSUME NodesHaveLibraries, NEW p \in Peers, PeerLost(p)
  PROVE  NodesHaveLibraries'
<1>1. /\ connected' = connected \ {p}
      /\ net' = [net EXCEPT ![p] = [ch \in Channel |-> None]]
      /\ phantom' = [phantom EXCEPT ![current] =
                      [m \in Modules |->
                         IF @[m] # None /\ @[m].peer = p THEN None ELSE @[m]]]
      /\ UNCHANGED <<local, out, widget, lib, pending, behind, current, stamp>>
  BY DEF PeerLost, nodes, waits
<1>2. /\ phantom \in [Canvas -> [Modules -> Phantom \cup {None}]] /\ current \in Canvas
      /\ net \in [Peers \cup {Here} -> [Channel -> Values \cup {None}]]
      /\ TypeOK
  BY DEF NodesHaveLibraries, TypeOK
<1>3. \A d \in Canvas, k \in Modules : phantom'[d][k] \in {phantom[d][k], None}
  BY <1>1, <1>2
<1>4. phantom' \in [Canvas -> [Modules -> Phantom \cup {None}]]
  <2>1. [m \in Modules |-> IF phantom[current][m] # None /\ phantom[current][m].peer = p
                           THEN None ELSE phantom[current][m]]
          \in [Modules -> Phantom \cup {None}]
    BY <1>2
  <2>2. QED
    BY <1>1, <1>2, <2>1
<1>5. \A q \in Peers \cup {Here}, ch \in Channel :
        net'[q][ch] = IF q = p THEN None ELSE net[q][ch]
  BY <1>1, <1>2
<1>6. net' \in [Peers \cup {Here} -> [Channel -> Values \cup {None}]]
  BY <1>1, <1>2
<1>7. TypeOK'
  BY <1>1, <1>2, <1>4, <1>6 DEF TypeOK
<1>8. \A d \in Canvas, k \in Modules : net'[Here][<<d, k>>] = net[Here][<<d, k>>]
  <2>1. Here # p
    BY ConstantsAssumption
  <2>2. QED
    BY <1>5, <2>1, Channels2
<1>9. /\ \A d \in Canvas, k \in Modules : k \notin local'[d] => out'[d][k] = NoValues
      /\ \A d \in Canvas, k \in Modules : Agrees(net'[Here][<<d, k>>], k, out'[d][k], widget'[d][k])
      /\ \A d \in Canvas : \A k \in local'[d] : Keeps(lib'[<<d, k>>], k, out'[d][k], widget'[d][k])
  BY <1>1, <1>8 DEF NodesHaveLibraries
<1>10. ASSUME NEW d \in Canvas, NEW k \in Lasting, phantom'[d][k] # None, k \notin local'[d]
       PROVE  /\ ShowsSource(phantom'[d][k], k, out', widget')
              /\ ShowsPeer(phantom'[d][k], k, lib', net')
  <2>. DEFINE ph == phantom[d][k]
  <2>1. k \in Modules /\ phantom'[d][k] = ph /\ ph # None /\ k \notin local[d]
    BY <1>1, <1>3, <1>10, LastingFacts
  <2>2. /\ ph \in Phantom /\ <<ph.peer, k>> \in Channel
        /\ ShowsSource(ph, k, out, widget) /\ ShowsPeer(ph, k, lib, net)
    BY <2>1, ShownNow
  <2>. HIDE DEF ph
  <2>3. \A q \in Peers \cup {Here} : net'[q][<<ph.peer, k>>] \in {net[q][<<ph.peer, k>>], None}
    BY <1>5, <2>2
  <2>4. lib' = lib /\ ph \in Phantom /\ ShowsPeer(ph, k, lib, net)
    BY <1>1, <2>2
  <2>5. ShowsPeer(ph, k, lib', net')
    BY <2>3, <2>4, StillShowsPeer
  <2>6. QED
    BY <1>1, <2>1, <2>2, <2>5
<1>11. QED
  BY <1>7, <1>9, <1>10, LibrariesAgain

LEMMA LibrariesStep ==
  ASSUME NodesHaveLibraries, [Next]_vars, Canvas \cap Remote = {}
  PROVE  NodesHaveLibraries'
<1>1. CASE UNCHANGED vars
  <2>1. UNCHANGED <<nodes, phantom, lib, net, connected, pending, behind, current, stamp>>
    BY <1>1 DEF vars, waits
  <2>2. /\ connected' \subseteq Peers /\ pending' \subseteq Canvas \X Modules
        /\ behind' \subseteq Canvas \X Modules /\ current' \in Canvas /\ stamp' \in 0 .. MaxStamp
    BY <2>1 DEF NodesHaveLibraries, TypeOK
  <2>3. QED
    BY <2>1, <2>2, SameLibraries
<1>2. ASSUME NEW c \in Canvas, NEW m \in Modules,
             \/ ComputeNode(c, m) \/ ApplyError(c, m)
             \/ CreateNode(c, m) \/ DeleteNode(c, m)
      PROVE  NodesHaveLibraries'
  BY <1>2, ComputeNodeLibraries, ApplyErrorLibraries, EditedLibraries
<1>3. ASSUME NEW c \in Canvas, NEW m \in Modules, NEW given, ApplyResult(c, m, given)
      PROVE  NodesHaveLibraries'
  BY <1>3, ApplyResultLibraries
<1>4. ASSUME NEW c \in Canvas, NEW m \in Modules, NEW x \in Names, UpdateWidget(c, m, x)
      PROVE  NodesHaveLibraries'
  BY <1>4, UpdateWidgetLibraries
<1>5. ASSUME NEW c \in Canvas, SwitchCanvas(c) PROVE NodesHaveLibraries'
  BY <1>5, SwitchCanvasLibraries
<1>6. ASSUME NEW p \in Peers, PeerDiscovered(p) \/ PeerLost(p) PROVE NodesHaveLibraries'
  BY <1>6, PeerDiscoveredLibraries, PeerLostLibraries
<1>7. ASSUME NEW p \in Peers, NEW name \in Remote, NEW m \in Modules, NEW given,
             ValuesReceived(p, name, m, given)
      PROVE  NodesHaveLibraries'
  BY <1>7, ValuesReceivedLibraries
<1>8. QED
  BY <1>1, <1>2, <1>3, <1>4, <1>5, <1>6, <1>7 DEF Next

\* What a phantom of a node shows is in the library of the node, and published.
LEMMA PhantomsShowLibraries == NodesHaveLibraries => LibrariesAreRight
<1>1. SUFFICES ASSUME NodesHaveLibraries PROVE LibrariesAreRight
  OBVIOUS
<1>2. LibraryIsNodes
  BY <1>1 DEF NodesHaveLibraries, LibraryIsNodes, Keeps
<1>3. ASSUME NEW c \in Canvas, NEW m \in Lasting, phantom[c][m] # None, ~Own(c, m),
             phantom[c][m].peer \in Canvas, NEW x \in Exports[m],
             out[phantom[c][m].peer][m][x] # None, widget[phantom[c][m].peer][m][x] = None
      PROVE  LET ph == phantom[c][m]
                 gave == out[ph.peer][m][x]
             IN  /\ ph.val[x] = gave /\ lib[<<ph.peer, m>>][x] = gave
                 /\ net[Here][<<ph.peer, m>>][x] = gave
  <2>. DEFINE ph == phantom[c][m]
              d == ph.peer
  <2>1. m \in Modules /\ x \in Names /\ d \in Canvas
    BY <1>3, LastingFacts, ConstantsAssumption
  <2>2. Agrees(ph.val, m, out[d][m], widget[d][m])
    BY <1>1, <1>3 DEF NodesHaveLibraries, Own, ShowsSource
  <2>3. Agrees(net[Here][<<d, m>>], m, out[d][m], widget[d][m])
    BY <1>1, <2>1 DEF NodesHaveLibraries
  <2>4. m \in local[d]
    <3>1. out[d][m] # NoValues
      BY <1>3, <2>1 DEF NoValues
    <3>2. QED
      BY <1>1, <2>1, <3>1 DEF NodesHaveLibraries
  <2>5. Keeps(lib[<<d, m>>], m, out[d][m], widget[d][m])
    BY <1>1, <2>1, <2>4 DEF NodesHaveLibraries
  <2>. HIDE DEF d
  <2>6. ph.val[x] = out[d][m][x] /\ net[Here][<<d, m>>][x] = out[d][m][x]
    BY <1>3, <2>2, <2>3 DEF Agrees, d
  <2>7. lib[<<d, m>>][x] = out[d][m][x]
    BY <1>3, <2>1, <2>5 DEF Keeps, d
  <2>8. QED
    BY <2>6, <2>7 DEF d
<1>4. ASSUME NEW c \in Canvas, NEW m \in Lasting, phantom[c][m] # None, ~Own(c, m),
             phantom[c][m].peer \notin Canvas, phantom[c][m].val # NoValues
      PROVE  LET ph == phantom[c][m] IN
             /\ lib[<<ph.peer, m>>] = ph.val
             /\ \A x \in Names : ph.val[x] # None /\ net[ph.val[x].from][<<ph.peer, m>>] # None =>
                  net[ph.val[x].from][<<ph.peer, m>>] = ph.val
  BY <1>1, <1>4 DEF NodesHaveLibraries, Own, ShowsPeer, Last
<1>5. PhantomShowsItsLibrary
  <2>1. SUFFICES ASSUME NEW c \in Canvas, NEW m \in Lasting, phantom[c][m] # None, ~Own(c, m)
                 PROVE  LET ph == phantom[c][m] IN
                        IF ph.peer \in Canvas
                        THEN \A x \in Exports[m] :
                               LET gave == out[ph.peer][m][x] IN
                               gave # None /\ widget[ph.peer][m][x] = None =>
                                 /\ ph.val[x] = gave /\ lib[<<ph.peer, m>>][x] = gave
                                 /\ net[Here][<<ph.peer, m>>][x] = gave
                        ELSE ph.val # NoValues =>
                               /\ lib[<<ph.peer, m>>] = ph.val
                               /\ \A x \in Names :
                                    ph.val[x] # None /\ net[ph.val[x].from][<<ph.peer, m>>] # None =>
                                      net[ph.val[x].from][<<ph.peer, m>>] = ph.val
    BY DEF PhantomShowsItsLibrary, Lasting
  <2>2. CASE phantom[c][m].peer \in Canvas
    BY <1>3, <2>1, <2>2
  <2>3. CASE phantom[c][m].peer \notin Canvas
    BY <1>4, <2>1, <2>3
  <2>4. QED
    BY <2>2, <2>3
<1>6. QED
  BY <1>1, <1>2, <1>5 DEF LibrariesAreRight, NodesHaveLibraries

\* If no peer publishes under the name of a canvas of this process, scripts get the
\* values of the node they import, whatever is computed, set, delivered, made, deleted
\* and shown.
THEOREM LibrariesAreAlwaysRight ==
  ASSUME Canvas \cap Remote = {}
  PROVE  Spec => []LibrariesAreRight
<1>1. Init => NodesHaveLibraries
  BY LibrariesInit
<1>2. NodesHaveLibraries /\ [Next]_vars => NodesHaveLibraries'
  BY LibrariesStep
<1>3. NodesHaveLibraries => LibrariesAreRight
  BY PhantomsShowLibraries
<1>4. QED
  BY <1>1, <1>2, <1>3, PTL DEF Spec

-----------------------------------------------------------------------------
(***************************************************************************)
(* Gossip: published values                                                *)
(***************************************************************************)

\* The network of the theorem: one process publishes on a channel and does not
\* restart, the links connect all processes, and those that restart have one
\* neighbour at most.
OnePublisher == \A ch \in Channels : \A p, q \in Publishers[ch] : p = q
PublishersStay == \A ch \in Channels : Publishers[ch] \cap Restarting = {}
LeavesRestart == \A i \in Restarting : \A j, k \in Neighbours(i) : j = k
Connected ==
  \A S \in SUBSET Procs : S # {} /\ (\A i \in S : Neighbours(i) \subseteq S) => S = Procs
SteadyNetwork == OnePublisher /\ PublishersStay /\ LeavesRestart /\ Connected

Lasts == Procs \ Restarting
LastingLinks == {l \in Links : l[1] \in Lasts /\ l[2] \in Lasts}
LeafLinks == {l \in Links : l[2] \in Restarting}

\* The messages there are: those their publishers remember.
Issued ==
  {m \in Message : \E p \in Publishers[m.channel] : m.src = <<p, 0>> /\ m \in seen[p]}

Earlier(m, n) == m.channel = n.channel /\ m.seq < n.seq
Holds(q, m) == \E k \in 1 .. Len(q) : q[k] = m

\* What was seen at one end of a link has been seen at the other or is coming.
Handed(a, q, b) == \A m \in a : m \in b \/ Holds(q, m)

\* Before a message of the link the earlier ones come, unless they were seen.
Gapless(q, b, P) == \A k \in 1 .. Len(q) : \A m \in P :
  Earlier(m, q[k]) => m \in b \/ \E h \in 1 .. k - 1 : q[h] = m

\* What comes is later than what was seen and what comes before.
InTurn(q, b) == \A k \in 1 .. Len(q) :
  /\ \A m \in b : m.channel = q[k].channel => Earlier(m, q[k])
  /\ \A h \in 1 .. k - 1 : q[h].channel = q[k].channel => Earlier(q[h], q[k])

Typed ==
  /\ life \in [Procs -> 0 .. MaxRestarts]
  /\ seq \in [Procs -> 0 .. MaxSeq]
  /\ latest \in [Procs -> [Id \X Channels -> Nat]]
  /\ shown \in [Procs -> [Channels -> Message \cup {NoMessage}]]
  /\ seen \in [Procs -> SUBSET Message]
  /\ queue \in [Links -> Seq(Message)]
  /\ newest \in [Channels -> Message \cup {NoMessage}]
  /\ owed \in [Channels -> SUBSET Procs]

\* Only what was received is remembered and shown.
MemoryIsReceived == \A i \in Procs :
  /\ \A k \in Id \X Channels :
       latest[i][k] = 0 \/ \E m \in seen[i] : m.channel = k[2] /\ m.seq = latest[i][k]
  /\ \A ch \in Channels : shown[i][ch] \in seen[i] \cup {NoMessage}

\* Messages come from their publishers; restarting processes forward none.
MessagesArePublished ==
  /\ \A i \in Procs : seen[i] \subseteq Issued
  /\ \A m \in Issued : m.seq <= seq[m.src[1]]
  /\ \A i \in Procs : life[i] # 0 => i \in Restarting
  /\ \A l \in Links : /\ \A k \in 1 .. Len(queue[l]) : queue[l][k] \in seen[l[1]]
                      /\ l[1] \in Restarting => queue[l] = << >>

\* A process that lasts gets every message, the earlier first.
NothingIsMissed ==
  /\ \A i \in Lasts : \A m \in seen[i], n \in Issued : Earlier(n, m) => n \in seen[i]
  /\ \A l \in LastingLinks :
       Handed(seen[l[1]], queue[l], seen[l[2]]) /\ Gapless(queue[l], seen[l[2]], Issued)

\* One that restarts gets those there are since then.
LeavesInTurn == \A l \in LeafLinks : seen[l[2]] \subseteq seen[l[1]] /\ InTurn(queue[l], seen[l[2]])

\* What is shown is the last that was seen.
LastIsShown == \A i \in Procs, ch \in Channels : i \notin Publishers[ch] =>
  \A m \in seen[i] : m.channel = ch => /\ shown[i][ch] # NoMessage /\ shown[i][ch].channel = ch
                                       /\ m.seq <= shown[i][ch].seq

NewestIsLast == \A ch \in Channels :
  /\ newest[ch] = NoMessage => owed[ch] = {}
  /\ newest[ch] # NoMessage =>
       /\ newest[ch] \in Issued /\ newest[ch].channel = ch
       /\ \A m \in Issued : m.channel = ch => m.seq <= newest[ch].seq

\* A process that restarts and is owed the newest message gets it.
NewestIsOwed == \A ch \in Channels :
  /\ owed[ch] \cap Publishers[ch] = {}
  /\ \A l \in LeafLinks : l[2] \in owed[ch] /\ newest[ch] \in seen[l[1]] =>
       newest[ch] \in seen[l[2]] \/ Holds(queue[l], newest[ch])

GossipKept ==
  /\ Typed /\ MemoryIsReceived /\ MessagesArePublished /\ NothingIsMissed
  /\ LeavesInTurn /\ LastIsShown /\ NewestIsLast /\ NewestIsOwed

-----------------------------------------------------------------------------
(***************************************************************************)
(* Messages on a link                                                      *)
(***************************************************************************)

LEMMA HeadOf ==
  ASSUME NEW q \in Seq(Message), q # << >>
  PROVE  /\ Head(q) \in Message /\ Head(q) = q[1] /\ Tail(q) \in Seq(Message)
         /\ Len(q) \in Nat \ {0} /\ Len(Tail(q)) = Len(q) - 1
         /\ \A k \in 1 .. Len(q) - 1 : Tail(q)[k] = q[k + 1]
BY HeadTailProperties, EmptySeq, SMT

LEMMA AppendOf ==
  ASSUME NEW q \in Seq(Message), NEW m \in Message
  PROVE  /\ Append(q, m) \in Seq(Message) /\ Len(q) \in Nat
         /\ Len(Append(q, m)) = Len(q) + 1 /\ Append(q, m)[Len(q) + 1] = m
         /\ \A k \in 1 .. Len(q) : Append(q, m)[k] = q[k]
BY AppendProperties, LenProperties, SMT

LEMMA SeqNumbers ==
  ASSUME NEW m \in Message, NEW n \in Message
  PROVE  /\ m.seq \in 1 .. MaxSeq /\ m.channel \in Channels /\ m.src \in Id
         /\ m.seq \in Nat /\ n.seq \in Nat
         /\ m.src = n.src /\ m.channel = n.channel /\ m.seq = n.seq => m = n
BY GossipAssumption DEF Message

LEMMA HoldsAfter ==
  ASSUME NEW q \in Seq(Message), NEW m \in Message
  PROVE  /\ q # << >> /\ Holds(q, m) => m = Head(q) \/ Holds(Tail(q), m)
         /\ Holds(Append(q, m), m)
         /\ \A n : Holds(q, n) => Holds(Append(q, m), n)
<1>1. ASSUME q # << >>, NEW k \in 1 .. Len(q), q[k] = m, m # Head(q)
      PROVE  Holds(Tail(q), m)
  <2>1. k - 1 \in 1 .. Len(Tail(q)) /\ Tail(q)[k - 1] = q[k]
    BY <1>1, HeadOf
  <2>2. QED
    BY <1>1, <2>1 DEF Holds
<1>2. Holds(Append(q, m), m) /\ \A n : Holds(q, n) => Holds(Append(q, m), n)
  BY AppendOf DEF Holds
<1>3. QED
  BY <1>1, <1>2 DEF Holds

LEMMA HandedAfter ==
  ASSUME NEW q \in Seq(Message), NEW a \in SUBSET Message, NEW b, Handed(a, q, b)
  PROVE  /\ q # << >> => Handed(a, Tail(q), b \cup {Head(q)})
         /\ \A m \in Message : Handed(a \cup {m}, Append(q, m), b)
         /\ \A m : Handed(a, q, b \cup {m})
         /\ \A m \in b : Handed(a \cup {m}, q, b)
<1>1. ASSUME q # << >>, NEW m \in a
      PROVE  m \in b \cup {Head(q)} \/ Holds(Tail(q), m)
  BY <1>1, HoldsAfter DEF Handed
<1>2. ASSUME NEW m \in Message, NEW n \in a \cup {m}
      PROVE  n \in b \/ Holds(Append(q, m), n)
  BY <1>2, HoldsAfter DEF Handed
<1>3. QED
  BY <1>1, <1>2 DEF Handed

LEMMA GaplessAfter ==
  ASSUME NEW q \in Seq(Message), NEW b, NEW P \in SUBSET Message, Gapless(q, b, P)
  PROVE  /\ q # << >> => Gapless(Tail(q), b \cup {Head(q)}, P)
         /\ \A m \in Message : (\A n \in P : Earlier(n, m) => n \in b \/ Holds(q, n)) =>
              Gapless(Append(q, m), b, P)
         /\ \A m : Gapless(q, b \cup {m}, P)
         /\ \A m \in Message : (\A k \in 1 .. Len(q) : ~ Earlier(m, q[k])) =>
              Gapless(q, b, P \cup {m})
<1>1. ASSUME q # << >>, NEW k \in 1 .. Len(Tail(q)), NEW m \in P, Earlier(m, Tail(q)[k])
      PROVE  m \in b \cup {Head(q)} \/ \E h \in 1 .. k - 1 : Tail(q)[h] = m
  <2>1. k + 1 \in 1 .. Len(q) /\ Tail(q)[k] = q[k + 1]
    BY <1>1, HeadOf
  <2>2. m \in b \/ \E h \in 1 .. k : q[h] = m
    BY <1>1, <2>1 DEF Gapless
  <2>3. ASSUME NEW h \in 1 .. k, q[h] = m, m # Head(q)
        PROVE  \E g \in 1 .. k - 1 : Tail(q)[g] = m
    <3>1. h - 1 \in 1 .. k - 1 /\ Tail(q)[h - 1] = q[h]
      BY <1>1, <2>1, <2>3, HeadOf
    <3>2. QED
      BY <2>3, <3>1
  <2>4. QED
    BY <2>2, <2>3
<1>2. ASSUME NEW m \in Message, \A n \in P : Earlier(n, m) => n \in b \/ Holds(q, n),
             NEW k \in 1 .. Len(Append(q, m)), NEW n \in P, Earlier(n, Append(q, m)[k])
      PROVE  n \in b \/ \E h \in 1 .. k - 1 : Append(q, m)[h] = n
  <2>1. CASE k = Len(q) + 1
    BY <1>2, <2>1, AppendOf DEF Holds
  <2>2. CASE k \in 1 .. Len(q)
    <3>1. Append(q, m)[k] = q[k] /\ \A h \in 1 .. k - 1 : Append(q, m)[h] = q[h]
      BY <2>2, AppendOf
    <3>2. QED
      BY <1>2, <2>2, <3>1 DEF Gapless
  <2>3. QED
    BY <1>2, <2>1, <2>2, AppendOf
<1>3. q # << >> => Gapless(Tail(q), b \cup {Head(q)}, P)
  BY <1>1 DEF Gapless
<1>4. \A m \in Message : (\A n \in P : Earlier(n, m) => n \in b \/ Holds(q, n)) =>
        Gapless(Append(q, m), b, P)
  BY <1>2 DEF Gapless
<1>5. \A m : Gapless(q, b \cup {m}, P)
  BY DEF Gapless
<1>6. \A m \in Message : (\A k \in 1 .. Len(q) : ~ Earlier(m, q[k])) => Gapless(q, b, P \cup {m})
  BY DEF Gapless
<1>7. QED
  BY <1>3, <1>4, <1>5, <1>6

LEMMA InTurnAfter ==
  ASSUME NEW q \in Seq(Message), NEW b \in SUBSET Message, InTurn(q, b)
  PROVE  /\ q # << >> => InTurn(Tail(q), b \cup {Head(q)})
         /\ \A m \in Message :
              /\ \A n \in b : n.channel = m.channel => Earlier(n, m)
              /\ \A k \in 1 .. Len(q) : q[k].channel = m.channel => Earlier(q[k], m)
              => InTurn(Append(q, m), b)
<1>1. ASSUME q # << >>, NEW k \in 1 .. Len(Tail(q))
      PROVE  /\ \A m \in b \cup {Head(q)} : m.channel = Tail(q)[k].channel => Earlier(m, Tail(q)[k])
             /\ \A h \in 1 .. k - 1 :
                  Tail(q)[h].channel = Tail(q)[k].channel => Earlier(Tail(q)[h], Tail(q)[k])
  <2>1. k + 1 \in 1 .. Len(q) /\ Tail(q)[k] = q[k + 1] /\ 1 \in 1 .. k /\ Head(q) = q[1]
    BY <1>1, HeadOf
  <2>2. ASSUME NEW h \in 1 .. k - 1
        PROVE  h + 1 \in 1 .. k /\ Tail(q)[h] = q[h + 1]
    BY <1>1, <2>1, HeadOf
  <2>3. /\ \A m \in b : m.channel = q[k + 1].channel => Earlier(m, q[k + 1])
        /\ \A h \in 1 .. k : q[h].channel = q[k + 1].channel => Earlier(q[h], q[k + 1])
    BY <2>1 DEF InTurn
  <2>4. QED
    BY <2>1, <2>2, <2>3
<1>2. ASSUME NEW m \in Message,
             \A n \in b : n.channel = m.channel => Earlier(n, m),
             \A k \in 1 .. Len(q) : q[k].channel = m.channel => Earlier(q[k], m),
             NEW k \in 1 .. Len(Append(q, m))
      PROVE  /\ \A n \in b : n.channel = Append(q, m)[k].channel => Earlier(n, Append(q, m)[k])
             /\ \A h \in 1 .. k - 1 : Append(q, m)[h].channel = Append(q, m)[k].channel =>
                  Earlier(Append(q, m)[h], Append(q, m)[k])
  <2>1. CASE k = Len(q) + 1
    BY <1>2, <2>1, AppendOf
  <2>2. CASE k \in 1 .. Len(q)
    <3>1. Append(q, m)[k] = q[k] /\ \A h \in 1 .. k - 1 : Append(q, m)[h] = q[h]
      BY <2>2, AppendOf
    <3>2. QED
      BY <2>2, <3>1 DEF InTurn
  <2>3. QED
    BY <2>1, <2>2, AppendOf
<1>3. QED
  BY <1>1, <1>2 DEF InTurn

LEMMA LinkEnds ==
  /\ \A l \in Links : /\ l[1] \in Procs /\ l[2] \in Procs /\ l[1] # l[2]
                      /\ l = <<l[1], l[2]>> /\ l[2] \in Neighbours(l[1]) /\ l[1] \in Neighbours(l[2])
  /\ \A i \in Procs : \A j \in Neighbours(i) :
       /\ j \in Procs /\ j # i
       /\ <<i, j>> \in Links /\ <<j, i>> \in Links
BY GossipAssumption DEF Neighbours

LEMMA GossipConstants ==
  /\ MaxSeq \in Nat /\ MaxRestarts \in Nat
  /\ Restarting \subseteq Procs
  /\ Publishers \in [Channels -> SUBSET Procs]
  /\ NoMessage \notin Message
BY GossipAssumption, NoMessageAssumption

\* A message that is published has one publisher, who knows it and lasts.
LEMMA PublisherOf ==
  ASSUME OnePublisher, PublishersStay, Typed, NEW m \in Issued
  PROVE  /\ m \in Message /\ m.channel \in Channels
         /\ \E p \in Publishers[m.channel] : p \in Lasts /\ m.src = <<p, 0>> /\ m \in seen[p]
         /\ \A p \in Publishers[m.channel] : p \in Lasts /\ m.src = <<p, 0>> /\ m \in seen[p]
<1>1. m \in Message /\ m.channel \in Channels
  BY SeqNumbers DEF Issued
<1>2. PICK p \in Publishers[m.channel] : m.src = <<p, 0>> /\ m \in seen[p]
  BY DEF Issued
<1>3. p \in Lasts
  BY <1>1, GossipConstants DEF PublishersStay, Lasts
<1>4. QED
  BY <1>1, <1>2, <1>3 DEF OnePublisher

\* Two published messages of a channel are one or one is earlier.
LEMMA PublishedInOrder ==
  ASSUME OnePublisher, PublishersStay, Typed, NEW m \in Issued, NEW n \in Issued,
         m.channel = n.channel
  PROVE  m = n \/ Earlier(m, n) \/ Earlier(n, m)
<1>1. PICK p \in Publishers[m.channel] : m.src = <<p, 0>>
  BY PublisherOf
<1>2. n.src = <<p, 0>>
  BY <1>1, PublisherOf
<1>3. m \in Message /\ n \in Message
  BY PublisherOf
<1>4. QED
  BY <1>1, <1>2, <1>3, SeqNumbers DEF Earlier

LEMMA FirstPublished ==
  ASSUME GossipInit PROVE Issued = {} /\ \A i \in Procs : seen[i] = {}
<1>1. \A i \in Procs : seen[i] = {}
  BY DEF GossipInit
<1>2. ASSUME NEW m \in Issued PROVE FALSE
  <2>1. PICK p \in Publishers[m.channel] : m \in seen[p]
    BY DEF Issued
  <2>2. m.channel \in Channels
    BY SeqNumbers DEF Issued
  <2>3. p \in Procs
    BY <2>1, <2>2, GossipConstants
  <2>4. QED
    BY <1>1, <2>1, <2>3
<1>3. QED
  BY <1>1, <1>2

LEMMA GossipStarts ==
  ASSUME GossipInit PROVE GossipKept
<1>. USE GossipConstants
<1>1. Typed
  <2>1. << >> \in Seq(Message)
    BY EmptySeq
  <2>2. QED
    BY <2>1 DEF GossipInit, Typed
<1>2. MemoryIsReceived
  BY DEF GossipInit, MemoryIsReceived
<1>3. \A l \in Links : queue[l] = << >> /\ Len(queue[l]) = 0
  BY EmptySeq DEF GossipInit
<1>4. MessagesArePublished
  BY <1>3, FirstPublished DEF MessagesArePublished, GossipInit
<1>5. NothingIsMissed
  BY <1>3, FirstPublished DEF NothingIsMissed, Handed, Gapless, Lasts, LastingLinks
<1>6. LeavesInTurn
  BY <1>3, FirstPublished, LinkEnds DEF LeavesInTurn, InTurn, LeafLinks
<1>7. LastIsShown /\ NewestIsLast /\ NewestIsOwed
  BY FirstPublished DEF GossipInit, LastIsShown, NewestIsLast, NewestIsOwed
<1>8. QED
  BY <1>1, <1>2, <1>4, <1>5, <1>6, <1>7 DEF GossipKept

-----------------------------------------------------------------------------
(***************************************************************************)
(* A process publishes                                                     *)
(***************************************************************************)

\* The message that i publishes is the last of all its messages, and is sent on
\* all its links.
Publishes(i, ch, m) ==
  /\ m.src = <<i, 0>> /\ m.channel = ch /\ m.seq = seq'[i] /\ m \notin Issued
  /\ i \in Publishers[ch] /\ i \in Lasts /\ life'[i] = 0
  /\ seq' = [seq EXCEPT ![i] = @ + 1] /\ seq[i] < MaxSeq
  /\ Issued' = Issued \cup {m}
  /\ \A n \in Issued : n.channel = ch => Earlier(n, m)
  /\ seen' = [seen EXCEPT ![i] = @ \cup {m}]
  /\ \A j \in Procs : seen'[j] = IF j = i THEN seen[i] \cup {m} ELSE seen[j]
  /\ queue' \in [Links -> Seq(Message)]
  /\ \A l \in Links : queue'[l] = IF l[1] = i THEN Append(queue[l], m) ELSE queue[l]
  /\ newest' = [newest EXCEPT ![ch] = m]
  /\ owed' = [owed EXCEPT ![ch] = Procs \ {i}]
  /\ UNCHANGED <<life, latest, shown>>

LEMMA PublishStep ==
  ASSUME GossipKept, SteadyNetwork, NEW i \in Procs, NEW ch \in Channels, Publish(i, ch)
  PROVE  \E m \in Message : Publishes(i, ch, m)
<1>. DEFINE m == [src |-> Me(i), channel |-> ch, seq |-> seq[i] + 1]
<1>. USE GossipConstants
<1>1. Typed /\ MessagesArePublished /\ OnePublisher /\ PublishersStay
  BY DEF GossipKept, SteadyNetwork
<1>2. i \in Publishers[ch] /\ seq[i] < MaxSeq
  BY DEF Publish
<1>3. i \in Lasts /\ life[i] = 0
  BY <1>1, <1>2 DEF PublishersStay, Lasts, MessagesArePublished
<1>4. m \in Message /\ m.src = <<i, 0>> /\ m.channel = ch /\ m.seq = seq[i] + 1
  BY <1>1, <1>2, <1>3 DEF Message, Id, Me, Typed
<1>5. seq' = [seq EXCEPT ![i] = @ + 1] /\ seq'[i] = seq[i] + 1
  BY <1>1 DEF Publish, Typed
<1>6. /\ seen' = [seen EXCEPT ![i] = @ \cup {m}]
      /\ queue' = SentTo(queue, i, Neighbours(i), m)
      /\ newest' = [newest EXCEPT ![ch] = m]
      /\ owed' = [owed EXCEPT ![ch] = Procs \ {i}]
      /\ UNCHANGED <<life, latest, shown>>
  BY DEF Publish
<1>. HIDE DEF m
<1>7. \A j \in Procs : seen'[j] = IF j = i THEN seen[i] \cup {m} ELSE seen[j]
  BY <1>1, <1>6 DEF Typed
<1>8. ASSUME NEW n \in Issued, n.channel = ch
      PROVE  Earlier(n, m)
  <2>1. n.src = <<i, 0>> /\ n.seq <= seq[n.src[1]]
    BY <1>1, <1>2, <1>8, PublisherOf DEF MessagesArePublished
  <2>2. n.seq <= seq[i] /\ n.seq \in Nat /\ seq[i] \in Nat
    BY <1>1, <2>1, <1>4, SeqNumbers DEF Issued, Typed
  <2>3. QED
    BY <1>4, <1>8, <2>2 DEF Earlier
<1>9. m \notin Issued
  <2>1. m.seq \in Nat
    BY <1>4, SeqNumbers
  <2>2. QED
    BY <1>4, <1>8, <2>1 DEF Earlier
<1>10. Issued' = Issued \cup {m}
  <2>1. ASSUME NEW n \in Message, NEW p \in Publishers[n.channel], n.src = <<p, 0>>, n \in seen'[p]
        PROVE  n \in Issued \cup {m}
    <3>1. p \in Procs
      BY <2>1, SeqNumbers
    <3>2. n \in seen[p] \/ n = m
      BY <1>7, <2>1, <3>1
    <3>3. QED
      BY <2>1, <3>2 DEF Issued
  <2>2. ASSUME NEW n \in Issued
        PROVE  \E p \in Publishers[n.channel] : n.src = <<p, 0>> /\ n \in seen'[p]
    <3>1. PICK p \in Publishers[n.channel] : n.src = <<p, 0>> /\ n \in seen[p]
      BY DEF Issued
    <3>2. p \in Procs
      BY <1>1, PublisherOf, <3>1 DEF Lasts
    <3>3. QED
      BY <1>7, <3>1, <3>2
  <2>3. \E p \in Publishers[m.channel] : m.src = <<p, 0>> /\ m \in seen'[p]
    BY <1>2, <1>4, <1>7
  <2>4. \A n \in Issued : n \in Message
    BY DEF Issued
  <2>5. Issued' = {n \in Message : \E p \in Publishers[n.channel] : n.src = <<p, 0>> /\ n \in seen'[p]}
    BY DEF Issued
  <2>6. QED
    BY <1>4, <2>1, <2>2, <2>3, <2>4, <2>5
<1>11. \A l \in Links : queue'[l] = IF l[1] = i THEN Append(queue[l], m) ELSE queue[l]
  BY <1>6, LinkEnds DEF SentTo
<1>12. queue' \in [Links -> Seq(Message)]
  <2>1. ASSUME NEW l \in Links PROVE queue'[l] \in Seq(Message)
    <3>1. queue[l] \in Seq(Message)
      BY <1>1 DEF Typed
    <3>2. Append(queue[l], m) \in Seq(Message)
      BY <1>4, <3>1, AppendOf
    <3>3. QED
      BY <1>11, <3>1, <3>2
  <2>2. QED
    BY <1>6, <2>1 DEF SentTo
<1>13. QED
  BY <1>2, <1>3, <1>4, <1>5, <1>6, <1>7, <1>8, <1>9, <1>10, <1>11, <1>12 DEF Publishes

LEMMA PublishKeeps ==
  ASSUME GossipKept, SteadyNetwork, NEW i \in Procs, NEW ch \in Channels, Publish(i, ch)
  PROVE  GossipKept'
<1>. USE GossipConstants
<1>0. /\ Typed /\ MemoryIsReceived /\ MessagesArePublished /\ NothingIsMissed
      /\ LeavesInTurn /\ LastIsShown /\ NewestIsLast /\ NewestIsOwed
      /\ OnePublisher /\ PublishersStay /\ LeavesRestart
  BY DEF GossipKept, SteadyNetwork
<1>m. PICK m \in Message : Publishes(i, ch, m)
  BY PublishStep
<1>1. /\ m.src = <<i, 0>> /\ m.channel = ch /\ m.seq = seq'[i] /\ m \notin Issued
      /\ i \in Publishers[ch] /\ i \in Lasts /\ life'[i] = 0
      /\ seq' = [seq EXCEPT ![i] = @ + 1] /\ seq[i] < MaxSeq
      /\ Issued' = Issued \cup {m}
      /\ \A n \in Issued : n.channel = ch => Earlier(n, m)
      /\ seen' = [seen EXCEPT ![i] = @ \cup {m}]
      /\ \A j \in Procs : seen'[j] = IF j = i THEN seen[i] \cup {m} ELSE seen[j]
      /\ queue' \in [Links -> Seq(Message)]
      /\ \A l \in Links : queue'[l] = IF l[1] = i THEN Append(queue[l], m) ELSE queue[l]
      /\ newest' = [newest EXCEPT ![ch] = m]
      /\ owed' = [owed EXCEPT ![ch] = Procs \ {i}]
      /\ UNCHANGED <<life, latest, shown>>
  BY <1>m DEF Publishes
<1>2. /\ \A l \in Links : queue[l] \in Seq(Message) /\ Len(queue[l]) \in Nat
      /\ \A j \in Procs : seen[j] \in SUBSET Message /\ seen[j] \subseteq Issued
      /\ seq[i] \in Nat /\ m.seq = seq[i] + 1
      /\ Issued \in SUBSET Message
  BY <1>0, <1>1, LenProperties DEF Typed, MessagesArePublished, Issued
<1>3. Typed'
  <2>1. seq' \in [Procs -> 0 .. MaxSeq]
    BY <1>0, <1>1 DEF Typed
  <2>2. seen' \in [Procs -> SUBSET Message]
    BY <1>0, <1>1 DEF Typed
  <2>3. QED
    BY <1>0, <1>1, <2>1, <2>2 DEF Typed
<1>4. MemoryIsReceived'
  BY <1>0, <1>1 DEF MemoryIsReceived
<1>5. MessagesArePublished'
  <2>1. \A j \in Procs : seen'[j] \subseteq Issued'
    BY <1>1, <1>2
  <2>2. ASSUME NEW n \in Issued'
        PROVE  n.seq <= seq'[n.src[1]]
    <3>1. CASE n = m
      BY <1>1, <1>2, <3>1
    <3>2. CASE n \in Issued
      <4>1. PICK p \in Lasts : n.src = <<p, 0>>
        BY <1>0, <3>2, PublisherOf
      <4>2. n.seq <= seq[p] /\ seq'[p] >= seq[p] /\ n.seq \in Nat /\ seq[p] \in Nat /\ seq'[p] \in Nat
        <5>1. n.seq <= seq[n.src[1]] /\ n.seq \in Nat
          BY <1>0, <3>2, SeqNumbers DEF MessagesArePublished, Issued
        <5>2. seq[p] \in Nat /\ seq'[p] \in {seq[p], seq[p] + 1}
          BY <1>0, <1>1 DEF Typed, Lasts
        <5>3. QED
          BY <4>1, <5>1, <5>2
      <4>3. QED
        BY <4>1, <4>2
    <3>3. QED
      BY <1>1, <3>1, <3>2
  <2>3. ASSUME NEW l \in Links
        PROVE  /\ \A k \in 1 .. Len(queue'[l]) : queue'[l][k] \in seen'[l[1]]
               /\ l[1] \in Restarting => queue'[l] = << >>
    <3>1. /\ \A k \in 1 .. Len(queue[l]) : queue[l][k] \in seen[l[1]]
          /\ l[1] \in Restarting => queue[l] = << >>
      BY <1>0 DEF MessagesArePublished
    <3>2. CASE l[1] = i
      <4>1. queue'[l] = Append(queue[l], m) /\ seen'[l[1]] = seen[l[1]] \cup {m}
        BY <1>1, <3>2, LinkEnds
      <4>2. l[1] \notin Restarting
        BY <1>1, <3>2 DEF Lasts
      <4>3. QED
        BY <1>2, <3>1, <4>1, <4>2, AppendOf
    <3>3. CASE l[1] # i
      BY <1>1, <3>1, <3>3, LinkEnds
    <3>4. QED
      BY <3>2, <3>3
  <2>4. QED
    BY <1>0, <1>1, <2>1, <2>2, <2>3 DEF MessagesArePublished
<1>6. NothingIsMissed'
  <2>1. ASSUME NEW j \in Lasts, NEW x \in seen'[j], NEW n \in Issued', Earlier(n, x)
        PROVE  n \in seen'[j]
    <3>0. j \in Procs
      BY DEF Lasts
    <3>1. CASE x \in seen[j]
      <4>1. x \in Issued /\ x.seq \in Nat /\ x \in Message
        BY <1>2, <3>0, <3>1, SeqNumbers
      <4>2. n # m
        BY <1>1, <1>2, <2>1, <4>1 DEF Earlier
      <4>3. n \in seen[j]
        BY <1>0, <1>1, <2>1, <3>1, <4>2 DEF NothingIsMissed
      <4>4. QED
        BY <1>1, <3>0, <4>3
    <3>2. CASE x = m /\ x \notin seen[j]
      <4>1. j = i
        BY <1>1, <3>0, <3>2
      <4>2. n # m
        BY <1>1, <1>2, <2>1, <3>2 DEF Earlier
      <4>3. n \in Issued /\ n.channel = ch
        BY <1>1, <2>1, <3>2, <4>2 DEF Earlier
      <4>4. n \in seen[i]
        BY <1>0, <1>1, <4>3, PublisherOf
      <4>5. QED
        BY <1>1, <4>1, <4>4
    <3>3. QED
      BY <1>1, <3>0, <3>1, <3>2
  <2>2. ASSUME NEW l \in LastingLinks
        PROVE  Handed(seen'[l[1]], queue'[l], seen'[l[2]])
    <3>1. l \in Links /\ l[1] \in Procs /\ l[2] \in Procs /\ l[1] # l[2]
      BY LinkEnds DEF LastingLinks
    <3>2. Handed(seen[l[1]], queue[l], seen[l[2]])
      BY <1>0 DEF NothingIsMissed
    <3>3. CASE l[1] = i
      <4>1. Handed(seen[l[1]] \cup {m}, Append(queue[l], m), seen[l[2]])
        BY <1>2, <3>1, <3>2, HandedAfter
      <4>2. seen'[l[1]] = seen[l[1]] \cup {m} /\ queue'[l] = Append(queue[l], m) /\ seen'[l[2]] = seen[l[2]]
        BY <1>1, <3>1, <3>3
      <4>3. QED
        BY <4>1, <4>2
    <3>4. CASE l[2] = i
      <4>1. Handed(seen[l[1]], queue[l], seen[l[2]] \cup {m})
        BY <1>2, <3>1, <3>2, HandedAfter
      <4>2. seen'[l[1]] = seen[l[1]] /\ queue'[l] = queue[l] /\ seen'[l[2]] = seen[l[2]] \cup {m}
        BY <1>1, <3>1, <3>4
      <4>3. QED
        BY <4>1, <4>2
    <3>5. CASE l[1] # i /\ l[2] # i
      BY <1>1, <3>1, <3>2, <3>5
    <3>6. QED
      BY <3>3, <3>4, <3>5
  <2>3. ASSUME NEW l \in LastingLinks
        PROVE  Gapless(queue'[l], seen'[l[2]], Issued')
    <3>1. l \in Links /\ l[1] \in Procs /\ l[2] \in Procs /\ l[1] # l[2]
      BY LinkEnds DEF LastingLinks
    <3>2. Gapless(queue[l], seen[l[2]], Issued)
      BY <1>0 DEF NothingIsMissed
    <3>3. ASSUME NEW k \in 1 .. Len(queue[l])
          PROVE  ~ Earlier(m, queue[l][k])
      <4>1. queue[l][k] \in Issued /\ queue[l][k] \in Message
        BY <1>0, <1>2, <3>1 DEF MessagesArePublished
      <4>2. QED
        BY <1>1, <1>2, <4>1, SeqNumbers DEF Earlier
    <3>4. Gapless(queue[l], seen[l[2]], Issued \cup {m})
      BY <1>2, <3>1, <3>2, <3>3, GaplessAfter
    <3>5. CASE l[1] = i
      <4>1. ASSUME NEW n \in Issued \cup {m}, Earlier(n, m)
            PROVE  n \in seen[l[2]] \/ Holds(queue[l], n)
        <5>1. n # m
          BY <1>2, <4>1 DEF Earlier
        <5>2. n \in seen[i]
          BY <1>0, <1>1, <4>1, <5>1, PublisherOf DEF Earlier
        <5>3. Handed(seen[i], queue[l], seen[l[2]])
          BY <1>0, <3>5 DEF NothingIsMissed
        <5>4. QED
          BY <5>2, <5>3 DEF Handed
      <4>2. Gapless(Append(queue[l], m), seen[l[2]], Issued \cup {m})
        BY <1>2, <3>1, <3>4, <4>1, GaplessAfter
      <4>3. queue'[l] = Append(queue[l], m) /\ seen'[l[2]] = seen[l[2]]
        BY <1>1, <3>1, <3>5
      <4>4. QED
        BY <1>1, <4>2, <4>3
    <3>6. CASE l[2] = i
      <4>1. Gapless(queue[l], seen[l[2]] \cup {m}, Issued \cup {m})
        BY <1>2, <3>1, <3>4, GaplessAfter
      <4>2. QED
        BY <1>1, <3>1, <3>6, <4>1
    <3>7. CASE l[1] # i /\ l[2] # i
      BY <1>1, <3>1, <3>4, <3>7
    <3>8. QED
      BY <3>5, <3>6, <3>7
  <2>4. QED
    BY <2>1, <2>2, <2>3 DEF NothingIsMissed
<1>7. LeavesInTurn'
  <2>1. ASSUME NEW l \in LeafLinks
        PROVE  seen'[l[2]] \subseteq seen'[l[1]] /\ InTurn(queue'[l], seen'[l[2]])
    <3>1. l \in Links /\ l[1] \in Procs /\ l[2] \in Procs /\ l[1] # l[2] /\ l[2] # i
      BY <1>1, LinkEnds DEF LeafLinks, Lasts
    <3>2. seen[l[2]] \subseteq seen[l[1]] /\ InTurn(queue[l], seen[l[2]])
      BY <1>0 DEF LeavesInTurn
    <3>3. seen'[l[2]] = seen[l[2]] /\ seen[l[1]] \subseteq seen'[l[1]]
      BY <1>1, <3>1
    <3>4. CASE l[1] = i
      <4>1. \A n \in seen[l[2]] : n.channel = m.channel => Earlier(n, m)
        BY <1>1, <1>2, <3>1
      <4>2. ASSUME NEW k \in 1 .. Len(queue[l]), queue[l][k].channel = m.channel
            PROVE  Earlier(queue[l][k], m)
        <5>1. queue[l][k] \in Issued
          BY <1>0, <1>2, <3>1 DEF MessagesArePublished
        <5>2. QED
          BY <1>1, <4>2, <5>1
      <4>3. InTurn(Append(queue[l], m), seen[l[2]])
        BY <1>2, <3>1, <3>2, <4>1, <4>2, InTurnAfter
      <4>4. QED
        BY <1>1, <3>1, <3>2, <3>3, <3>4, <4>3
    <3>5. CASE l[1] # i
      BY <1>1, <3>1, <3>2, <3>3, <3>5
    <3>6. QED
      BY <3>4, <3>5
  <2>2. QED
    BY <2>1 DEF LeavesInTurn
<1>8. LastIsShown'
  <2>1. ASSUME NEW j \in Procs, NEW c \in Channels, j \notin Publishers[c], NEW n \in seen'[j], n.channel = c
        PROVE  n \in seen[j]
    BY <1>1, <2>1
  <2>2. QED
    BY <1>0, <1>1, <2>1 DEF LastIsShown
<1>9. NewestIsLast'
  <2>1. ASSUME NEW c \in Channels
        PROVE  /\ newest'[c] = NoMessage => owed'[c] = {}
               /\ newest'[c] # NoMessage =>
                    /\ newest'[c] \in Issued' /\ newest'[c].channel = c
                    /\ \A n \in Issued' : n.channel = c => n.seq <= newest'[c].seq
    <3>1. CASE c = ch
      <4>1. newest'[c] = m /\ m # NoMessage
        BY <1>0, <1>1, <3>1 DEF Typed
      <4>2. ASSUME NEW n \in Issued', n.channel = c
            PROVE  n.seq <= m.seq
        <5>1. n = m \/ Earlier(n, m)
          BY <1>1, <3>1, <4>2
        <5>2. n \in Message
          BY <1>1, <1>2
        <5>3. QED
          BY <5>1, <5>2, SeqNumbers DEF Earlier
      <4>3. QED
        BY <1>1, <3>1, <4>1, <4>2
    <3>2. CASE c # ch
      <4>1. newest'[c] = newest[c] /\ owed'[c] = owed[c]
        BY <1>0, <1>1, <3>2 DEF Typed
      <4>2. QED
        BY <1>0, <1>1, <3>2, <4>1 DEF NewestIsLast
    <3>3. QED
      BY <3>1, <3>2
  <2>2. QED
    BY <2>1 DEF NewestIsLast
<1>10. NewestIsOwed'
  <2>1. ASSUME NEW c \in Channels
        PROVE  owed'[c] \cap Publishers[c] = {}
    <3>1. CASE c = ch
      BY <1>0, <1>1, <3>1 DEF OnePublisher, Typed
    <3>2. CASE c # ch
      BY <1>0, <1>1, <3>2 DEF Typed, NewestIsOwed
    <3>3. QED
      BY <3>1, <3>2
  <2>2. ASSUME NEW c \in Channels, NEW l \in LeafLinks, l[2] \in owed'[c], newest'[c] \in seen'[l[1]]
        PROVE  newest'[c] \in seen'[l[2]] \/ Holds(queue'[l], newest'[c])
    <3>1. l \in Links /\ l[1] \in Procs /\ l[2] \in Procs /\ l[1] # l[2] /\ l[2] # i
      BY <1>1, LinkEnds DEF LeafLinks, Lasts
    <3>2. CASE c = ch
      <4>1. newest'[c] = m
        BY <1>0, <1>1, <3>2 DEF Typed
      <4>2. l[1] = i
        BY <1>1, <1>2, <2>2, <3>1, <4>1
      <4>3. Holds(Append(queue[l], m), m)
        BY <1>2, <3>1, HoldsAfter
      <4>4. queue'[l] = Append(queue[l], m)
        BY <1>1, <3>1, <4>2
      <4>5. QED
        BY <4>1, <4>3, <4>4
    <3>3. CASE c # ch
      <4>1. newest'[c] = newest[c] /\ owed'[c] = owed[c]
        BY <1>0, <1>1, <3>3 DEF Typed
      <4>2. newest[c] # m
        BY <1>0, <1>1, <2>2, <3>3, <4>1 DEF NewestIsLast
      <4>3. newest[c] \in seen[l[1]]
        BY <1>1, <2>2, <3>1, <4>1, <4>2
      <4>4. newest[c] \in seen[l[2]] \/ Holds(queue[l], newest[c])
        BY <1>0, <2>2, <4>1, <4>3 DEF NewestIsOwed
      <4>5. Holds(queue[l], newest[c]) => Holds(Append(queue[l], m), newest[c])
        BY <1>2, <3>1, HoldsAfter
      <4>6. queue'[l] \in {queue[l], Append(queue[l], m)} /\ seen'[l[2]] = seen[l[2]]
        BY <1>1, <3>1
      <4>7. QED
        BY <4>1, <4>4, <4>5, <4>6
    <3>4. QED
      BY <3>2, <3>3
  <2>3. QED
    BY <2>1, <2>2 DEF NewestIsOwed
<1>11. QED
  BY <1>3, <1>4, <1>5, <1>6, <1>7, <1>8, <1>9, <1>10 DEF GossipKept

-----------------------------------------------------------------------------
(***************************************************************************)
(* A process receives                                                      *)
(***************************************************************************)

\* What the first message of a link is, whether it was seen or not.
Arrives(j, i, m) ==
  /\ <<j, i>> \in Links /\ j \in Lasts /\ j # i
  /\ queue[<<j, i>>] # << >> /\ m = Head(queue[<<j, i>>])
  /\ m \in seen[j] /\ m \in Issued
  /\ \A x \in seen[i] : x.channel = m.channel /\ x # m => m \in seen[i] \/ Earlier(x, m)

\* A message that was seen is dropped.
Drops(j, i) ==
  /\ queue' \in [Links -> Seq(Message)]
  /\ \A l \in Links : queue'[l] = IF l = <<j, i>> THEN Tail(queue[l]) ELSE queue[l]
  /\ UNCHANGED <<life, seq, latest, shown, seen, newest, owed>>

\* One that is new is the last that i saw on the channel: it is shown and sent on.
Takes(j, i, m) ==
  /\ m \notin seen[i]
  /\ \A x \in seen[i] : x.channel = m.channel => Earlier(x, m)
  /\ latest' = [latest EXCEPT ![i][Key(j, m)] = m.seq]
  /\ shown' = [shown EXCEPT ![i][m.channel] = m]
  /\ seen' = [seen EXCEPT ![i] = @ \cup {m}]
  /\ \A p \in Procs : seen'[p] = IF p = i THEN seen[i] \cup {m} ELSE seen[p]
  /\ queue' \in [Links -> Seq(Message)]
  /\ \A l \in Links : l = <<j, i>> => queue'[l] = Tail(queue[l])
  /\ \A l \in Links : l # <<j, i>> =>
       queue'[l] = IF l[1] = i /\ l[2] # j /\ Me(l[2]) # m.src
                   THEN Append(queue[l], m) ELSE queue[l]
  /\ UNCHANGED <<life, seq, newest, owed>>

LEMMA ArriveStep ==
  ASSUME GossipKept, SteadyNetwork, NEW i \in Procs, NEW j \in Neighbours(i), Receive(j, i)
  PROVE  \E m \in Message : Arrives(j, i, m)
<1>. DEFINE q == queue[<<j, i>>]
<1>. DEFINE m == Head(q)
<1>1. /\ Typed /\ MessagesArePublished /\ NothingIsMissed /\ LeavesInTurn
      /\ OnePublisher /\ PublishersStay
  BY DEF GossipKept, SteadyNetwork
<1>2. <<j, i>> \in Links /\ j \in Procs /\ j # i
  BY LinkEnds
<1>3. q # << >> /\ q \in Seq(Message)
  BY <1>1, <1>2 DEF Receive, Typed
<1>4. m \in Message /\ m = q[1] /\ 1 \in 1 .. Len(q)
  BY <1>3, HeadOf
<1>5. j \in Lasts
  BY <1>1, <1>2, <1>3 DEF MessagesArePublished, Lasts
<1>6. m \in seen[j] /\ m \in Issued
  BY <1>1, <1>2, <1>4 DEF MessagesArePublished
<1>. HIDE DEF m
<1>7. ASSUME NEW x \in seen[i], x.channel = m.channel, x # m
      PROVE  m \in seen[i] \/ Earlier(x, m)
  <2>1. x \in Issued
    BY <1>1 DEF MessagesArePublished
  <2>2. x = m \/ Earlier(x, m) \/ Earlier(m, x)
    BY <1>1, <1>6, <1>7, <2>1, PublishedInOrder
  <2>3. CASE i \in Lasts
    BY <1>1, <1>6, <1>7, <2>2, <2>3 DEF NothingIsMissed
  <2>4. CASE i \in Restarting
    <3>1. <<j, i>> \in LeafLinks
      BY <1>2, <2>4 DEF LeafLinks
    <3>2. InTurn(q, seen[i])
      BY <1>1, <3>1 DEF LeavesInTurn
    <3>3. QED
      BY <1>4, <1>7, <3>2 DEF InTurn
  <2>5. QED
    BY <2>3, <2>4 DEF Lasts
<1>8. QED
  BY <1>2, <1>3, <1>4, <1>5, <1>6, <1>7 DEF Arrives, m

LEMMA DropStep ==
  ASSUME GossipKept, NEW i \in Procs, NEW j \in Neighbours(i), Receive(j, i),
         NEW m, m = Head(queue[<<j, i>>]), m \in seen[i]
  PROVE  Drops(j, i)
<1>1. <<j, i>> \in Links /\ queue \in [Links -> Seq(Message)] /\ queue[<<j, i>>] # << >>
  BY LinkEnds DEF GossipKept, Typed, Receive
<1>2. queue' = [queue EXCEPT ![<<j, i>>] = Tail(@)]
      /\ UNCHANGED <<life, seq, latest, shown, seen, newest, owed>>
  BY DEF Receive
<1>3. Tail(queue[<<j, i>>]) \in Seq(Message)
  BY <1>1, HeadOf
<1>4. \A l \in Links : queue'[l] = IF l = <<j, i>> THEN Tail(queue[l]) ELSE queue[l]
  BY <1>1, <1>2
<1>5. queue' \in [Links -> Seq(Message)]
  BY <1>1, <1>2, <1>3
<1>6. QED
  BY <1>2, <1>4, <1>5 DEF Drops

LEMMA TakeStep ==
  ASSUME GossipKept, NEW i \in Procs, NEW j \in Neighbours(i), Receive(j, i),
         NEW m \in Message, Arrives(j, i, m), m \notin seen[i]
  PROVE  Takes(j, i, m)
<1>. DEFINE rest == [queue EXCEPT ![<<j, i>>] = Tail(@)]
<1>. DEFINE J == {k \in Neighbours(i) \ {j} : Me(k) # m.src}
<1>1. /\ <<j, i>> \in Links /\ queue \in [Links -> Seq(Message)] /\ queue[<<j, i>>] # << >>
      /\ j \in Procs /\ j # i /\ m = Head(queue[<<j, i>>])
  BY LinkEnds DEF GossipKept, Typed, Arrives
<1>2. \A x \in seen[i] : x.channel = m.channel => Earlier(x, m)
  BY DEF Arrives
<1>3. Key(j, m) \in Id \X Channels
  <2>1. life[j] \in 0 .. MaxRestarts
    BY <1>1 DEF GossipKept, Typed
  <2>2. QED
    BY <1>1, <2>1, SeqNumbers DEF Key, Me, Id
<1>4. Newer(m.seq, latest[i][Key(j, m)])
  <2>1. \/ latest[i][Key(j, m)] = 0
        \/ \E x \in seen[i] : x.channel = Key(j, m)[2] /\ x.seq = latest[i][Key(j, m)]
    BY <1>3 DEF GossipKept, MemoryIsReceived
  <2>2. Key(j, m)[2] = m.channel
    BY DEF Key
  <2>3. QED
    BY <1>2, <2>1, <2>2, SeqNumbers DEF Newer, Earlier
<1>5. /\ seen' = [seen EXCEPT ![i] = @ \cup {m}]
      /\ queue' = SentTo(rest, i, J, m)
      /\ latest' = [latest EXCEPT ![i][Key(j, m)] = m.seq]
      /\ shown' = [shown EXCEPT ![i][m.channel] = m]
      /\ UNCHANGED <<life, seq, newest, owed>>
  BY <1>1, <1>4 DEF Receive
<1>6. \A p \in Procs : seen'[p] = IF p = i THEN seen[i] \cup {m} ELSE seen[p]
  BY <1>5 DEF GossipKept, Typed
<1>7. \A l \in Links : /\ l = <<j, i>> => rest[l] = Tail(queue[l])
                       /\ l # <<j, i>> => rest[l] = queue[l]
  BY <1>1
<1>8. \A l \in Links : l[2] \in J <=> l[2] \in Neighbours(i) /\ l[2] # j /\ Me(l[2]) # m.src
  OBVIOUS
<1>9. /\ DOMAIN queue' = Links
      /\ \A l \in Links : queue'[l] = IF l[1] = i /\ l[2] \in J THEN Append(rest[l], m) ELSE rest[l]
      /\ queue' = [l \in Links |-> queue'[l]]
  BY <1>5 DEF SentTo
<1>. HIDE DEF rest, J
<1>10. ASSUME NEW l \in Links, l = <<j, i>> PROVE queue'[l] = Tail(queue[l])
  <2>1. l[1] # i
    BY <1>1, <1>10
  <2>2. QED
    BY <1>7, <1>9, <1>10, <2>1
<1>11. ASSUME NEW l \in Links, l # <<j, i>>
       PROVE  queue'[l] = IF l[1] = i /\ l[2] # j /\ Me(l[2]) # m.src
                          THEN Append(queue[l], m) ELSE queue[l]
  <2>1. l[1] = i => l[2] \in Neighbours(i)
    BY LinkEnds
  <2>2. QED
    BY <1>7, <1>8, <1>9, <1>11, <2>1
<1>12. ASSUME NEW l \in Links PROVE queue'[l] \in Seq(Message)
  <2>1. queue[l] \in Seq(Message)
    BY <1>1
  <2>2. Append(queue[l], m) \in Seq(Message)
    BY <2>1, AppendOf
  <2>3. CASE l = <<j, i>>
    <3>1. Tail(queue[l]) \in Seq(Message)
      BY <1>1, <2>1, <2>3, HeadOf
    <3>2. QED
      BY <1>10, <2>3, <3>1
  <2>4. CASE l # <<j, i>>
    BY <1>11, <2>1, <2>2, <2>4
  <2>5. QED
    BY <2>3, <2>4
<1>13. queue' \in [Links -> Seq(Message)]
  BY <1>9, <1>12
<1>14. QED
  BY <1>2, <1>5, <1>6, <1>10, <1>11, <1>13 DEF Takes

LEMMA DropKeeps ==
  ASSUME GossipKept, NEW i \in Procs, NEW j \in Neighbours(i), NEW m \in Message,
         Arrives(j, i, m), m \in seen[i], Drops(j, i)
  PROVE  GossipKept'
<1>0. /\ Typed /\ MemoryIsReceived /\ MessagesArePublished /\ NothingIsMissed
      /\ LeavesInTurn /\ LastIsShown /\ NewestIsLast /\ NewestIsOwed
  BY DEF GossipKept
<1>1. /\ queue' \in [Links -> Seq(Message)]
      /\ \A l \in Links : queue'[l] = IF l = <<j, i>> THEN Tail(queue[l]) ELSE queue[l]
      /\ UNCHANGED <<life, seq, latest, shown, seen, newest, owed>>
  BY DEF Drops
<1>2. Issued' = Issued
  BY <1>1 DEF Issued
<1>3. /\ <<j, i>> \in Links /\ j \in Lasts /\ queue[<<j, i>>] # << >> /\ m = Head(queue[<<j, i>>])
      /\ seen[i] \cup {m} = seen[i]
  BY DEF Arrives
<1>4. \A l \in Links : queue[l] \in Seq(Message) /\ seen[l[1]] \in SUBSET Message /\ seen[l[2]] \in SUBSET Message
  BY <1>0, LinkEnds DEF Typed
<1>5. Issued \in SUBSET Message
  BY DEF Issued
<1>6. MessagesArePublished'
  <2>1. ASSUME NEW l \in Links
        PROVE  /\ \A k \in 1 .. Len(queue'[l]) : queue'[l][k] \in seen[l[1]]
               /\ l[1] \in Restarting => queue'[l] = << >>
    <3>1. /\ \A k \in 1 .. Len(queue[l]) : queue[l][k] \in seen[l[1]]
          /\ l[1] \in Restarting => queue[l] = << >>
      BY <1>0 DEF MessagesArePublished
    <3>2. CASE l = <<j, i>>
      <4>1. l[1] \notin Restarting
        BY <1>3, <3>2 DEF Lasts
      <4>2. \A k \in 1 .. Len(Tail(queue[l])) : k + 1 \in 1 .. Len(queue[l]) /\ Tail(queue[l])[k] = queue[l][k + 1]
        BY <1>3, <1>4, <3>2, HeadOf
      <4>3. queue'[l] = Tail(queue[l])
        BY <1>1, <3>2
      <4>4. ASSUME NEW k \in 1 .. Len(queue'[l]) PROVE queue'[l][k] \in seen[l[1]]
        BY <3>1, <4>2, <4>3
      <4>5. QED
        BY <4>1, <4>4
    <3>3. QED
      BY <1>1, <3>1, <3>2
  <2>2. QED
    BY <1>0, <1>1, <1>2, <2>1 DEF MessagesArePublished
<1>7. NothingIsMissed'
  <2>1. ASSUME NEW l \in LastingLinks
        PROVE  Handed(seen[l[1]], queue'[l], seen[l[2]]) /\ Gapless(queue'[l], seen[l[2]], Issued)
    <3>1. l \in Links /\ Handed(seen[l[1]], queue[l], seen[l[2]]) /\ Gapless(queue[l], seen[l[2]], Issued)
      BY <1>0 DEF NothingIsMissed, LastingLinks
    <3>2. CASE l = <<j, i>>
      <4>1. Handed(seen[l[1]], Tail(queue[l]), seen[l[2]] \cup {Head(queue[l])})
        BY <1>3, <1>4, <3>1, <3>2, HandedAfter
      <4>2. Gapless(Tail(queue[l]), seen[l[2]] \cup {Head(queue[l])}, Issued)
        BY <1>3, <1>4, <1>5, <3>1, <3>2, GaplessAfter
      <4>3. seen[l[2]] \cup {Head(queue[l])} = seen[l[2]] /\ queue'[l] = Tail(queue[l])
        BY <1>1, <1>3, <3>2
      <4>4. QED
        BY <4>1, <4>2, <4>3
    <3>3. QED
      BY <1>1, <3>1, <3>2
  <2>2. QED
    BY <1>0, <1>1, <1>2, <2>1 DEF NothingIsMissed
<1>8. LeavesInTurn'
  <2>1. ASSUME NEW l \in LeafLinks
        PROVE  seen[l[2]] \subseteq seen[l[1]] /\ InTurn(queue'[l], seen[l[2]])
    <3>1. l \in Links /\ seen[l[2]] \subseteq seen[l[1]] /\ InTurn(queue[l], seen[l[2]])
      BY <1>0 DEF LeavesInTurn, LeafLinks
    <3>2. CASE l = <<j, i>>
      <4>1. InTurn(Tail(queue[l]), seen[l[2]] \cup {Head(queue[l])})
        BY <1>3, <1>4, <3>1, <3>2, InTurnAfter
      <4>2. seen[l[2]] \cup {Head(queue[l])} = seen[l[2]] /\ queue'[l] = Tail(queue[l])
        BY <1>1, <1>3, <3>2
      <4>3. QED
        BY <3>1, <4>1, <4>2
    <3>3. QED
      BY <1>1, <3>1, <3>2
  <2>2. QED
    BY <1>1, <2>1 DEF LeavesInTurn
<1>9. NewestIsOwed'
  <2>1. ASSUME NEW c \in Channels, NEW l \in LeafLinks, l[2] \in owed[c], newest[c] \in seen[l[1]]
        PROVE  newest[c] \in seen[l[2]] \/ Holds(queue'[l], newest[c])
    <3>1. l \in Links /\ (newest[c] \in seen[l[2]] \/ Holds(queue[l], newest[c]))
      BY <1>0, <2>1 DEF NewestIsOwed, LeafLinks
    <3>2. CASE l = <<j, i>>
      <4>1. newest[c] \in Message
        BY <1>4, <2>1, <3>1
      <4>2. Holds(queue[l], newest[c]) => newest[c] = Head(queue[l]) \/ Holds(Tail(queue[l]), newest[c])
        BY <1>3, <1>4, <3>2, <4>1, HoldsAfter
      <4>3. queue'[l] = Tail(queue[l]) /\ Head(queue[l]) \in seen[l[2]]
        BY <1>1, <1>3, <3>2
      <4>4. QED
        BY <3>1, <4>2, <4>3
    <3>3. QED
      BY <1>1, <3>1, <3>2
  <2>2. QED
    BY <1>0, <1>1, <2>1 DEF NewestIsOwed
<1>10. Typed' /\ MemoryIsReceived' /\ LastIsShown' /\ NewestIsLast'
  <2>1. Typed'
    BY <1>0, <1>1 DEF Typed
  <2>2. MemoryIsReceived'
    BY <1>0, <1>1 DEF MemoryIsReceived
  <2>3. LastIsShown' /\ NewestIsLast'
    BY <1>0, <1>1, <1>2 DEF LastIsShown, NewestIsLast
  <2>4. QED
    BY <2>1, <2>2, <2>3
<1>11. QED
  BY <1>6, <1>7, <1>8, <1>9, <1>10 DEF GossipKept

LEMMA TakeKeeps ==
  ASSUME GossipKept, SteadyNetwork, NEW i \in Procs, NEW j \in Neighbours(i),
         NEW m \in Message, Arrives(j, i, m), Takes(j, i, m)
  PROVE  GossipKept'
<1>. USE GossipConstants
<1>0. /\ Typed /\ MemoryIsReceived /\ MessagesArePublished /\ NothingIsMissed
      /\ LeavesInTurn /\ LastIsShown /\ NewestIsLast /\ NewestIsOwed
      /\ OnePublisher /\ PublishersStay /\ LeavesRestart
  BY DEF GossipKept, SteadyNetwork
<1>1. /\ m \notin seen[i]
      /\ \A x \in seen[i] : x.channel = m.channel => Earlier(x, m)
      /\ latest' = [latest EXCEPT ![i][Key(j, m)] = m.seq]
      /\ shown' = [shown EXCEPT ![i][m.channel] = m]
      /\ seen' = [seen EXCEPT ![i] = @ \cup {m}]
      /\ \A p \in Procs : seen'[p] = IF p = i THEN seen[i] \cup {m} ELSE seen[p]
      /\ queue' \in [Links -> Seq(Message)]
      /\ \A l \in Links : l = <<j, i>> => queue'[l] = Tail(queue[l])
      /\ \A l \in Links : l # <<j, i>> =>
           queue'[l] = IF l[1] = i /\ l[2] # j /\ Me(l[2]) # m.src
                       THEN Append(queue[l], m) ELSE queue[l]
      /\ UNCHANGED <<life, seq, newest, owed>>
  BY DEF Takes
<1>2. /\ <<j, i>> \in Links /\ j \in Lasts /\ j # i /\ j \in Procs
      /\ queue[<<j, i>>] # << >> /\ m = Head(queue[<<j, i>>])
      /\ m \in seen[j] /\ m \in Issued
  BY LinkEnds DEF Arrives
<1>3. /\ \A l \in Links : queue[l] \in Seq(Message) /\ Len(queue[l]) \in Nat
      /\ \A p \in Procs : seen[p] \in SUBSET Message /\ seen[p] \subseteq Issued
      /\ Issued \in SUBSET Message
  BY <1>0, LenProperties DEF Typed, MessagesArePublished, Issued
<1>4. /\ m.channel \in Channels /\ m.seq \in Nat
      /\ \E p \in Publishers[m.channel] : p \in Lasts /\ m.src = <<p, 0>> /\ m \in seen[p]
      /\ \A p \in Publishers[m.channel] : p \in Lasts /\ m.src = <<p, 0>> /\ m \in seen[p]
  BY <1>0, <1>2, PublisherOf, SeqNumbers
\* The links on which the message goes on, and those that it came by.
<1>5. ASSUME NEW l \in Links, l # <<j, i>>, queue'[l] # queue[l]
      PROVE  l[1] = i /\ l[2] # j /\ queue'[l] = Append(queue[l], m)
  BY <1>1, <1>5
<1>6. ASSUME NEW l \in Links, l[1] = i, queue'[l] = queue[l]
      PROVE  m \in seen[l[2]] /\ l[2] \in Lasts
  <2>1. l # <<j, i>> /\ l[2] \in Procs
    BY <1>2, <1>6, LinkEnds
  <2>2. CASE l[2] = j
    BY <1>2, <2>2
  <2>3. CASE Me(l[2]) = m.src
    BY <1>4, <2>3 DEF Me
  <2>4. CASE l[2] # j /\ Me(l[2]) # m.src
    <3>1. queue'[l] = Append(queue[l], m)
      BY <1>1, <1>6, <2>1, <2>4
    <3>2. Len(Append(queue[l], m)) = Len(queue[l]) + 1 /\ Len(queue[l]) \in Nat
      BY <1>3, AppendOf
    <3>3. QED
      BY <1>6, <3>1, <3>2
  <2>5. QED
    BY <2>2, <2>3, <2>4
<1>7. i \notin Publishers[m.channel]
  BY <1>1, <1>4
<1>8. Issued' = Issued
  <2>1. ASSUME NEW n \in Message, NEW p \in Publishers[n.channel], n.src = <<p, 0>>, n \in seen'[p]
        PROVE  n \in Issued
    <3>1. p \in Procs
      BY <2>1, SeqNumbers
    <3>2. n \in seen[p] \/ n = m
      BY <1>1, <2>1, <3>1
    <3>3. QED
      BY <1>2, <1>3, <3>1, <3>2
  <2>2. ASSUME NEW n \in Issued
        PROVE  \E p \in Publishers[n.channel] : n.src = <<p, 0>> /\ n \in seen'[p]
    <3>1. PICK p \in Publishers[n.channel] : n.src = <<p, 0>> /\ n \in seen[p]
      BY DEF Issued
    <3>2. p \in Procs
      BY <1>0, PublisherOf, <3>1 DEF Lasts
    <3>3. QED
      BY <1>1, <3>1, <3>2
  <2>3. \A n \in Issued : n \in Message
    BY DEF Issued
  <2>4. Issued' = {n \in Message : \E p \in Publishers[n.channel] : n.src = <<p, 0>> /\ n \in seen'[p]}
    BY DEF Issued
  <2>5. QED
    BY <2>1, <2>2, <2>3, <2>4
<1>9. i \in Restarting => \A l \in Links : l[1] = i => l[2] = j
  BY <1>0, LinkEnds DEF LeavesRestart
<1>10. Key(j, m) \in Id \X Channels /\ Key(j, m)[2] = m.channel
  <2>1. life[j] \in 0 .. MaxRestarts
    BY <1>0, <1>2 DEF Typed
  <2>2. QED
    BY <1>2, <1>4, <2>1 DEF Key, Me, Id
<1>11. Typed'
  <2>1. latest' \in [Procs -> [Id \X Channels -> Nat]]
    BY <1>0, <1>1, <1>4, <1>10 DEF Typed
  <2>2. shown' \in [Procs -> [Channels -> Message \cup {NoMessage}]]
    BY <1>0, <1>1, <1>4 DEF Typed
  <2>3. seen' \in [Procs -> SUBSET Message]
    BY <1>0, <1>1 DEF Typed
  <2>4. QED
    BY <1>0, <1>1, <2>1, <2>2, <2>3 DEF Typed
<1>12. MemoryIsReceived'
  <2>1. ASSUME NEW p \in Procs, NEW k \in Id \X Channels
        PROVE  latest'[p][k] = 0 \/ \E n \in seen'[p] : n.channel = k[2] /\ n.seq = latest'[p][k]
    <3>1. CASE p = i /\ k = Key(j, m)
      <4>1. latest'[p][k] = m.seq
        BY <1>0, <1>1, <3>1 DEF Typed
      <4>2. QED
        BY <1>1, <1>10, <3>1, <4>1
    <3>2. CASE ~ (p = i /\ k = Key(j, m))
      <4>1. latest'[p][k] = latest[p][k] /\ seen[p] \subseteq seen'[p]
        BY <1>0, <1>1, <3>2 DEF Typed
      <4>2. latest[p][k] = 0 \/ \E n \in seen[p] : n.channel = k[2] /\ n.seq = latest[p][k]
        BY <1>0 DEF MemoryIsReceived
      <4>3. QED
        BY <4>1, <4>2
    <3>3. QED
      BY <3>1, <3>2
  <2>2. ASSUME NEW p \in Procs, NEW c \in Channels
        PROVE  shown'[p][c] \in seen'[p] \cup {NoMessage}
    <3>1. (shown'[p][c] = m /\ p = i) \/ shown'[p][c] = shown[p][c]
      BY <1>0, <1>1 DEF Typed
    <3>2. shown[p][c] \in seen[p] \cup {NoMessage}
      BY <1>0 DEF MemoryIsReceived
    <3>3. QED
      BY <1>1, <3>1, <3>2
  <2>3. QED
    BY <2>1, <2>2 DEF MemoryIsReceived
<1>13. MessagesArePublished'
  <2>1. \A p \in Procs : seen'[p] \subseteq Issued
    BY <1>1, <1>2, <1>3
  <2>2. ASSUME NEW l \in Links
        PROVE  /\ \A k \in 1 .. Len(queue'[l]) : queue'[l][k] \in seen'[l[1]]
               /\ l[1] \in Restarting => queue'[l] = << >>
    <3>1. /\ \A k \in 1 .. Len(queue[l]) : queue[l][k] \in seen[l[1]]
          /\ l[1] \in Restarting => queue[l] = << >>
      BY <1>0 DEF MessagesArePublished
    <3>2. CASE l = <<j, i>>
      <4>1. l[1] \notin Restarting /\ l[1] = j /\ seen'[l[1]] = seen[l[1]]
        BY <1>1, <1>2, <3>2 DEF Lasts
      <4>2. \A k \in 1 .. Len(Tail(queue[l])) : k + 1 \in 1 .. Len(queue[l]) /\ Tail(queue[l])[k] = queue[l][k + 1]
        BY <1>2, <1>3, <3>2, HeadOf
      <4>3. queue'[l] = Tail(queue[l])
        BY <1>1, <3>2
      <4>4. ASSUME NEW k \in 1 .. Len(queue'[l]) PROVE queue'[l][k] \in seen'[l[1]]
        BY <3>1, <4>1, <4>2, <4>3
      <4>5. QED
        BY <4>1, <4>4
    <3>3. CASE l # <<j, i>> /\ queue'[l] = queue[l]
      BY <1>1, <3>1, <3>3, LinkEnds
    <3>4. CASE l # <<j, i>> /\ queue'[l] # queue[l]
      <4>1. l[1] = i /\ l[2] # j /\ queue'[l] = Append(queue[l], m)
        BY <1>5, <3>4
      <4>2. l[1] \notin Restarting /\ seen'[l[1]] = seen[l[1]] \cup {m}
        BY <1>1, <1>9, <4>1
      <4>3. QED
        BY <1>3, <3>1, <4>1, <4>2, AppendOf
    <3>5. QED
      BY <3>2, <3>3, <3>4
  <2>3. QED
    BY <1>0, <1>1, <1>8, <2>1, <2>2 DEF MessagesArePublished
<1>14. NothingIsMissed'
  <2>1. ASSUME NEW p \in Lasts, NEW x \in seen'[p], NEW n \in Issued, Earlier(n, x)
        PROVE  n \in seen'[p]
    <3>1. p \in Procs
      BY DEF Lasts
    <3>2. CASE x \in seen[p]
      BY <1>0, <1>1, <2>1, <3>1, <3>2 DEF NothingIsMissed
    <3>3. CASE x = m /\ p = i
      <4>1. <<j, i>> \in LastingLinks
        BY <1>2, <3>3 DEF LastingLinks
      <4>2. Gapless(queue[<<j, i>>], seen[i], Issued)
        BY <1>0, <4>1 DEF NothingIsMissed
      <4>3. 1 \in 1 .. Len(queue[<<j, i>>]) /\ m = queue[<<j, i>>][1]
        BY <1>2, <1>3, HeadOf
      <4>4. n \in seen[i]
        BY <2>1, <3>3, <4>2, <4>3 DEF Gapless
      <4>5. QED
        BY <1>1, <3>1, <3>3, <4>4
    <3>4. QED
      BY <1>1, <3>1, <3>2, <3>3
  <2>2. ASSUME NEW l \in LastingLinks
        PROVE  Handed(seen'[l[1]], queue'[l], seen'[l[2]]) /\ Gapless(queue'[l], seen'[l[2]], Issued)
    <3>1. l \in Links /\ l[1] \in Procs /\ l[2] \in Procs /\ l[1] # l[2] /\ l = <<l[1], l[2]>>
      BY LinkEnds DEF LastingLinks
    <3>2. Handed(seen[l[1]], queue[l], seen[l[2]]) /\ Gapless(queue[l], seen[l[2]], Issued)
      BY <1>0 DEF NothingIsMissed
    <3>3. queue[l] \in Seq(Message) /\ seen[l[1]] \in SUBSET Message
      BY <1>3, <3>1
    <3>4. CASE l = <<j, i>>
      <4>1. Handed(seen[l[1]], Tail(queue[l]), seen[l[2]] \cup {Head(queue[l])})
        BY <1>2, <3>2, <3>3, <3>4, HandedAfter
      <4>2. Gapless(Tail(queue[l]), seen[l[2]] \cup {Head(queue[l])}, Issued)
        BY <1>2, <1>3, <3>2, <3>3, <3>4, GaplessAfter
      <4>3. /\ seen'[l[2]] = seen[l[2]] \cup {Head(queue[l])} /\ seen'[l[1]] = seen[l[1]]
            /\ queue'[l] = Tail(queue[l])
        BY <1>1, <1>2, <3>1, <3>4
      <4>4. QED
        BY <4>1, <4>2, <4>3
    <3>5. CASE l # <<j, i>> /\ l[2] = i
      <4>1. Handed(seen[l[1]], queue[l], seen[l[2]] \cup {m})
        BY <3>2, <3>3, HandedAfter
      <4>2. Gapless(queue[l], seen[l[2]] \cup {m}, Issued)
        BY <1>3, <3>2, <3>3, GaplessAfter
      <4>3. seen'[l[2]] = seen[l[2]] \cup {m} /\ seen'[l[1]] = seen[l[1]] /\ queue'[l] = queue[l]
        BY <1>1, <3>1, <3>5
      <4>4. QED
        BY <4>1, <4>2, <4>3
    <3>6. CASE l[1] = i /\ queue'[l] = queue[l]
      <4>1. m \in seen[l[2]]
        BY <1>6, <3>1, <3>6
      <4>2. Handed(seen[l[1]] \cup {m}, queue[l], seen[l[2]])
        BY <3>2, <3>3, <4>1, HandedAfter
      <4>3. seen'[l[1]] = seen[l[1]] \cup {m} /\ seen'[l[2]] = seen[l[2]]
        BY <1>1, <3>1, <3>6
      <4>4. QED
        BY <3>2, <3>6, <4>2, <4>3
    <3>7. CASE l[1] = i /\ queue'[l] # queue[l]
      <4>1. queue'[l] = Append(queue[l], m)
        BY <1>2, <1>5, <3>1, <3>7
      <4>2. Handed(seen[l[1]] \cup {m}, Append(queue[l], m), seen[l[2]])
        BY <3>2, <3>3, HandedAfter
      <4>3. ASSUME NEW n \in Issued, Earlier(n, m)
            PROVE  n \in seen[l[2]] \/ Holds(queue[l], n)
        <5>1. i \in Lasts
          BY <3>7 DEF LastingLinks
        <5>2. n \in seen'[i] /\ n # m
          BY <1>1, <1>4, <2>1, <4>3, <5>1 DEF Earlier
        <5>3. n \in seen[i]
          BY <1>1, <5>2
        <5>4. QED
          BY <3>2, <3>7, <5>3 DEF Handed
      <4>4. Gapless(Append(queue[l], m), seen[l[2]], Issued)
        BY <1>3, <3>2, <3>3, <4>3, GaplessAfter
      <4>5. seen'[l[1]] = seen[l[1]] \cup {m} /\ seen'[l[2]] = seen[l[2]]
        BY <1>1, <3>1, <3>7
      <4>6. QED
        BY <4>1, <4>2, <4>4, <4>5
    <3>8. CASE l[1] # i /\ l[2] # i
      <4>1. queue'[l] = queue[l] /\ seen'[l[1]] = seen[l[1]] /\ seen'[l[2]] = seen[l[2]]
        BY <1>1, <3>1, <3>8
      <4>2. QED
        BY <3>2, <4>1
    <3>9. QED
      BY <3>4, <3>5, <3>6, <3>7, <3>8
  <2>3. QED
    BY <1>8, <2>1, <2>2 DEF NothingIsMissed
<1>15. LeavesInTurn'
  <2>1. ASSUME NEW l \in LeafLinks
        PROVE  seen'[l[2]] \subseteq seen'[l[1]] /\ InTurn(queue'[l], seen'[l[2]])
    <3>1. /\ l \in Links /\ l[1] \in Procs /\ l[2] \in Procs /\ l[1] # l[2] /\ l = <<l[1], l[2]>>
          /\ l[2] \in Restarting
      BY LinkEnds DEF LeafLinks
    <3>2. seen[l[2]] \subseteq seen[l[1]] /\ InTurn(queue[l], seen[l[2]])
      BY <1>0 DEF LeavesInTurn
    <3>3. queue[l] \in Seq(Message) /\ seen[l[2]] \in SUBSET Message
      BY <1>3, <3>1
    <3>4. CASE l[2] = i
      <4>1. l[1] = j
        BY <1>0, <1>2, <3>1, <3>4, LinkEnds DEF LeavesRestart
      <4>2. l = <<j, i>>
        BY <3>1, <3>4, <4>1
      <4>3. InTurn(Tail(queue[l]), seen[l[2]] \cup {Head(queue[l])})
        BY <1>2, <3>2, <3>3, <4>2, InTurnAfter
      <4>4. /\ seen'[l[2]] = seen[l[2]] \cup {Head(queue[l])} /\ seen'[l[1]] = seen[l[1]]
            /\ queue'[l] = Tail(queue[l]) /\ Head(queue[l]) \in seen[l[1]]
        BY <1>1, <1>2, <3>1, <4>2
      <4>5. QED
        BY <3>2, <4>3, <4>4
    <3>5. CASE l[1] = i
      <4>1. queue'[l] = Append(queue[l], m)
        BY <1>2, <1>5, <1>6, <3>1, <3>5 DEF Lasts
      <4>2. \A n \in seen[l[2]] : n.channel = m.channel => Earlier(n, m)
        BY <1>1, <3>2, <3>5
      <4>3. ASSUME NEW k \in 1 .. Len(queue[l]), queue[l][k].channel = m.channel
            PROVE  Earlier(queue[l][k], m)
        <5>1. queue[l][k] \in seen[i]
          BY <1>0, <3>1, <3>5 DEF MessagesArePublished
        <5>2. QED
          BY <1>1, <4>3, <5>1
      <4>4. InTurn(Append(queue[l], m), seen[l[2]])
        BY <3>2, <3>3, <4>2, <4>3, InTurnAfter
      <4>5. seen'[l[1]] = seen[l[1]] \cup {m} /\ seen'[l[2]] = seen[l[2]]
        BY <1>1, <3>1, <3>5
      <4>6. QED
        BY <3>2, <4>1, <4>4, <4>5
    <3>6. CASE l[1] # i /\ l[2] # i
      <4>1. queue'[l] = queue[l] /\ seen'[l[1]] = seen[l[1]] /\ seen'[l[2]] = seen[l[2]]
        BY <1>1, <3>1, <3>6
      <4>2. QED
        BY <3>2, <4>1
    <3>7. QED
      BY <3>4, <3>5, <3>6
  <2>2. QED
    BY <2>1 DEF LeavesInTurn
<1>16. LastIsShown'
  <2>1. ASSUME NEW p \in Procs, NEW c \in Channels, p \notin Publishers[c], NEW x \in seen'[p], x.channel = c
        PROVE  /\ shown'[p][c] # NoMessage /\ shown'[p][c].channel = c
               /\ x.seq <= shown'[p][c].seq
    <3>1. CASE p = i /\ c = m.channel
      <4>1. shown'[p][c] = m /\ m # NoMessage
        BY <1>0, <1>1, <3>1 DEF Typed
      <4>2. x = m \/ Earlier(x, m)
        BY <1>1, <2>1, <3>1
      <4>3. x \in Message
        BY <1>1, <1>3, <2>1
      <4>4. QED
        BY <1>4, <3>1, <4>1, <4>2, <4>3, SeqNumbers DEF Earlier
    <3>2. CASE ~ (p = i /\ c = m.channel)
      <4>1. shown'[p][c] = shown[p][c]
        BY <1>0, <1>1, <3>2 DEF Typed
      <4>2. x \in seen[p]
        BY <1>1, <2>1, <3>2
      <4>3. QED
        BY <1>0, <2>1, <4>1, <4>2 DEF LastIsShown
    <3>3. QED
      BY <3>1, <3>2
  <2>2. QED
    BY <2>1 DEF LastIsShown
<1>17. NewestIsLast'
  BY <1>0, <1>1, <1>8 DEF NewestIsLast
<1>18. NewestIsOwed'
  <2>1. ASSUME NEW c \in Channels, NEW l \in LeafLinks, l[2] \in owed[c], newest[c] \in seen'[l[1]]
        PROVE  newest[c] \in seen'[l[2]] \/ Holds(queue'[l], newest[c])
    <3>1. /\ l \in Links /\ l[1] \in Procs /\ l[2] \in Procs /\ l[1] # l[2] /\ l = <<l[1], l[2]>>
          /\ l[2] \in Restarting
      BY LinkEnds DEF LeafLinks
    <3>2. newest[c] \in seen[l[1]] => newest[c] \in seen[l[2]] \/ Holds(queue[l], newest[c])
      BY <1>0, <2>1 DEF NewestIsOwed
    <3>3. newest[c] \in Message /\ queue[l] \in Seq(Message)
      BY <1>1, <1>3, <2>1, <3>1
    <3>4. CASE l = <<j, i>>
      <4>1. newest[c] \in seen[l[1]]
        BY <1>1, <1>2, <2>1, <3>1, <3>4
      <4>2. Holds(queue[l], newest[c]) => newest[c] = Head(queue[l]) \/ Holds(Tail(queue[l]), newest[c])
        BY <1>2, <3>3, <3>4, HoldsAfter
      <4>3. queue'[l] = Tail(queue[l]) /\ seen'[l[2]] = seen[l[2]] \cup {Head(queue[l])}
        BY <1>1, <1>2, <3>1, <3>4
      <4>4. QED
        BY <3>2, <4>1, <4>2, <4>3
    <3>5. CASE l[1] = i
      <4>1. queue'[l] = Append(queue[l], m)
        BY <1>2, <1>5, <1>6, <3>1, <3>5 DEF Lasts
      <4>2. Holds(Append(queue[l], m), m) /\ (Holds(queue[l], newest[c]) => Holds(Append(queue[l], m), newest[c]))
        BY <3>3, HoldsAfter
      <4>3. newest[c] = m \/ newest[c] \in seen[l[1]]
        BY <1>1, <2>1, <3>1, <3>5
      <4>4. seen'[l[2]] = seen[l[2]]
        BY <1>1, <3>1, <3>5
      <4>5. QED
        BY <3>2, <4>1, <4>2, <4>3, <4>4
    <3>6. CASE l[1] # i /\ l # <<j, i>>
      <4>1. queue'[l] = queue[l] /\ seen'[l[1]] = seen[l[1]] /\ seen[l[2]] \subseteq seen'[l[2]]
        BY <1>1, <3>1, <3>6
      <4>2. QED
        BY <2>1, <3>2, <4>1
    <3>7. QED
      BY <3>4, <3>5, <3>6
  <2>2. QED
    BY <1>0, <1>1, <2>1 DEF NewestIsOwed
<1>19. QED
  BY <1>11, <1>12, <1>13, <1>14, <1>15, <1>16, <1>17, <1>18 DEF GossipKept

-----------------------------------------------------------------------------
(***************************************************************************)
(* A process restarts                                                      *)
(***************************************************************************)

LEMMA RestartKeeps ==
  ASSUME GossipKept, SteadyNetwork, NEW i \in Procs, Restart(i)
  PROVE  GossipKept'
<1>. USE GossipConstants
<1>0. /\ Typed /\ MemoryIsReceived /\ MessagesArePublished /\ NothingIsMissed
      /\ LeavesInTurn /\ LastIsShown /\ NewestIsLast /\ NewestIsOwed
      /\ OnePublisher /\ PublishersStay /\ LeavesRestart /\ Connected
  BY DEF GossipKept, SteadyNetwork
<1>1. /\ i \in Restarting /\ life[i] < MaxRestarts
      /\ life' = [life EXCEPT ![i] = @ + 1]
      /\ seq' = [seq EXCEPT ![i] = 0]
      /\ latest' = [latest EXCEPT ![i] = [k \in Id \X Channels |-> 0]]
      /\ shown' = [shown EXCEPT ![i] = [ch \in Channels |-> NoMessage]]
      /\ seen' = [seen EXCEPT ![i] = {}]
      /\ queue' = [l \in Links |-> IF i \in {l[1], l[2]} THEN << >> ELSE queue[l]]
      /\ newest' = newest
  BY DEF Restart
<1>2. /\ owed' \in [Channels -> SUBSET Procs]
      /\ \A c \in Channels : owed'[c] \subseteq owed[c] \ {i}
  <2>1. \A c \in Channels : owed[c] \in SUBSET Procs
    BY <1>0 DEF Typed
  <2>2. owed' = [c \in Channels |-> IF newest[c] \in Carried(i) THEN {} ELSE owed[c] \ {i}]
    BY DEF Restart
  <2>3. QED
    BY <2>1, <2>2
<1>3. /\ \A p \in Procs : seen'[p] = IF p = i THEN {} ELSE seen[p]
      /\ \A l \in Links : queue'[l] = IF i \in {l[1], l[2]} THEN << >> ELSE queue[l]
      /\ i \notin Lasts
  BY <1>0, <1>1 DEF Typed, Lasts
<1>4. Issued' = Issued
  <2>1. ASSUME NEW n \in Message, NEW p \in Publishers[n.channel]
        PROVE  seen'[p] = seen[p]
    <3>1. p \in Procs /\ p # i
      BY <1>0, <1>1, SeqNumbers DEF PublishersStay
    <3>2. QED
      BY <1>3, <3>1
  <2>2. QED
    BY <2>1 DEF Issued
<1>5. \A l \in Links : l[1] \in Procs /\ l[2] \in Procs
  BY LinkEnds
<1>6. Len(<< >>) = 0 /\ << >> \in Seq(Message)
  BY EmptySeq
<1>7. Typed'
  <2>1. life' \in [Procs -> 0 .. MaxRestarts]
    BY <1>0, <1>1 DEF Typed
  <2>2. seq' \in [Procs -> 0 .. MaxSeq]
    BY <1>0, <1>1 DEF Typed
  <2>3. latest' \in [Procs -> [Id \X Channels -> Nat]]
    <3>1. [k \in Id \X Channels |-> 0] \in [Id \X Channels -> Nat] /\ latest \in [Procs -> [Id \X Channels -> Nat]]
      BY <1>0 DEF Typed
    <3>2. QED
      BY <1>1, <3>1
  <2>4. shown' \in [Procs -> [Channels -> Message \cup {NoMessage}]] /\ seen' \in [Procs -> SUBSET Message]
    BY <1>0, <1>1 DEF Typed
  <2>5. queue' \in [Links -> Seq(Message)]
    BY <1>0, <1>1, <1>6 DEF Typed
  <2>6. QED
    BY <1>0, <1>1, <1>2, <2>1, <2>2, <2>3, <2>4, <2>5 DEF Typed
<1>8. MemoryIsReceived'
  <2>1. ASSUME NEW p \in Procs
        PROVE  /\ \A k \in Id \X Channels : latest'[p][k] = 0 \/
                    \E m \in seen'[p] : m.channel = k[2] /\ m.seq = latest'[p][k]
               /\ \A c \in Channels : shown'[p][c] \in seen'[p] \cup {NoMessage}
    <3>1. CASE p = i
      <4>1. latest'[p] = [k \in Id \X Channels |-> 0] /\ shown'[p] = [c \in Channels |-> NoMessage]
        BY <1>0, <1>1, <3>1 DEF Typed
      <4>2. QED
        BY <4>1
    <3>2. CASE p # i
      <4>1. latest'[p] = latest[p] /\ shown'[p] = shown[p] /\ seen'[p] = seen[p]
        BY <1>0, <1>1, <3>2 DEF Typed
      <4>2. QED
        BY <1>0, <4>1 DEF MemoryIsReceived
    <3>3. QED
      BY <3>1, <3>2
  <2>2. QED
    BY <2>1 DEF MemoryIsReceived
<1>9. MessagesArePublished'
  <2>1. \A p \in Procs : seen'[p] \subseteq Issued
    BY <1>0, <1>3 DEF MessagesArePublished
  <2>2. ASSUME NEW m \in Issued PROVE m.seq <= seq'[m.src[1]]
    <3>1. PICK p \in Lasts : m.src = <<p, 0>>
      BY <1>0, PublisherOf
    <3>2. seq'[p] = seq[p]
      BY <1>0, <1>1, <1>3 DEF Typed, Lasts
    <3>3. QED
      BY <1>0, <3>1, <3>2 DEF MessagesArePublished
  <2>3. \A p \in Procs : life'[p] # 0 => p \in Restarting
    BY <1>0, <1>1 DEF MessagesArePublished, Typed
  <2>4. ASSUME NEW l \in Links
        PROVE  /\ \A k \in 1 .. Len(queue'[l]) : queue'[l][k] \in seen'[l[1]]
               /\ l[1] \in Restarting => queue'[l] = << >>
    <3>1. CASE i \in {l[1], l[2]}
      BY <1>3, <1>6, <3>1
    <3>2. CASE i \notin {l[1], l[2]}
      BY <1>0, <1>3, <1>5, <3>2 DEF MessagesArePublished
    <3>3. QED
      BY <3>1, <3>2
  <2>5. QED
    BY <1>4, <2>1, <2>2, <2>3, <2>4 DEF MessagesArePublished
<1>10. NothingIsMissed'
  <2>1. ASSUME NEW p \in Lasts, NEW m \in seen'[p], NEW n \in Issued, Earlier(n, m)
        PROVE  n \in seen'[p]
    <3>1. seen'[p] = seen[p]
      BY <1>3 DEF Lasts
    <3>2. QED
      BY <1>0, <2>1, <3>1 DEF NothingIsMissed
  <2>2. ASSUME NEW l \in LastingLinks
        PROVE  Handed(seen'[l[1]], queue'[l], seen'[l[2]]) /\ Gapless(queue'[l], seen'[l[2]], Issued)
    <3>1. queue'[l] = queue[l] /\ seen'[l[1]] = seen[l[1]] /\ seen'[l[2]] = seen[l[2]]
      BY <1>3, <1>5 DEF LastingLinks
    <3>2. QED
      BY <1>0, <3>1 DEF NothingIsMissed
  <2>3. QED
    BY <1>4, <2>1, <2>2 DEF NothingIsMissed
\* The neighbour of a process that restarts lasts: else the two are the network,
\* and nobody publishes.
<1>11. LeavesInTurn'
  <2>1. ASSUME NEW l \in LeafLinks
        PROVE  seen'[l[2]] \subseteq seen'[l[1]] /\ InTurn(queue'[l], seen'[l[2]])
    <3>0. l \in Links /\ l[1] \in Procs /\ l[2] \in Procs /\ l[1] # l[2] /\ l[2] \in Restarting
      BY LinkEnds DEF LeafLinks
    <3>1. CASE l[2] = i
      BY <1>3, <1>6, <3>0, <3>1 DEF InTurn
    <3>2. CASE l[1] = i
      <4>1. {i, l[2]} \in SUBSET Procs /\ Neighbours(i) \subseteq {i, l[2]} /\ Neighbours(l[2]) \subseteq {i, l[2]}
        BY <1>0, <1>1, <3>0, <3>2, LinkEnds DEF LeavesRestart
      <4>2. Procs = {i, l[2]}
        BY <1>0, <4>1 DEF Connected
      <4>3. Lasts = {}
        BY <1>1, <3>0, <4>2 DEF Lasts
      <4>4. seen[l[2]] \subseteq Issued
        BY <1>0, <3>0 DEF MessagesArePublished
      <4>5. seen[l[2]] = {}
        BY <1>0, <4>3, <4>4, PublisherOf
      <4>6. seen'[l[2]] = {} /\ queue'[l] = << >>
        BY <1>3, <3>0, <3>2, <4>5
      <4>7. QED
        BY <1>6, <4>6 DEF InTurn
    <3>3. CASE i \notin {l[1], l[2]}
      BY <1>0, <1>3, <3>0, <3>3 DEF LeavesInTurn
    <3>4. QED
      BY <3>1, <3>2, <3>3
  <2>2. QED
    BY <2>1 DEF LeavesInTurn
<1>12. LastIsShown'
  <2>1. ASSUME NEW p \in Procs, NEW c \in Channels, p \notin Publishers[c], NEW x \in seen'[p], x.channel = c
        PROVE  /\ shown'[p][c] # NoMessage /\ shown'[p][c].channel = c
               /\ x.seq <= shown'[p][c].seq
    <3>1. p # i
      BY <1>3, <2>1
    <3>2. shown'[p] = shown[p] /\ seen'[p] = seen[p]
      BY <1>0, <1>1, <1>3, <3>1 DEF Typed
    <3>3. QED
      BY <1>0, <2>1, <3>2 DEF LastIsShown
  <2>2. QED
    BY <2>1 DEF LastIsShown
<1>13. NewestIsLast'
  <2>1. ASSUME NEW c \in Channels
        PROVE  /\ newest[c] = NoMessage => owed'[c] = {}
               /\ newest[c] # NoMessage =>
                    /\ newest[c] \in Issued /\ newest[c].channel = c
                    /\ \A m \in Issued : m.channel = c => m.seq <= newest[c].seq
    BY <1>0, <1>2 DEF NewestIsLast
  <2>2. QED
    BY <1>1, <1>4, <2>1 DEF NewestIsLast
<1>14. NewestIsOwed'
  <2>1. \A c \in Channels : owed'[c] \cap Publishers[c] = {}
    BY <1>0, <1>2 DEF NewestIsOwed
  <2>2. ASSUME NEW c \in Channels, NEW l \in LeafLinks, l[2] \in owed'[c], newest[c] \in seen'[l[1]]
        PROVE  newest[c] \in seen'[l[2]] \/ Holds(queue'[l], newest[c])
    <3>1. l \in Links /\ l[1] \in Procs /\ l[2] \in Procs /\ l[2] # i /\ l[1] # i /\ l[2] \in owed[c]
      BY <1>2, <1>3, <2>2, LinkEnds DEF LeafLinks
    <3>2. queue'[l] = queue[l] /\ seen'[l[1]] = seen[l[1]] /\ seen'[l[2]] = seen[l[2]]
      BY <1>3, <3>1
    <3>3. QED
      BY <1>0, <2>2, <3>1, <3>2 DEF NewestIsOwed
  <2>3. QED
    BY <1>1, <2>1, <2>2 DEF NewestIsOwed
<1>15. QED
  BY <1>7, <1>8, <1>9, <1>10, <1>11, <1>12, <1>13, <1>14 DEF GossipKept

-----------------------------------------------------------------------------
(***************************************************************************)
(* What the network keeps                                                  *)
(***************************************************************************)

LEMMA GossipKeeps ==
  ASSUME GossipKept, SteadyNetwork, [GossipNext]_gossipVars
  PROVE  GossipKept'
<1>1. ASSUME NEW i \in Procs, NEW ch \in Channels, Publish(i, ch)
      PROVE  GossipKept'
  BY <1>1, PublishKeeps
<1>2. ASSUME NEW i \in Procs, NEW j \in Neighbours(i), Receive(j, i)
      PROVE  GossipKept'
  <2>1. PICK m \in Message : Arrives(j, i, m)
    BY <1>2, ArriveStep
  <2>2. CASE m \in seen[i]
    <3>1. m = Head(queue[<<j, i>>])
      BY <2>1 DEF Arrives
    <3>2. Drops(j, i)
      BY <1>2, <2>2, <3>1, DropStep
    <3>3. QED
      BY <2>1, <2>2, <3>2, DropKeeps
  <2>3. CASE m \notin seen[i]
    <3>1. Takes(j, i, m)
      BY <1>2, <2>1, <2>3, TakeStep
    <3>2. QED
      BY <2>1, <3>1, TakeKeeps
  <2>4. QED
    BY <2>2, <2>3
<1>3. ASSUME NEW i \in Procs, Restart(i)
      PROVE  GossipKept'
  BY <1>3, RestartKeeps
<1>4. CASE UNCHANGED gossipVars
  <2>1. UNCHANGED <<life, seq, latest, shown, seen, queue, newest, owed>>
    BY <1>4 DEF gossipVars
  <2>2. Issued' = Issued
    BY <2>1 DEF Issued
  <2>3. Typed' /\ MemoryIsReceived' /\ MessagesArePublished'
    BY <2>1, <2>2 DEF GossipKept, Typed, MemoryIsReceived, MessagesArePublished
  <2>4. NothingIsMissed' /\ LeavesInTurn'
    BY <2>1, <2>2 DEF GossipKept, NothingIsMissed, LeavesInTurn
  <2>5. LastIsShown' /\ NewestIsLast' /\ NewestIsOwed'
    BY <2>1, <2>2 DEF GossipKept, LastIsShown, NewestIsLast, NewestIsOwed
  <2>6. QED
    BY <2>3, <2>4, <2>5 DEF GossipKept
<1>5. QED
  BY <1>1, <1>2, <1>3, <1>4 DEF GossipNext

\* When the links are empty, all processes that last have seen the newest
\* message, and those that restart and are owed it too.
LEMMA NewestIsSeen ==
  ASSUME GossipKept, SteadyNetwork, \A l \in Links : queue[l] = << >>,
         NEW ch \in Channels, NEW i \in owed[ch]
  PROVE  newest[ch] \in seen[i] /\ newest[ch] \in Issued
<1>. DEFINE m == newest[ch]
<1>0. /\ Typed /\ MessagesArePublished /\ NothingIsMissed /\ NewestIsLast /\ NewestIsOwed
      /\ OnePublisher /\ PublishersStay /\ LeavesRestart /\ Connected
  BY DEF GossipKept, SteadyNetwork
<1>1. i \in Procs /\ m # NoMessage /\ m \in Issued
  BY <1>0 DEF Typed, NewestIsLast
<1>2. PICK p \in Lasts : m \in seen[p]
  BY <1>0, <1>1, PublisherOf
<1>. HIDE DEF m
<1>3. ASSUME NEW l \in Links PROVE ~ Holds(queue[l], m)
  BY EmptySeq DEF Holds
<1>4. ASSUME NEW j \in Lasts, NEW k \in Neighbours(j), k \in Lasts, m \in seen[j]
      PROVE  m \in seen[k]
  <2>1. <<j, k>> \in LastingLinks
    BY <1>4, LinkEnds DEF Lasts, LastingLinks
  <2>2. Handed(seen[j], queue[<<j, k>>], seen[k])
    BY <1>0, <2>1 DEF NothingIsMissed
  <2>3. QED
    BY <1>3, <1>4, <2>1, <2>2 DEF Handed, LastingLinks
<1>. DEFINE Reached == {j \in Lasts : m \in seen[j]}
<1>. DEFINE Leaves == {j \in Restarting : \E k \in Reached : k \in Neighbours(j)}
<1>5. Reached \cup Leaves = Procs
  <2>1. Reached \cup Leaves \in SUBSET Procs /\ p \in Reached
    BY <1>2, GossipConstants DEF Lasts
  <2>2. ASSUME NEW j \in Reached \cup Leaves, NEW k \in Neighbours(j)
        PROVE  k \in Reached \cup Leaves
    <3>0. j \in Procs /\ k \in Procs /\ j \in Neighbours(k)
      <4>1. j \in Procs
        BY <2>1
      <4>2. k \in Procs /\ <<k, j>> \in Links
        BY <4>1, LinkEnds
      <4>3. QED
        BY <4>1, <4>2 DEF Neighbours
    <3>1. CASE j \in Reached /\ k \in Lasts
      BY <1>4, <3>1
    <3>2. CASE j \in Reached /\ k \in Restarting
      BY <3>0, <3>2
    <3>3. CASE j \in Leaves
      BY <1>0, <2>1, <3>0, <3>3 DEF LeavesRestart
    <3>4. QED
      BY <3>0, <3>1, <3>2, <3>3 DEF Lasts
  <2>3. QED
    BY <1>0, <2>1, <2>2 DEF Connected
<1>6. CASE i \in Lasts
  BY <1>1, <1>5, <1>6 DEF Lasts, m
<1>7. CASE i \in Restarting
  <2>1. PICK k \in Reached : k \in Neighbours(i)
    BY <1>1, <1>5, <1>7 DEF Lasts
  <2>2. <<k, i>> \in LeafLinks /\ <<k, i>> \in Links
    BY <1>1, <1>7, <2>1, LinkEnds DEF LeafLinks
  <2>3. m \in seen[k]
    BY <2>1
  <2>4. m \in seen[i] \/ Holds(queue[<<k, i>>], m)
    BY <1>0, <2>2, <2>3 DEF NewestIsOwed, m
  <2>5. QED
    BY <1>1, <1>3, <2>2, <2>4 DEF m
<1>8. QED
  BY <1>1, <1>6, <1>7 DEF Lasts

LEMMA NewestIsShown ==
  ASSUME GossipKept, SteadyNetwork
  PROVE  PublishedIsReceived
<1>0. /\ Typed /\ MemoryIsReceived /\ MessagesArePublished /\ LastIsShown /\ NewestIsLast /\ NewestIsOwed
      /\ OnePublisher /\ PublishersStay
  BY DEF GossipKept, SteadyNetwork
<1>1. GossipTypeOK
  BY <1>0 DEF Typed, MemoryIsReceived, GossipTypeOK
<1>2. ASSUME \A l \in Links : queue[l] = << >>, NEW ch \in Channels, NEW i \in owed[ch]
      PROVE  shown[i][ch] = newest[ch]
  <2>1. newest[ch] \in seen[i] /\ newest[ch] \in Issued
    BY <1>2, NewestIsSeen
  <2>2. i \in Procs /\ i \notin Publishers[ch] /\ newest[ch] # NoMessage /\ newest[ch].channel = ch
    BY <1>0 DEF Typed, NewestIsOwed, NewestIsLast
  <2>3. /\ shown[i][ch] # NoMessage /\ shown[i][ch].channel = ch
        /\ newest[ch].seq <= shown[i][ch].seq
    BY <1>0, <2>1, <2>2 DEF LastIsShown
  <2>4. shown[i][ch] \in Issued
    BY <1>0, <2>2, <2>3 DEF MemoryIsReceived, MessagesArePublished
  <2>5. shown[i][ch].seq <= newest[ch].seq
    BY <1>0, <2>2, <2>3, <2>4 DEF NewestIsLast
  <2>6. shown[i][ch] = newest[ch] \/ Earlier(shown[i][ch], newest[ch]) \/ Earlier(newest[ch], shown[i][ch])
    BY <1>0, <2>1, <2>2, <2>3, <2>4, PublishedInOrder
  <2>7. shown[i][ch] \in Message /\ newest[ch] \in Message
    BY <2>1, <2>4 DEF Issued
  <2>8. QED
    BY <2>3, <2>5, <2>6, <2>7, SeqNumbers DEF Earlier
<1>3. QED
  BY <1>1, <1>2 DEF PublishedIsReceived

THEOREM GossipIsReceived ==
  ASSUME SteadyNetwork PROVE GossipSpec => []PublishedIsReceived
<1>1. GossipInit => GossipKept
  BY GossipStarts
<1>2. GossipKept /\ [GossipNext]_gossipVars => GossipKept'
  BY GossipKeeps
<1>3. GossipKept => PublishedIsReceived
  BY NewestIsShown
<1>4. QED
  BY <1>1, <1>2, <1>3, PTL DEF GossipSpec
===========================================================================
