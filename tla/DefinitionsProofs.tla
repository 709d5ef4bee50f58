------------------------ MODULE DefinitionsProofs -------------------------
(***************************************************************************)
(* Proofs about Definitions, for any peers, labels, names and bodies.      *)
(***************************************************************************)
EXTENDS Definitions, SequenceTheorems, TLAPS

-----------------------------------------------------------------------------
(***************************************************************************)
(* The invariants, peer by peer                                            *)
(***************************************************************************)

Rows == [hash : Hashes, name : Names, label : Labels \cup {Network}, old : BOOLEAN]
Events == [label : Labels, text : Texts]
Requested == [kind : {"request"}, hash : Hashes]
Responses == {m \in [kind : {"response"}, hash : Hashes, body : Hashes \cup {Nothing},
                     name : Names \cup {None}] : m.body = ContentOf(m.hash)}
Runs == [defs : Seq(Defs), exports : SUBSET Names]

\* What a program can give to a name.
Given == {Value(d, x) : d \in Seq(Defs), x \in Names}
Outs == UNION {[S -> Given] : S \in SUBSET Names}
Node == [defs : Seq(Defs), pragmas : SUBSET HashImports, exports : SUBSET Names,
         imports : SUBSET Labels, hashes : SUBSET HashImports, out : Outs,
         made : BOOLEAN, run : Runs \cup {None}]

IsGraph(g) == DOMAIN g \subseteq Labels /\ \A l \in DOMAIN g : g[l] \in Node
AreFiles(f) == DOMAIN f \subseteq Labels /\ \A l \in DOMAIN f : f[l] \in Texts
IsStore(s) == DOMAIN s \subseteq Hashes /\ \A h \in DOMAIN s : s[h] = ContentOf(h)

PeerTypes(g, t, s, f, w, e) ==
  /\ IsGraph(g) /\ t \in SUBSET Rows /\ IsStore(s)
  /\ AreFiles(f) /\ w \in SUBSET Labels /\ e \in Seq(Events)

Types ==
  /\ use \in Uses /\ spent \in 0 .. use.most /\ lost \in BOOLEAN
  /\ DOMAIN nodes = Peers /\ DOMAIN rows = Peers /\ DOMAIN store = Peers
  /\ DOMAIN files = Peers /\ DOMAIN touched = Peers /\ DOMAIN events = Peers
  /\ inbox \in [Peers -> SUBSET (Requested \cup Responses)]
  /\ \A p \in Peers :
       PeerTypes(nodes[p], rows[p], store[p], files[p], touched[p], events[p])

\* The file of a node holds its imports; while the watcher has something to
\* report about it, the last report will be of the file as it is.
Reports(e, l) == {i \in 1 .. Len(e) : e[i].label = l}
FileSound(n, onDisk, f, l, w, e) ==
  IF onDisk
  THEN /\ n.hashes \subseteq f.pragmas
       /\ l \notin w => \/ Reports(e, l) = {} /\ f.defs = n.defs
                        \/ \E i \in Reports(e, l) :
                             e[i].text = f /\ \A j \in Reports(e, l) : j <= i
  ELSE n.defs = << >> /\ n.hashes = {} /\ l \notin w /\ Reports(e, l) = {}
FilesSound(g, f, w, e) ==
  \A l \in DOMAIN g : FileSound(g[l], l \in DOMAIN f, f[l], l, w, e)

\* A name is current once at a label, and what is current is on disk.
Single(t) == \A r, s \in Current(t) : r.label = s.label /\ r.name = s.name => r = s
Stored(t, s) == \A r \in Current(t) :
  r.hash \in DOMAIN s /\ (r.label = Network => s[r.hash] = r.hash)
RowsSound(t, s) == Single(t) /\ Stored(t, s)

\* A row whose program has been computed leads to its body.
MadeSound(g, t) == \A r \in Current(t) :
  r.label \in DOMAIN g =>
    (g[r.label].made /\ r.name \in g[r.label].exports \cap DOMAIN g[r.label].out =>
       g[r.label].out[r.name] = r.hash)

\* What the programs of a label can define, whatever is renamed in them; nodes,
\* files, reports of the watcher and rows hold no other body at the label.
HashesOf(defs) == {defs[i].hash : i \in DOMAIN defs}
Programmed(u, p, l) ==
  UNION ({HashesOf(n.defs) : n \in u.code[l]}
           \cup {HashesOf(u.start[p][k].defs) : k \in {l} \cap DOMAIN u.start[p]})
RewritesInto(S) == \A old, new \in Names, h \in S : Rewritten[old][new][h] \in S
OwnHashes(u, p, l) ==
  {h \in Hashes : \A S \in SUBSET Hashes : Programmed(u, p, l) \subseteq S /\ RewritesInto(S) => h \in S}
OwnDefs(u, p, g) == \A l \in DOMAIN g : HashesOf(g[l].defs) \subseteq OwnHashes(u, p, l)
OwnEvents(u, p, e) ==
  \A i \in 1 .. Len(e) : HashesOf(e[i].text.defs) \subseteq OwnHashes(u, p, e[i].label)
OwnRows(u, p, t) == \A r \in Current(t) : r.label # Network => r.hash \in OwnHashes(u, p, r.label)
AllOwn(u, p, g, f, e, t) ==
  OwnDefs(u, p, g) /\ OwnDefs(u, p, f) /\ OwnEvents(u, p, e) /\ OwnRows(u, p, t)
OwnAt(p) == AllOwn(use, p, nodes[p], files[p], events[p], rows[p])
StaysOwn(p) == OwnAt(p) => AllOwn(use, p, nodes'[p], files'[p], events'[p], rows'[p])

-----------------------------------------------------------------------------
(***************************************************************************)
(* Types                                                                   *)
(***************************************************************************)

LEMMA UsesAre ==
  ASSUME use \in Uses
  PROVE  /\ use.most \in Nat /\ DOMAIN use.ops = Peers /\ DOMAIN use.start = Peers
         /\ \A p \in Peers : /\ DOMAIN use.start[p] \subseteq Labels
                             /\ \A l \in DOMAIN use.start[p] : use.start[p][l] \in Programs
         /\ \A l \in Labels : use.code[l] \subseteq Programs
         /\ use.imports \subseteq HashImports
BY ConstantsAssumption

LEMMA UseIs ==
  ASSUME Types
  PROVE  /\ use.most \in Nat /\ DOMAIN use.ops = Peers /\ DOMAIN use.start = Peers
         /\ \A p \in Peers : /\ DOMAIN use.start[p] \subseteq Labels
                             /\ \A l \in DOMAIN use.start[p] : use.start[p][l] \in Programs
         /\ \A l \in Labels : use.code[l] \subseteq Programs
         /\ use.imports \subseteq HashImports
BY UsesAre DEF Types

\* Only one peer's memory and disk change.
OnlyAt(p) == \A q \in Peers \ {p} :
  /\ nodes'[q] = nodes[q] /\ rows'[q] = rows[q] /\ store'[q] = store[q]
  /\ files'[q] = files[q] /\ touched'[q] = touched[q] /\ events'[q] = events[q]

LEMMA TypesAgain ==
  ASSUME Types, NEW p \in Peers, OnlyAt(p), use' = use, spent' \in 0 .. use.most,
         lost' \in BOOLEAN,
         DOMAIN nodes' = Peers /\ DOMAIN rows' = Peers /\ DOMAIN store' = Peers,
         DOMAIN files' = Peers /\ DOMAIN touched' = Peers /\ DOMAIN events' = Peers,
         inbox' \in [Peers -> SUBSET (Requested \cup Responses)],
         PeerTypes(nodes'[p], rows'[p], store'[p], files'[p], touched'[p], events'[p])
  PROVE  Types'
BY DEF Types, OnlyAt

LEMMA NothingOut == [x \in {} |-> None] \in Outs
<1>1. [x \in {} |-> None] \in [{} -> Given]
  OBVIOUS
<1>2. QED
  BY <1>1 DEF Outs

\* Nodes as the operators make them.
LEMMA NodesAre ==
  /\ \A n \in Programs : /\ NewNode(n) \in Node /\ NewNode(n).defs = n.defs
                         /\ NewNode(n).hashes = {} /\ NewNode(n).made = FALSE
  /\ \A n \in Node : /\ Program(n) \in Runs /\ FileOf(n) \in Texts
                     /\ FileOf(n).defs = n.defs /\ n.hashes \subseteq FileOf(n).pragmas
                     /\ Running(n) \in Node /\ Running(n).defs = n.defs
                     /\ Running(n).hashes = n.hashes /\ Running(n).made = n.made
                     /\ Running(n).exports = n.exports /\ Running(n).out = n.out
  /\ \A n \in Programs, f \in Texts :
       /\ Loaded(n, f) \in Node /\ Loaded(n, f).defs = f.defs
       /\ Loaded(n, f).hashes = Readable(f.pragmas) /\ Loaded(n, f).made = FALSE
<1>1. ASSUME NEW n \in Programs
      PROVE  /\ NewNode(n) \in Node /\ NewNode(n).defs = n.defs
             /\ NewNode(n).hashes = {} /\ NewNode(n).made = FALSE
  BY NothingOut DEF NewNode, Node, Programs
<1>2. ASSUME NEW n \in Node
      PROVE  /\ Program(n) \in Runs /\ FileOf(n) \in Texts
             /\ FileOf(n).defs = n.defs /\ n.hashes \subseteq FileOf(n).pragmas
  BY DEF Node, Program, Runs, FileOf, Texts
<1>3. ASSUME NEW n \in Node
      PROVE  /\ Running(n) \in Node /\ Running(n).defs = n.defs
             /\ Running(n).hashes = n.hashes /\ Running(n).made = n.made
             /\ Running(n).exports = n.exports /\ Running(n).out = n.out
  <2>1. PICK r \in Runs : r = Program(n)
    BY <1>2, <1>3
  <2>2. QED
    BY <2>1 DEF Node, Running
<1>4. ASSUME NEW n \in Programs, NEW f \in Texts
      PROVE  /\ Loaded(n, f) \in Node /\ Loaded(n, f).defs = f.defs
             /\ Loaded(n, f).hashes = Readable(f.pragmas) /\ Loaded(n, f).made = FALSE
  <2>1. PICK d \in Seq(Defs), h \in SUBSET HashImports : d = f.defs /\ h = Readable(f.pragmas)
    BY DEF Texts, Readable
  <2>2. PICK m \in Node : m = NewNode(n) /\ m.made = FALSE
    BY <1>1
  <2>3. Loaded(n, f) = [m EXCEPT !.defs = d, !.hashes = h]
    BY <2>1, <2>2 DEF Loaded
  <2>4. QED
    BY <2>1, <2>2, <2>3 DEF Node
<1>5. QED
  BY <1>1, <1>2, <1>3, <1>4

\* A peer starts from its database and its files.
LEMMA StartedIs ==
  ASSUME use \in Uses, NEW p \in Peers, NEW f, AreFiles(f)
  PROVE  /\ IsGraph(Started(p, f)) /\ \A l \in DOMAIN Started(p, f) : Started(p, f)[l].made = FALSE
         /\ FilesSound(Started(p, f), f, {}, << >>)
         /\ OwnDefs(use, p, f) => OwnDefs(use, p, Started(p, f))
<1>. DEFINE n(l) == IF l \in DOMAIN f THEN Loaded(use.start[p][l], f[l])
                    ELSE [NewNode(use.start[p][l]) EXCEPT !.defs = << >>]
<1>1. Started(p, f) = [l \in DOMAIN use.start[p] |-> Running(n(l))]
  BY DEF Started
<1>2. ASSUME NEW l \in DOMAIN use.start[p]
      PROVE  /\ n(l) \in Node /\ n(l).made = FALSE
             /\ IF l \in DOMAIN f THEN n(l).defs = f[l].defs /\ n(l).hashes \subseteq f[l].pragmas
                                  ELSE n(l).defs = << >> /\ n(l).hashes = {}
  <2>1. PICK s \in Programs : s = use.start[p][l]
    BY UsesAre
  <2>2. CASE l \in DOMAIN f
    <3>1. f[l] \in Texts
      BY <2>2 DEF AreFiles
    <3>2. n(l) = Loaded(s, f[l])
      BY <2>1, <2>2
    <3>3. Readable(f[l].pragmas) \subseteq f[l].pragmas
      BY DEF Readable
    <3>4. QED
      BY <2>2, <3>1, <3>2, <3>3, NodesAre
  <2>3. CASE l \notin DOMAIN f
    <3>1. PICK m \in Node : m = NewNode(s) /\ m.made = FALSE /\ m.hashes = {}
      BY NodesAre
    <3>2. n(l) = [m EXCEPT !.defs = << >>]
      BY <2>1, <2>3, <3>1
    <3>3. << >> \in Seq(Defs)
      OBVIOUS
    <3>4. QED
      <4>1. /\ n(l) \in Node /\ n(l).defs = << >> /\ n(l).made = m.made
            /\ n(l).hashes = m.hashes
        BY <3>2, <3>3 DEF Node
      <4>2. QED
        BY <2>3, <3>1, <4>1
  <2>4. QED
    BY <2>2, <2>3
<1>. HIDE DEF n
<1>3. \A l \in DOMAIN use.start[p] :
        /\ Running(n(l)) \in Node /\ Running(n(l)).made = FALSE
        /\ Running(n(l)).defs = n(l).defs /\ Running(n(l)).hashes = n(l).hashes
  BY <1>2, NodesAre
<1>4. DOMAIN use.start[p] \subseteq Labels
  BY UsesAre
<1>5. \A l : Reports(<< >>, l) = {}
  BY DEF Reports
<1>6. FilesSound(Started(p, f), f, {}, << >>)
  <2>1. ASSUME NEW l \in DOMAIN use.start[p]
        PROVE  FileSound(Running(n(l)), l \in DOMAIN f, f[l], l, {}, << >>)
    BY <1>2, <1>3, <1>5 DEF FileSound
  <2>2. QED
    BY <1>1, <2>1 DEF FilesSound
<1>7. ASSUME OwnDefs(use, p, f) PROVE OwnDefs(use, p, Started(p, f))
  <2>1. ASSUME NEW l \in DOMAIN use.start[p]
        PROVE  HashesOf(Running(n(l)).defs) \subseteq OwnHashes(use, p, l)
    <3>1. CASE l \in DOMAIN f
      BY <1>2, <1>3, <1>7, <3>1 DEF OwnDefs
    <3>2. CASE l \notin DOMAIN f
      <4>1. HashesOf(<< >>) = {}
        <5>1. DOMAIN << >> = {}
          OBVIOUS
        <5>2. QED
          BY <5>1 DEF HashesOf
      <4>2. Running(n(l)).defs = << >>
        BY <1>2, <1>3, <3>2
      <4>3. QED
        BY <4>1, <4>2
    <3>3. QED
      BY <3>1, <3>2
  <2>2. QED
    BY <1>1, <2>1 DEF OwnDefs
<1>8. QED
  BY <1>1, <1>3, <1>4, <1>6, <1>7 DEF IsGraph

-----------------------------------------------------------------------------
(***************************************************************************)
(* The name database and the definition files                              *)
(***************************************************************************)

LEMMA DefsAre ==
  ASSUME NEW defs \in Seq(Defs)
  PROVE  /\ DOMAIN defs = 1 .. Len(defs) /\ Len(defs) \in Nat
         /\ \A i \in DOMAIN defs : defs[i] \in Defs /\ defs[i].hash \in Hashes
                                   /\ defs[i].name \in Names /\ i \in Nat
<1>1. DOMAIN defs = 1 .. Len(defs) /\ Len(defs) \in Nat
  OBVIOUS
<1>2. \A i \in DOMAIN defs : defs[i] \in Defs
  OBVIOUS
<1>3. \A d \in Defs : d.hash \in Hashes /\ d.name \in Names
  BY DEF Defs
<1>4. \A i \in DOMAIN defs : i \in Nat
  BY <1>1
<1>5. QED
  BY <1>1, <1>2, <1>3, <1>4

LEMMA ProgrammedAreOwn ==
  ASSUME NEW u, NEW p, NEW l, NEW defs \in Seq(Defs), HashesOf(defs) \subseteq Programmed(u, p, l)
  PROVE  HashesOf(defs) \subseteq OwnHashes(u, p, l)
<1>1. HashesOf(defs) \subseteq Hashes
  BY DefsAre DEF HashesOf
<1>2. QED
  BY <1>1 DEF OwnHashes

LEMMA RewrittenAreOwn ==
  ASSUME NEW u, NEW p, NEW l, NEW old \in Names, NEW new \in Names, NEW h \in OwnHashes(u, p, l)
  PROVE  Rewritten[old][new][h] \in OwnHashes(u, p, l)
<1>1. h \in Hashes
  BY DEF OwnHashes
<1>2. Rewritten[old][new][h] \in Hashes
  <2>1. Rewritten[old][new] \in [Hashes -> Hashes]
    BY ConstantsAssumption
  <2>2. QED
    BY <1>1, <2>1
<1>3. ASSUME NEW S \in SUBSET Hashes, Programmed(u, p, l) \subseteq S, RewritesInto(S)
      PROVE  Rewritten[old][new][h] \in S
  <2>1. h \in S
    BY <1>3 DEF OwnHashes
  <2>2. QED
    BY <1>3, <2>1 DEF RewritesInto
<1>4. QED
  BY <1>2, <1>3 DEF OwnHashes

\* A row of a program at a label: the last one of its name.
LastOf(r, l, defs) ==
  /\ r.label = l
  /\ \E i \in DOMAIN defs : /\ r.hash = defs[i].hash /\ r.name = defs[i].name
                            /\ r = Row(defs[i], l, FALSE)
                            /\ \A j \in DOMAIN defs : defs[j].name = r.name => j <= i

\* Every row is still there, and as it was if it was superseded.
Marked(t, u) == \A r \in t : \E s \in u : s.hash = r.hash /\ s.label = r.label /\ (r.old => s = r)

\* The rows that are current when the definitions of a node are registered.
LEMMA NodeRegisteredIs ==
  ASSUME NEW t \in SUBSET Rows, NEW l \in Labels, NEW defs \in Seq(Defs)
  PROVE  /\ NodeRegistered(t, l, defs) \in SUBSET Rows
         /\ \A r \in Current(NodeRegistered(t, l, defs)) :
              \/ r \in Current(t) /\ r.label # l
              \/ LastOf(r, l, defs)
         /\ Marked(t, NodeRegistered(t, l, defs))
<1>. DEFINE R == NodeRegistered(t, l, defs)
            marked(r) == IF r.label = l THEN [r EXCEPT !.old = TRUE] ELSE r
            old(i) == \E j \in DOMAIN defs : j > i /\ defs[j].name = defs[i].name
<1>1. \A r \in t : /\ marked(r) \in Rows /\ marked(r).hash = r.hash /\ marked(r).label = r.label
                   /\ (r.old => marked(r) = r) /\ (r.label = l => marked(r).old)
  BY DEF Rows
<1>2. ASSUME NEW i \in DOMAIN defs
      PROVE  /\ Row(defs[i], l, old(i)) \in Rows /\ Row(defs[i], l, old(i)).label = l
             /\ Row(defs[i], l, old(i)).old = old(i)
             /\ Row(defs[i], l, old(i)).hash = defs[i].hash
             /\ Row(defs[i], l, old(i)).name = defs[i].name
  <2>1. PICK b \in BOOLEAN : b = old(i)
    OBVIOUS
  <2>2. Row(defs[i], l, b) \in Rows
    BY DefsAre DEF Row, Rows
  <2>3. QED
    BY <2>1, <2>2 DEF Row
<1>3. \A r : r \in R <=> (\E q \in t : r = marked(q)) \/ (\E i \in DOMAIN defs : r = Row(defs[i], l, old(i)))
  BY DEF NodeRegistered
<1>. HIDE DEF R, marked, old
<1>4. R \subseteq Rows
  BY <1>1, <1>2, <1>3
<1>5. ASSUME NEW r \in R, ~r.old
      PROVE  \/ r \in Current(t) /\ r.label # l
             \/ LastOf(r, l, defs)
  <2>1. CASE \E q \in t : r = marked(q)
    <3>1. PICK q \in t : r = marked(q)
      BY <2>1
    <3>2. q.label # l
      BY <1>1, <1>5, <3>1
    <3>3. r = q
      BY <3>1, <3>2 DEF marked
    <3>4. QED
      BY <1>5, <3>2, <3>3 DEF Current
  <2>2. ASSUME NEW i \in DOMAIN defs, r = Row(defs[i], l, old(i))
        PROVE  LastOf(r, l, defs)
    <3>1. r.label = l /\ r.hash = defs[i].hash /\ r.name = defs[i].name /\ ~old(i)
      BY <1>2, <1>5, <2>2
    <3>2. r = Row(defs[i], l, FALSE)
      <4>1. old(i) = FALSE
        BY <3>1
      <4>2. QED
        BY <2>2, <4>1
    <3>3. ASSUME NEW j \in DOMAIN defs, defs[j].name = r.name PROVE j <= i
      <4>1. i \in Nat /\ j \in Nat
        BY DefsAre
      <4>2. ~(j > i)
        BY <3>1, <3>3 DEF old
      <4>3. QED
        BY <4>1, <4>2
    <3>4. QED
      BY <3>1, <3>2, <3>3 DEF LastOf
  <2>3. QED
    BY <1>3, <2>1, <2>2
<1>6. ASSUME NEW r \in t
      PROVE  \E s \in R : s.hash = r.hash /\ s.label = r.label /\ (r.old => s = r)
  <2>1. marked(r) \in R
    BY <1>3
  <2>2. QED
    BY <1>1, <2>1
<1>7. QED
  BY <1>4, <1>5, <1>6 DEF Current, Marked, R

LEMMA OverIs ==
  ASSUME NEW f, NEW g
  PROVE  /\ DOMAIN Over(f, g) = DOMAIN f \cup DOMAIN g
         /\ \A x \in DOMAIN f : Over(f, g)[x] = f[x]
         /\ \A x \in DOMAIN g : x \notin DOMAIN f => Over(f, g)[x] = g[x]
BY DEF Over

LEMMA BodiesSavedIs ==
  ASSUME NEW s, IsStore(s), NEW defs \in Seq(Defs)
  PROVE  /\ IsStore(BodiesSaved(s, defs))
         /\ \A h \in DOMAIN s : h \in DOMAIN BodiesSaved(s, defs) /\ BodiesSaved(s, defs)[h] = s[h]
         /\ \A i \in DOMAIN defs : defs[i].hash \in DOMAIN BodiesSaved(s, defs)
<1>. DEFINE c == [h \in {defs[i].hash : i \in DOMAIN defs} |-> ContentOf(h)]
<1>1. BodiesSaved(s, defs) = Over(s, c)
  BY DEF BodiesSaved, Saved
<1>2. DOMAIN c \subseteq Hashes /\ \A h \in DOMAIN c : c[h] = ContentOf(h)
  BY DefsAre
<1>3. \A i \in DOMAIN defs : defs[i].hash \in DOMAIN c
  OBVIOUS
<1>. HIDE DEF c
<1>4. /\ DOMAIN Over(s, c) = DOMAIN s \cup DOMAIN c
      /\ \A h \in DOMAIN s : Over(s, c)[h] = s[h]
      /\ \A h \in DOMAIN c : h \notin DOMAIN s => Over(s, c)[h] = c[h]
  BY OverIs
<1>5. QED
  BY <1>1, <1>2, <1>3, <1>4 DEF IsStore

\* What is registered and saved is sound.
LEMMA RegisteredIsSound ==
  ASSUME NEW t \in SUBSET Rows, NEW s, IsStore(s), NEW l \in Labels, NEW defs \in Seq(Defs),
         \A r, q \in Current(t) : r.label # l /\ r.label = q.label /\ r.name = q.name => r = q,
         Stored(t, s)
  PROVE  RowsSound(NodeRegistered(t, l, defs), BodiesSaved(s, defs))
<1>. DEFINE R == NodeRegistered(t, l, defs)
            S == BodiesSaved(s, defs)
<1>1. \A r \in Current(R) :
             \/ r \in Current(t) /\ r.label # l
             \/ LastOf(r, l, defs)
  BY NodeRegisteredIs
<1>2. Single(R)
  <2>1. ASSUME NEW r \in Current(R), NEW q \in Current(R), r.label = q.label, r.name = q.name
        PROVE  r = q
    <3>1. CASE r.label # l
      BY <1>1, <2>1, <3>1 DEF LastOf
    <3>2. CASE r.label = l
      <4>1. PICK i \in DOMAIN defs : /\ r = Row(defs[i], l, FALSE) /\ r.name = defs[i].name
                                     /\ \A j \in DOMAIN defs : defs[j].name = r.name => j <= i
        BY <1>1, <3>2 DEF LastOf
      <4>2. PICK k \in DOMAIN defs : /\ q = Row(defs[k], l, FALSE) /\ q.name = defs[k].name
                                     /\ \A j \in DOMAIN defs : defs[j].name = q.name => j <= k
        BY <1>1, <2>1, <3>2 DEF LastOf
      <4>3. i <= k /\ k <= i /\ i \in Nat /\ k \in Nat
        BY <2>1, <4>1, <4>2, DefsAre
      <4>4. i = k
        BY <4>3
      <4>5. QED
        BY <4>1, <4>2, <4>4
    <3>3. QED
      BY <3>1, <3>2
  <2>2. QED
    BY <2>1 DEF Single
<1>3. Stored(R, S)
  <2>1. ASSUME NEW r \in Current(R)
        PROVE  r.hash \in DOMAIN S /\ (r.label = Network => S[r.hash] = r.hash)
    <3>1. CASE r \in Current(t)
      BY <3>1, BodiesSavedIs DEF Stored
    <3>2. CASE r.label = l
      <4>1. l # Network
        BY ConstantsAssumption
      <4>2. QED
        BY <1>1, <3>2, <4>1, BodiesSavedIs DEF LastOf
    <3>3. QED
      BY <1>1, <3>1, <3>2 DEF LastOf
  <2>2. QED
    BY <2>1 DEF Stored
<1>4. QED
  BY <1>2, <1>3 DEF RowsSound

\* A definition that comes from the network.
LEMMA RegisteredIs ==
  ASSUME NEW t \in SUBSET Rows, NEW s, IsStore(s), NEW m \in Responses, m.body = m.hash,
         m.name # None
  PROVE  /\ Registered(t, Network, m) \in SUBSET Rows
         /\ \A r \in Current(Registered(t, Network, m)) :
              \/ r \in Current(t) /\ ~(r.label = Network /\ r.name = m.name)
              \/ r = Row(m, Network, FALSE)
         /\ Row(m, Network, FALSE).hash = m.hash /\ Row(m, Network, FALSE).label = Network
         /\ Row(m, Network, FALSE).name = m.name
         /\ Marked(t, Registered(t, Network, m))
<1>. DEFINE R == Registered(t, Network, m)
            marked(r) == IF r.label = Network /\ r.name = m.name THEN [r EXCEPT !.old = TRUE] ELSE r
            new == Row(m, Network, FALSE)
<1>1. \A r \in t : /\ marked(r) \in Rows /\ marked(r).hash = r.hash /\ marked(r).label = r.label
                   /\ (r.old => marked(r) = r)
                   /\ (~marked(r).old => marked(r) = r /\ ~(r.label = Network /\ r.name = m.name))
  BY DEF Rows
<1>2. new \in Rows /\ new.hash = m.hash /\ new.label = Network /\ new.name = m.name
  BY DEF Row, Rows, Responses
<1>3. \A r : r \in R <=> (\E q \in t : r = marked(q)) \/ r = new
  BY DEF Registered
<1>. HIDE DEF R, marked, new
<1>4. R \subseteq Rows
  BY <1>1, <1>2, <1>3
<1>5. ASSUME NEW r \in R, ~r.old
      PROVE  (r \in Current(t) /\ ~(r.label = Network /\ r.name = m.name)) \/ r = new
  <2>1. CASE \E q \in t : r = marked(q)
    <3>1. PICK q \in t : r = marked(q)
      BY <2>1
    <3>2. r = q /\ ~(q.label = Network /\ q.name = m.name)
      BY <1>1, <1>5, <3>1
    <3>3. QED
      BY <1>5, <3>2 DEF Current
  <2>2. QED
    BY <1>3, <2>1
<1>6. ASSUME NEW r \in t
      PROVE  \E q \in R : q.hash = r.hash /\ q.label = r.label /\ (r.old => q = r)
  <2>1. marked(r) \in R
    BY <1>3
  <2>2. QED
    BY <1>1, <2>1
<1>7. QED
  BY <1>2, <1>4, <1>5, <1>6 DEF Current, Marked, R, new

LEMMA SavedResponseIs ==
  ASSUME NEW s, IsStore(s), NEW m \in Responses, m.body = m.hash
  PROVE  LET S == Saved(s, [h \in {m.hash} |-> m.body])
         IN  /\ IsStore(S) /\ m.hash \in DOMAIN S /\ S[m.hash] = m.hash
             /\ \A h \in DOMAIN s : h \in DOMAIN S /\ S[h] = s[h]
<1>. DEFINE c == [h \in {m.hash} |-> m.body]
            S == Saved(s, c)
<1>1. m.hash \in Hashes /\ m.body = ContentOf(m.hash)
  BY DEF Responses
<1>2. /\ DOMAIN S = DOMAIN s \cup {m.hash} /\ \A h \in DOMAIN s : S[h] = s[h]
      /\ m.hash \notin DOMAIN s => S[m.hash] = m.body
  <2>1. DOMAIN c = {m.hash} /\ c[m.hash] = m.body
    OBVIOUS
  <2>. HIDE DEF c
  <2>2. /\ DOMAIN Over(s, c) = DOMAIN s \cup DOMAIN c
        /\ \A h \in DOMAIN s : Over(s, c)[h] = s[h]
        /\ \A h \in DOMAIN c : h \notin DOMAIN s => Over(s, c)[h] = c[h]
    BY OverIs
  <2>3. QED
    BY <2>1, <2>2 DEF Saved
<1>. HIDE DEF c, S
<1>3. \A h \in DOMAIN s : s[h] = ContentOf(h)
  BY DEF IsStore
<1>4. IsStore(S) /\ S[m.hash] = m.hash
  BY <1>1, <1>2, <1>3 DEF IsStore
<1>5. QED
  BY <1>2, <1>4 DEF S, c

LEMMA ReceivedIsSound ==
  ASSUME NEW t \in SUBSET Rows, NEW s, IsStore(s), NEW m \in Responses, m.body = m.hash,
         RowsSound(t, s)
  PROVE  RowsSound(IF m.name = None THEN t ELSE Registered(t, Network, m),
                   Saved(s, [h \in {m.hash} |-> m.body]))
<1>. DEFINE S == Saved(s, [h \in {m.hash} |-> m.body])
<1>1. /\ IsStore(S) /\ m.hash \in DOMAIN S /\ S[m.hash] = m.hash
      /\ \A h \in DOMAIN s : h \in DOMAIN S /\ S[h] = s[h]
  BY SavedResponseIs
<1>. HIDE DEF S
<1>2. RowsSound(t, S)
  BY <1>1 DEF RowsSound, Stored
<1>3. CASE m.name # None
  <2>. DEFINE R == Registered(t, Network, m)  new == Row(m, Network, FALSE)
  <2>1. /\ \A r \in Current(R) :
             (r \in Current(t) /\ ~(r.label = Network /\ r.name = m.name)) \/ r = new
        /\ new.hash = m.hash /\ new.label = Network /\ new.name = m.name
    BY <1>3, RegisteredIs
  <2>. HIDE DEF R, new
  <2>2. RowsSound(R, S)
    BY <1>1, <1>2, <2>1 DEF RowsSound, Single, Stored
  <2>3. QED
    BY <1>3, <2>2 DEF R, S
<1>4. QED
  BY <1>2, <1>3 DEF S

\* A rename changes names of current rows only.
LEMMA RowsRenamedIs ==
  ASSUME NEW t \in SUBSET Rows, NEW h, NEW old, NEW new \in Names, NEW canvas
  PROVE  /\ RowsRenamed(t, h, old, new, canvas) \in SUBSET Rows
         /\ \A r \in Current(RowsRenamed(t, h, old, new, canvas)) : \E q \in Current(t) :
              /\ r.hash = q.hash /\ r.label = q.label
              /\ \/ r = q
                 \/ /\ q.hash = h /\ q.name = old /\ Place(q.label) = canvas
                    /\ r = [q EXCEPT !.name = new] /\ r.name = new
         /\ Marked(t, RowsRenamed(t, h, old, new, canvas))
<1>. DEFINE R == RowsRenamed(t, h, old, new, canvas)
            hit(r) == ~r.old /\ r.hash = h /\ r.name = old /\ Place(r.label) = canvas
            named(r) == IF hit(r) THEN [r EXCEPT !.name = new] ELSE r
<1>1. \A r \in t : /\ named(r) \in Rows /\ named(r).hash = r.hash /\ named(r).label = r.label
                   /\ named(r).old = r.old /\ (r.old => named(r) = r)
                   /\ \/ named(r) = r
                      \/ hit(r) /\ named(r) = [r EXCEPT !.name = new] /\ named(r).name = new
  BY DEF Rows
<1>2. \A r : r \in R <=> \E q \in t : r = named(q)
  BY DEF RowsRenamed
<1>. HIDE DEF R, named
<1>3. R \subseteq Rows
  BY <1>1, <1>2
<1>4. ASSUME NEW r \in R, ~r.old
      PROVE  \E q \in Current(t) :
               /\ r.hash = q.hash /\ r.label = q.label
               /\ \/ r = q
                  \/ /\ q.hash = h /\ q.name = old /\ Place(q.label) = canvas
                     /\ r = [q EXCEPT !.name = new] /\ r.name = new
  <2>1. PICK q \in t : r = named(q)
    BY <1>2
  <2>2. q \in Current(t)
    BY <1>1, <1>4, <2>1 DEF Current
  <2>3. QED
    BY <1>1, <2>1, <2>2
<1>5. ASSUME NEW r \in t
      PROVE  \E q \in R : q.hash = r.hash /\ q.label = r.label /\ (r.old => q = r)
  BY <1>1, <1>2
<1>6. QED
  BY <1>3, <1>4, <1>5 DEF Current, Marked, R

-----------------------------------------------------------------------------
(***************************************************************************)
(* Nodes and their files                                                   *)
(***************************************************************************)

Base ==
  /\ Types
  /\ \A p \in Peers : FilesSound(nodes[p], files[p], touched[p], events[p])

LEMMA BaseAgain ==
  ASSUME Base, Types', NEW p \in Peers, OnlyAt(p),
         FilesSound(nodes'[p], files'[p], touched'[p], events'[p])
  PROVE  Base'
BY DEF Base, OnlyAt

LEMMA PeerIs ==
  ASSUME Base, NEW p \in Peers
  PROVE  /\ PeerTypes(nodes[p], rows[p], store[p], files[p], touched[p], events[p])
         /\ FilesSound(nodes[p], files[p], touched[p], events[p])
BY DEF Base, Types

\* A node and its file are written.
LEMMA SavedIsSound ==
  ASSUME NEW g, NEW f, NEW w \in SUBSET Labels, NEW e, FilesSound(g, f, w, e), IsGraph(g),
         AreFiles(f), NEW l \in Labels, NEW n \in Node
  PROVE  /\ IsGraph(With(g, l, n)) /\ AreFiles(With(f, l, FileOf(n)))
         /\ FilesSound(With(g, l, n), With(f, l, FileOf(n)), w \cup {l}, e)
<1>. DEFINE G == With(g, l, n)
            F == With(f, l, FileOf(n))
<1>1. /\ DOMAIN G = DOMAIN g \cup {l} /\ G[l] = n /\ \A x \in DOMAIN g : x # l => G[x] = g[x]
      /\ DOMAIN F = DOMAIN f \cup {l} /\ F[l] = FileOf(n)
      /\ \A x \in DOMAIN f : x # l => F[x] = f[x]
  <2>1. DOMAIN G = DOMAIN g \cup {l} /\ G[l] = n /\ \A x \in DOMAIN g : x # l => G[x] = g[x]
    BY DEF With
  <2>2. /\ DOMAIN F = DOMAIN f \cup {l} /\ F[l] = FileOf(n)
        /\ \A x \in DOMAIN f : x # l => F[x] = f[x]
    BY DEF With
  <2>3. QED
    BY <2>1, <2>2
<1>. HIDE DEF G, F
<1>2. FileOf(n) \in Texts /\ n.hashes \subseteq FileOf(n).pragmas
  BY NodesAre
<1>3. IsGraph(G) /\ AreFiles(F)
  BY <1>1, <1>2 DEF IsGraph, AreFiles
<1>4. ASSUME NEW x \in DOMAIN G
      PROVE  FileSound(G[x], x \in DOMAIN F, F[x], x, w \cup {l}, e)
  <2>1. CASE x = l
    BY <1>1, <1>2, <2>1 DEF FileSound
  <2>2. CASE x # l
    <3>1. x \in DOMAIN g /\ G[x] = g[x] /\ (x \in DOMAIN F <=> x \in DOMAIN f)
      BY <1>1, <2>2
    <3>2. FileSound(g[x], x \in DOMAIN f, f[x], x, w, e)
      BY <3>1 DEF FilesSound
    <3>3. CASE x \in DOMAIN f
      <4>1. F[x] = f[x]
        BY <1>1, <2>2, <3>3
      <4>2. QED
        BY <2>2, <3>1, <3>2, <3>3, <4>1 DEF FileSound
    <3>4. CASE x \notin DOMAIN f
      BY <2>2, <3>1, <3>2, <3>4 DEF FileSound
    <3>5. QED
      BY <3>3, <3>4
  <2>3. QED
    BY <2>1, <2>2
<1>5. QED
  BY <1>3, <1>4 DEF FilesSound, G, F

\* A node is changed, but not what is in its file.
LEMMA ChangedIsSound ==
  ASSUME NEW g, NEW f, NEW w, NEW e, FilesSound(g, f, w, e), IsGraph(g),
         NEW l \in DOMAIN g, NEW n \in Node, n.defs = g[l].defs, n.hashes = g[l].hashes
  PROVE  IsGraph(With(g, l, n)) /\ FilesSound(With(g, l, n), f, w, e)
<1>. DEFINE G == With(g, l, n)
<1>1. DOMAIN G = DOMAIN g /\ G[l] = n /\ \A x \in DOMAIN g : x # l => G[x] = g[x]
  <2>1. DOMAIN G = DOMAIN g \cup {l} /\ G[l] = n /\ \A x \in DOMAIN g : x # l => G[x] = g[x]
    BY DEF With
  <2>2. QED
    BY <2>1
<1>. HIDE DEF G
<1>2. IsGraph(G)
  BY <1>1 DEF IsGraph
<1>3. \A x \in DOMAIN G : FileSound(G[x], x \in DOMAIN f, f[x], x, w, e)
  BY <1>1 DEF FilesSound, FileSound
<1>4. QED
  BY <1>2, <1>3 DEF FilesSound, G

\* What a command leaves alone.
LEMMA CommandIs ==
  ASSUME Base, NEW p \in Peers, NEW op, Command(p, op)
  PROVE  /\ use' = use /\ spent' \in 0 .. use.most /\ lost' = lost /\ lost' \in BOOLEAN
         /\ events' = events
         /\ inbox' = inbox /\ inbox' \in [Peers -> SUBSET (Requested \cup Responses)]
BY UseIs DEF Base, Types, Command, net

\* What is registered is of the type of the rest.
LEMMA DefinitionsAreSaved ==
  ASSUME Base, NEW p \in Peers, NEW l \in Labels, NEW defs \in Seq(Defs),
         SaveDefinitions(p, l, defs)
  PROVE  /\ rows'[p] = NodeRegistered(rows[p], l, defs) /\ rows'[p] \in SUBSET Rows
         /\ store'[p] = BodiesSaved(store[p], defs) /\ IsStore(store'[p])
         /\ DOMAIN rows' = Peers /\ DOMAIN store' = Peers
         /\ \A q \in Peers \ {p} : rows'[q] = rows[q] /\ store'[q] = store[q]
<1>1. /\ DOMAIN rows = Peers /\ DOMAIN store = Peers
      /\ rows[p] \in SUBSET Rows /\ IsStore(store[p])
  BY PeerIs DEF Base, Types, PeerTypes
<1>2. /\ rows' = [rows EXCEPT ![p] = NodeRegistered(rows[p], l, defs)]
      /\ store' = [store EXCEPT ![p] = BodiesSaved(store[p], defs)]
  BY DEF SaveDefinitions
<1>3. NodeRegistered(rows[p], l, defs) \in SUBSET Rows /\ IsStore(BodiesSaved(store[p], defs))
  BY <1>1, NodeRegisteredIs, BodiesSavedIs
<1>4. QED
  BY <1>1, <1>2, <1>3

\* Rows and definition files stay, or the node's definitions are registered.
Registers(p, l, n) == \/ UNCHANGED <<rows, store>>
                      \/ SaveDefinitions(p, l, n.defs)

LEMMA RowsAndStore ==
  ASSUME Base, NEW p \in Peers, NEW l \in Labels, NEW n \in Node, Registers(p, l, n)
  PROVE  /\ rows'[p] \in SUBSET Rows /\ IsStore(store'[p])
         /\ DOMAIN rows' = Peers /\ DOMAIN store' = Peers
         /\ \A q \in Peers \ {p} : rows'[q] = rows[q] /\ store'[q] = store[q]
         /\ \/ rows'[p] = rows[p] /\ store'[p] = store[p]
            \/ /\ rows'[p] = NodeRegistered(rows[p], l, n.defs)
               /\ store'[p] = BodiesSaved(store[p], n.defs)
<1>1. CASE UNCHANGED <<rows, store>>
  BY <1>1, PeerIs DEF Base, Types, PeerTypes
<1>2. CASE SaveDefinitions(p, l, n.defs)
  <2>1. n.defs \in Seq(Defs)
    BY DEF Node
  <2>2. QED
    BY <1>2, <2>1, DefinitionsAreSaved
<1>3. QED
  BY <1>1, <1>2 DEF Registers

LEMMA OwnIsKept ==
  ASSUME Base, NEW p \in Peers, NEW l \in Labels, NEW n \in Node, OwnAt(p),
         HashesOf(n.defs) \subseteq OwnHashes(use, p, l),
         nodes'[p] = With(nodes[p], l, n), events'[p] = events[p], Registers(p, l, n),
         (files'[p] = files[p]) \/ files'[p] = With(files[p], l, FileOf(n))
  PROVE  AllOwn(use, p, nodes'[p], files'[p], events'[p], rows'[p])
<1>1. OwnDefs(use, p, nodes'[p])
  <2>1. PICK g : g = nodes'[p]
    OBVIOUS
  <2>2. DOMAIN g = DOMAIN nodes[p] \cup {l} /\ g[l] = n /\ \A x \in DOMAIN g : x # l => g[x] = nodes[p][x]
    BY <2>1 DEF With
  <2>3. QED
    BY <2>1, <2>2 DEF OwnAt, AllOwn, OwnDefs
<1>2. OwnDefs(use, p, files'[p])
  <2>1. CASE files'[p] = With(files[p], l, FileOf(n))
    <3>1. PICK text : text = FileOf(n) /\ text.defs = n.defs
      BY NodesAre
    <3>2. PICK f : f = files'[p]
      OBVIOUS
    <3>3. /\ DOMAIN f = DOMAIN files[p] \cup {l} /\ f[l] = text
          /\ \A x \in DOMAIN f : x # l => f[x] = files[p][x]
      BY <2>1, <3>1, <3>2 DEF With
    <3>4. QED
      BY <3>1, <3>2, <3>3 DEF OwnAt, AllOwn, OwnDefs
  <2>2. QED
    BY <2>1 DEF OwnAt, AllOwn
<1>3. OwnRows(use, p, rows'[p])
  <2>1. n.defs \in Seq(Defs)
    BY DEF Node
  <2>2. \A r \in Current(rows'[p]) : r \in Current(rows[p]) \/ LastOf(r, l, n.defs)
    BY <2>1, RowsAndStore, NodeRegisteredIs, PeerIs DEF PeerTypes
  <2>3. QED
    BY <2>2 DEF OwnAt, AllOwn, OwnRows, LastOf, HashesOf
<1>4. QED
  BY <1>1, <1>2, <1>3 DEF OwnAt, AllOwn

\* A command that writes a node, its file and perhaps its definitions.
LEMMA SavedStep ==
  ASSUME Base, NEW p \in Peers, NEW op, Command(p, op), NEW l \in Labels, NEW n \in Node,
         SetNode(p, l, n), SaveFile(p, l, n), Registers(p, l, n),
         OwnAt(p) => HashesOf(n.defs) \subseteq OwnHashes(use, p, l)
  PROVE  Base' /\ OnlyAt(p) /\ nodes'[p] = With(nodes[p], l, n) /\ StaysOwn(p)
<1>1. /\ IsGraph(nodes[p]) /\ AreFiles(files[p]) /\ touched[p] \in SUBSET Labels
      /\ events[p] \in Seq(Events)
      /\ FilesSound(nodes[p], files[p], touched[p], events[p])
      /\ DOMAIN nodes = Peers /\ DOMAIN files = Peers /\ DOMAIN touched = Peers
      /\ DOMAIN events = Peers
  BY PeerIs DEF Base, Types, PeerTypes
<1>2. PICK text \in Texts : text = FileOf(n)
  BY NodesAre
<1>3. /\ nodes' = [nodes EXCEPT ![p] = With(nodes[p], l, n)]
      /\ files' = [files EXCEPT ![p] = With(files[p], l, text)]
      /\ touched' = [touched EXCEPT ![p] = touched[p] \cup {l}]
  BY <1>2 DEF SetNode, SaveFile
<1>4. /\ nodes'[p] = With(nodes[p], l, n) /\ files'[p] = With(files[p], l, text)
      /\ touched'[p] = touched[p] \cup {l}
      /\ DOMAIN nodes' = Peers /\ DOMAIN files' = Peers /\ DOMAIN touched' = Peers
      /\ \A q \in Peers \ {p} : /\ nodes'[q] = nodes[q] /\ files'[q] = files[q]
                                /\ touched'[q] = touched[q]
  BY <1>1, <1>3
<1>5. /\ use' = use /\ spent' \in 0 .. use.most /\ lost' \in BOOLEAN /\ events' = events
      /\ inbox' \in [Peers -> SUBSET (Requested \cup Responses)]
  BY CommandIs
<1>6. /\ rows'[p] \in SUBSET Rows /\ IsStore(store'[p])
      /\ DOMAIN rows' = Peers /\ DOMAIN store' = Peers
      /\ \A q \in Peers \ {p} : rows'[q] = rows[q] /\ store'[q] = store[q]
  BY RowsAndStore
<1>7. OnlyAt(p)
  BY <1>4, <1>5, <1>6 DEF OnlyAt
<1>8. /\ IsGraph(With(nodes[p], l, n)) /\ AreFiles(With(files[p], l, text))
      /\ FilesSound(With(nodes[p], l, n), With(files[p], l, text), touched[p] \cup {l}, events[p])
  BY <1>1, <1>2, SavedIsSound
<1>9. Types'
  <2>1. PeerTypes(nodes'[p], rows'[p], store'[p], files'[p], touched'[p], events'[p])
    <3>1. touched'[p] \in SUBSET Labels
      BY <1>1, <1>4
    <3>2. QED
      BY <1>1, <1>4, <1>5, <1>6, <1>8, <3>1 DEF PeerTypes
  <2>2. DOMAIN events' = Peers
    BY <1>1, <1>5
  <2>3. QED
    BY <1>4, <1>5, <1>6, <1>7, <2>1, <2>2, TypesAgain DEF Base
<1>10. FilesSound(nodes'[p], files'[p], touched'[p], events'[p])
  BY <1>4, <1>5, <1>8
<1>11. StaysOwn(p)
  BY <1>2, <1>4, <1>5, OwnIsKept DEF StaysOwn
<1>12. QED
  BY <1>4, <1>7, <1>9, <1>10, <1>11, BaseAgain

\* A step that changes a node, but not what is in its file.
LEMMA ChangedStep ==
  ASSUME Base, NEW p \in Peers, NEW l \in DOMAIN nodes[p], NEW n \in Node,
         n.defs = nodes[p][l].defs, n.hashes = nodes[p][l].hashes,
         SetNode(p, l, n), Registers(p, l, n), UNCHANGED <<use, files, touched, events, inbox, lost>>,
         spent' \in 0 .. use.most
  PROVE  Base' /\ OnlyAt(p) /\ nodes'[p] = With(nodes[p], l, n) /\ StaysOwn(p)
<1>1. /\ IsGraph(nodes[p]) /\ AreFiles(files[p]) /\ touched[p] \in SUBSET Labels
      /\ events[p] \in Seq(Events)
      /\ FilesSound(nodes[p], files[p], touched[p], events[p])
      /\ DOMAIN nodes = Peers /\ DOMAIN files = Peers /\ DOMAIN touched = Peers
      /\ DOMAIN events = Peers
      /\ lost \in BOOLEAN /\ inbox \in [Peers -> SUBSET (Requested \cup Responses)]
  BY PeerIs DEF Base, Types, PeerTypes
<1>2. l \in Labels
  BY <1>1 DEF IsGraph
<1>3. nodes' = [nodes EXCEPT ![p] = With(nodes[p], l, n)]
  BY DEF SetNode
<1>4. /\ nodes'[p] = With(nodes[p], l, n) /\ DOMAIN nodes' = Peers
      /\ \A q \in Peers \ {p} : nodes'[q] = nodes[q]
  BY <1>1, <1>3
<1>5. /\ rows'[p] \in SUBSET Rows /\ IsStore(store'[p])
      /\ DOMAIN rows' = Peers /\ DOMAIN store' = Peers
      /\ \A q \in Peers \ {p} : rows'[q] = rows[q] /\ store'[q] = store[q]
  BY <1>2, RowsAndStore
<1>6. OnlyAt(p)
  BY <1>4, <1>5 DEF OnlyAt
<1>7. IsGraph(nodes'[p]) /\ FilesSound(nodes'[p], files'[p], touched'[p], events'[p])
  BY <1>1, <1>4, ChangedIsSound
<1>8. Types'
  <2>1. PeerTypes(nodes'[p], rows'[p], store'[p], files'[p], touched'[p], events'[p])
    BY <1>1, <1>5, <1>7 DEF PeerTypes
  <2>2. QED
    BY <1>1, <1>4, <1>5, <1>6, <2>1, TypesAgain DEF Base
<1>9. StaysOwn(p)
  <2>1. OwnAt(p) => HashesOf(n.defs) \subseteq OwnHashes(use, p, l)
    BY DEF OwnAt, AllOwn, OwnDefs
  <2>2. QED
    BY <1>2, <1>4, <2>1, OwnIsKept DEF StaysOwn
<1>10. QED
  BY <1>4, <1>6, <1>7, <1>8, <1>9, BaseAgain

-----------------------------------------------------------------------------
(***************************************************************************)
(* Steps that write one node                                               *)
(***************************************************************************)

\* A program that counts as computed was that already, or is so with this step:
\* its definitions are registered and its values are those of its definitions.
MadeBy(p, l, n) == n.made =>
  \/ /\ l \in DOMAIN nodes[p] /\ nodes[p][l].made /\ rows'[p] = rows[p]
     /\ n.exports = nodes[p][l].exports /\ n.out = nodes[p][l].out
  \/ /\ rows'[p] = NodeRegistered(rows[p], l, n.defs)
     /\ \E out : n.out = Over(Values(n.defs, n.exports), out)

NodeStep(p, l, n) ==
  /\ Base' /\ OnlyAt(p) /\ nodes'[p] = With(nodes[p], l, n)
  /\ Registers(p, l, n) /\ MadeBy(p, l, n) /\ StaysOwn(p)

LEMMA CreateStep ==
  ASSUME Base, NEW p \in Peers, NEW l \in Labels, NEW n \in use.code[l], Create(p, l, n)
  PROVE  \E m \in Node : NodeStep(p, l, m)
<1>1. n \in Programs
  BY UseIs DEF Base
<1>2. PICK m \in Node : m = NewNode(n) /\ m.defs = n.defs /\ m.made = FALSE
  BY <1>1, NodesAre
<1>3. Command(p, "create") /\ SetNode(p, l, m) /\ SaveFile(p, l, m) /\ Registers(p, l, m)
  BY <1>2 DEF Create, Registers
<1>4. Base' /\ OnlyAt(p) /\ nodes'[p] = With(nodes[p], l, m) /\ StaysOwn(p)
  <2>1. HashesOf(m.defs) \subseteq Programmed(use, p, l) /\ m.defs \in Seq(Defs)
    BY <1>1, <1>2 DEF Programmed, Programs
  <2>2. QED
    BY <1>3, <2>1, ProgrammedAreOwn, SavedStep
<1>5. QED
  BY <1>2, <1>3, <1>4 DEF NodeStep, MadeBy

LEMMA NodeIs ==
  ASSUME Base, NEW p \in Peers, NEW l \in DOMAIN nodes[p]
  PROVE  nodes[p][l] \in Node /\ l \in Labels
BY PeerIs DEF PeerTypes, IsGraph

LEMMA UpdateStep ==
  ASSUME Base, NEW p \in Peers, NEW l \in Labels, NEW n \in use.code[l], Update(p, l, n)
  PROVE  \E m \in Node : NodeStep(p, l, m)
<1>1. n \in Programs /\ l \in DOMAIN nodes[p]
  BY UseIs DEF Base, Update
<1>2. PICK old \in Node : old = nodes[p][l]
  BY <1>1, NodeIs
<1>3. PICK d \in Seq(Defs) : d = n.defs
  BY <1>1 DEF Programs
<1>. DEFINE m == [old EXCEPT !.defs = d, !.pragmas = {}, !.made = FALSE]
<1>4. m \in Node /\ m.defs = d /\ m.made = FALSE
  BY DEF Node
<1>5. Command(p, "update") /\ SetNode(p, l, m) /\ SaveFile(p, l, m) /\ SaveDefinitions(p, l, d)
  BY <1>2, <1>3 DEF Update
<1>. HIDE DEF m
<1>6. Registers(p, l, m)
  BY <1>4, <1>5 DEF Registers
<1>7. Base' /\ OnlyAt(p) /\ nodes'[p] = With(nodes[p], l, m) /\ StaysOwn(p)
  <2>1. HashesOf(d) \subseteq Programmed(use, p, l)
    BY <1>3 DEF Programmed
  <2>2. HashesOf(m.defs) \subseteq OwnHashes(use, p, l)
    BY <1>4, <2>1, ProgrammedAreOwn
  <2>3. QED
    BY <1>4, <1>5, <1>6, <2>2, SavedStep
<1>8. QED
  BY <1>4, <1>6, <1>7 DEF NodeStep, MadeBy

LEMMA OwnOf ==
  ASSUME NEW p \in Peers, NEW l \in DOMAIN nodes[p], OwnAt(p)
  PROVE  HashesOf(nodes[p][l].defs) \subseteq OwnHashes(use, p, l)
BY DEF OwnAt, AllOwn, OwnDefs

LEMMA AddHashImportStep ==
  ASSUME Base, NEW p \in Peers, NEW l \in Labels, NEW i \in use.imports, AddHashImport(p, l, i)
  PROVE  \E m \in Node : NodeStep(p, l, m)
<1>1. i \in HashImports /\ l \in DOMAIN nodes[p]
  BY UseIs DEF Base, AddHashImport
<1>2. PICK old \in Node : old = nodes[p][l]
  BY <1>1, NodeIs
<1>3. PICK h : h = {j \in old.hashes : j.hash # i.hash} \cup {i}
  OBVIOUS
<1>4. h \in SUBSET HashImports
  BY <1>1, <1>3 DEF Node
<1>. DEFINE m == [old EXCEPT !.hashes = h]
<1>5. m \in Node /\ m.defs = old.defs /\ m.made = old.made /\ m.exports = old.exports
      /\ m.out = old.out
  BY <1>4 DEF Node
<1>6. Command(p, "import") /\ SetNode(p, l, m) /\ SaveFile(p, l, m) /\ UNCHANGED <<rows, store>>
  BY <1>2, <1>3 DEF AddHashImport
<1>. HIDE DEF m
<1>7. Registers(p, l, m)
  BY <1>6 DEF Registers
<1>8. Base' /\ OnlyAt(p) /\ nodes'[p] = With(nodes[p], l, m) /\ StaysOwn(p)
  <2>1. OwnAt(p) => HashesOf(m.defs) \subseteq OwnHashes(use, p, l)
    BY <1>1, <1>2, <1>5, OwnOf
  <2>2. QED
    BY <1>5, <1>6, <1>7, <2>1, SavedStep
<1>9. MadeBy(p, l, m)
  BY <1>1, <1>2, <1>5, <1>6 DEF MadeBy
<1>10. QED
  BY <1>5, <1>7, <1>8, <1>9 DEF NodeStep

LEMMA MigrateStep ==
  ASSUME Base, NEW p \in Peers, NEW l \in Labels, Migrate(p, l)
  PROVE  \E m \in Node : NodeStep(p, l, m)
<1>1. l \in DOMAIN nodes[p]
  BY DEF Migrate
<1>2. PICK old \in Node : old = nodes[p][l]
  BY <1>1, NodeIs
<1>3. \A d \in Exported(p, l) : d.hash \in Hashes
  <2>1. ASSUME NEW k \in DOMAIN nodes[p], NEW d \in Range(nodes[p][k].defs) PROVE d.hash \in Hashes
    <3>1. nodes[p][k].defs \in Seq(Defs)
      BY NodeIs DEF Node
    <3>2. PICK s \in Seq(Defs) : s = nodes[p][k].defs
      BY <3>1
    <3>3. \E i \in DOMAIN s : d = s[i]
      BY <2>1, <3>2 DEF Range
    <3>4. QED
      BY <3>3, DefsAre
  <2>2. QED
    BY <2>1 DEF Exported
<1>. DEFINE found == {d.hash : d \in Exported(p, l)} \ {i.hash : i \in nodes[p][l].hashes}
<1>4. PICK name \in [found -> Names] :
        LET n == [nodes[p][l] EXCEPT !.imports = {},
                     !.hashes = @ \cup {[hash |-> h, name |-> name[h]] : h \in found}]
        IN  SetNode(p, l, n) /\ SaveFile(p, l, n)
  BY DEF Migrate
<1>5. PICK h : h = old.hashes \cup {[hash |-> x, name |-> name[x]] : x \in found}
  OBVIOUS
<1>6. h \in SUBSET HashImports
  <2>1. \A x \in found : [hash |-> x, name |-> name[x]] \in HashImports
    BY <1>3, <1>4 DEF HashImports
  <2>2. old.hashes \in SUBSET HashImports
    BY DEF Node
  <2>. HIDE DEF found
  <2>3. QED
    BY <1>5, <2>1, <2>2
<1>. DEFINE m == [old EXCEPT !.imports = {}, !.hashes = h]
<1>7. SetNode(p, l, m) /\ SaveFile(p, l, m)
  BY <1>2, <1>4, <1>5
<1>. HIDE DEF found
<1>8. m \in Node /\ m.defs = old.defs /\ m.made = old.made /\ m.exports = old.exports
      /\ m.out = old.out
  BY <1>6 DEF Node
<1>9. Command(p, "migrate") /\ UNCHANGED <<rows, store>>
  BY DEF Migrate
<1>. HIDE DEF m
<1>10. Registers(p, l, m)
  BY <1>9 DEF Registers
<1>11. Base' /\ OnlyAt(p) /\ nodes'[p] = With(nodes[p], l, m) /\ StaysOwn(p)
  <2>1. OwnAt(p) => HashesOf(m.defs) \subseteq OwnHashes(use, p, l)
    BY <1>1, <1>2, <1>8, OwnOf
  <2>2. QED
    BY <1>7, <1>8, <1>9, <1>10, <2>1, SavedStep
<1>12. MadeBy(p, l, m)
  BY <1>1, <1>2, <1>8, <1>9 DEF MadeBy
<1>13. QED
  BY <1>8, <1>10, <1>11, <1>12 DEF NodeStep

\* A command that does nothing but count.
Still(p) ==
  /\ Base' /\ OnlyAt(p) /\ StaysOwn(p)
  /\ nodes'[p] = nodes[p] /\ rows'[p] = rows[p] /\ store'[p] = store[p]

LEMMA StillStep ==
  ASSUME Base, NEW p \in Peers,
         UNCHANGED <<use, nodes, rows, store, files, touched, events>>,
         spent' \in 0 .. use.most, lost' \in BOOLEAN,
         inbox' \in [Peers -> SUBSET (Requested \cup Responses)]
  PROVE  Still(p)
BY DEF Base, Types, Still, OnlyAt, StaysOwn, OwnAt

LEMMA ComputeStep ==
  ASSUME Base, NEW p \in Peers, NEW l \in Labels, Compute(p, l)
  PROVE  Still(p) \/ \E m \in Node : NodeStep(p, l, m)
<1>1. Command(p, "compute") /\ l \in DOMAIN nodes[p] /\ UNCHANGED <<rows, store, files, touched>>
  BY DEF Compute, disk
<1>2. /\ use' = use /\ spent' \in 0 .. use.most /\ lost' = lost /\ lost' \in BOOLEAN
      /\ events' = events
      /\ inbox' = inbox /\ inbox' \in [Peers -> SUBSET (Requested \cup Responses)]
  BY <1>1, CommandIs
<1>3. CASE UNCHANGED nodes
  BY <1>1, <1>2, <1>3, StillStep
<1>4. CASE SetNode(p, l, Running(nodes[p][l]))
  <2>1. PICK old \in Node : old = nodes[p][l]
    BY <1>1, NodeIs
  <2>2. PICK m \in Node : /\ m = Running(old) /\ m.defs = old.defs /\ m.hashes = old.hashes
                          /\ m.made = old.made /\ m.exports = old.exports /\ m.out = old.out
    BY NodesAre
  <2>3. SetNode(p, l, m) /\ Registers(p, l, m) /\ MadeBy(p, l, m)
    BY <1>1, <1>4, <2>1, <2>2 DEF Registers, MadeBy
  <2>4. Base' /\ OnlyAt(p) /\ nodes'[p] = With(nodes[p], l, m) /\ StaysOwn(p)
    BY <1>1, <1>2, <2>1, <2>2, <2>3, ChangedStep
  <2>5. QED
    BY <2>3, <2>4 DEF NodeStep
<1>5. QED
  BY <1>3, <1>4 DEF Compute

LEMMA FailsStep ==
  ASSUME Base, NEW p \in Peers, NEW l \in Labels, Fails(p, l)
  PROVE  \E m \in Node : NodeStep(p, l, m)
<1>1. l \in DOMAIN nodes[p] /\ UNCHANGED <<use, spent, rows, store, files, touched, events, inbox, lost>>
  BY DEF Fails, disk, watch, net
<1>2. PICK old \in Node : old = nodes[p][l]
  BY <1>1, NodeIs
<1>. DEFINE m == [old EXCEPT !.run = None]
<1>3. /\ m \in Node /\ m.defs = old.defs /\ m.hashes = old.hashes
      /\ m.made = old.made /\ m.exports = old.exports /\ m.out = old.out
  BY DEF Node
<1>4. SetNode(p, l, m)
  BY <1>2 DEF Fails
<1>. HIDE DEF m
<1>5. Registers(p, l, m) /\ MadeBy(p, l, m)
  BY <1>1, <1>2, <1>3 DEF Registers, MadeBy
<1>6. spent' \in 0 .. use.most
  BY <1>1 DEF Base, Types
<1>7. Base' /\ OnlyAt(p) /\ nodes'[p] = With(nodes[p], l, m) /\ StaysOwn(p)
  BY <1>1, <1>2, <1>3, <1>4, <1>5, <1>6, ChangedStep
<1>8. QED
  BY <1>3, <1>5, <1>7 DEF NodeStep

LEMMA OutsAre ==
  ASSUME NEW d \in Seq(Defs), NEW exports \in SUBSET Names, NEW out \in Outs
  PROVE  Over(Values(d, exports), out) \in Outs
<1>. DEFINE V == Values(d, exports)
<1>1. DOMAIN V \subseteq Names /\ \A x \in DOMAIN V : V[x] \in Given
  <2>1. V = [x \in {d[i].name : i \in DOMAIN d} \cap exports |-> Value(d, x)]
    BY DEF Values
  <2>2. \A x \in Names : Value(d, x) \in Given
    BY DEF Given
  <2>. HIDE DEF V
  <2>3. {d[i].name : i \in DOMAIN d} \cap exports \subseteq Names
    BY DefsAre
  <2>4. QED
    BY <2>1, <2>2, <2>3
<1>2. PICK S \in SUBSET Names : out \in [S -> Given]
  BY DEF Outs
<1>. HIDE DEF V
<1>3. Over(V, out) \in [DOMAIN V \cup S -> Given]
  BY <1>1, <1>2 DEF Over
<1>4. DOMAIN V \cup S \in SUBSET Names
  BY <1>1
<1>5. QED
  BY <1>3, <1>4 DEF Outs, V

LEMMA ResultStep ==
  ASSUME Base, NEW p \in Peers, NEW l \in Labels, Result(p, l)
  PROVE  \E m \in Node : NodeStep(p, l, m)
<1>1. /\ l \in DOMAIN nodes[p] /\ nodes[p][l].run # None
      /\ UNCHANGED <<use, spent, files, touched, events, inbox, lost>>
  BY DEF Result, watch, net
<1>2. PICK old \in Node : old = nodes[p][l]
  BY <1>1, NodeIs
<1>3. PICK r \in Runs : r = old.run
  BY <1>1, <1>2 DEF Node
<1>4. PICK out : out = Over(Values(r.defs, r.exports), old.out)
  OBVIOUS
<1>5. out \in Outs
  BY <1>4, OutsAre DEF Runs, Node
<1>6. PICK made \in BOOLEAN : made = (r = Program(old))
  OBVIOUS
<1>. DEFINE m == [old EXCEPT !.out = out, !.made = made, !.run = None]
<1>7. /\ m \in Node /\ m.defs = old.defs /\ m.hashes = old.hashes
      /\ m.made = made /\ m.exports = old.exports /\ m.out = out
  BY <1>5 DEF Node
<1>8. SetNode(p, l, m) /\ SaveDefinitions(p, l, old.defs)
  <2>1. /\ SetNode(p, l, [old EXCEPT !.out = Over(Values(old.run.defs, old.run.exports), @),
                                     !.made = (old.run = Program(old)), !.run = None])
        /\ SaveDefinitions(p, l, old.defs)
    BY <1>2 DEF Result
  <2>2. QED
    BY <1>3, <1>4, <1>6, <2>1
<1>. HIDE DEF m
<1>9. Registers(p, l, m)
  BY <1>7, <1>8 DEF Registers
<1>10. MadeBy(p, l, m)
  <2>1. ASSUME made PROVE m.out = Over(Values(m.defs, m.exports), old.out)
    <3>1. r = Program(old)
      BY <1>6, <2>1
    <3>2. r.defs = old.defs /\ r.exports = old.exports
      BY <3>1 DEF Program
    <3>3. QED
      BY <1>4, <1>7, <3>2
  <2>2. rows'[p] = NodeRegistered(rows[p], l, m.defs)
    BY <1>7, <1>8, DefinitionsAreSaved DEF Node
  <2>3. QED
    BY <1>7, <2>1, <2>2 DEF MadeBy
<1>11. spent' \in 0 .. use.most
  BY <1>1 DEF Base, Types
<1>12. Base' /\ OnlyAt(p) /\ nodes'[p] = With(nodes[p], l, m) /\ StaysOwn(p)
  BY <1>1, <1>2, <1>7, <1>8, <1>9, <1>11, ChangedStep
<1>13. QED
  BY <1>7, <1>9, <1>10, <1>12 DEF NodeStep

-----------------------------------------------------------------------------
(***************************************************************************)
(* Steps that register nothing                                             *)
(***************************************************************************)

\* No program comes to count as computed.
QuietStep(p) ==
  /\ Base' /\ OnlyAt(p) /\ StaysOwn(p) /\ rows'[p] = rows[p] /\ store'[p] = store[p]
  /\ \A l \in DOMAIN nodes'[p] :
       /\ l \in DOMAIN nodes[p]
       /\ nodes'[p][l].made =>
            /\ nodes[p][l].made /\ nodes'[p][l].exports = nodes[p][l].exports
            /\ nodes'[p][l].out = nodes[p][l].out

LEMMA DeleteStep ==
  ASSUME Base, NEW p \in Peers, NEW l \in Labels, Delete(p, l)
  PROVE  QuietStep(p)
<1>1. /\ IsGraph(nodes[p]) /\ AreFiles(files[p])
      /\ FilesSound(nodes[p], files[p], touched[p], events[p])
      /\ DOMAIN nodes = Peers /\ DOMAIN files = Peers
  BY PeerIs DEF Base, Types, PeerTypes
<1>2. /\ Command(p, "delete") /\ UNCHANGED <<rows, store, touched>>
      /\ nodes' = [nodes EXCEPT ![p] = Without(nodes[p], l)]
      /\ files' = [files EXCEPT ![p] = Without(files[p], l)]
  BY DEF Delete
<1>3. /\ use' = use /\ spent' \in 0 .. use.most /\ lost' \in BOOLEAN /\ events' = events
      /\ inbox' \in [Peers -> SUBSET (Requested \cup Responses)]
  BY <1>2, CommandIs
<1>4. PICK g, f : g = Without(nodes[p], l) /\ f = Without(files[p], l)
  OBVIOUS
<1>5. /\ DOMAIN g = DOMAIN nodes[p] \ {l} /\ \A x \in DOMAIN g : g[x] = nodes[p][x]
      /\ DOMAIN f = DOMAIN files[p] \ {l} /\ \A x \in DOMAIN f : f[x] = files[p][x]
  BY <1>4 DEF Without
<1>6. nodes' = [nodes EXCEPT ![p] = g] /\ files' = [files EXCEPT ![p] = f]
  BY <1>2, <1>4
<1>7. /\ nodes'[p] = g /\ files'[p] = f /\ DOMAIN nodes' = Peers /\ DOMAIN files' = Peers
      /\ \A q \in Peers \ {p} : nodes'[q] = nodes[q] /\ files'[q] = files[q]
  BY <1>1, <1>6
<1>8. IsGraph(g) /\ AreFiles(f)
  BY <1>1, <1>5 DEF IsGraph, AreFiles
<1>9. FilesSound(g, f, touched[p], events[p])
  <2>1. ASSUME NEW x \in DOMAIN g
        PROVE  FileSound(g[x], x \in DOMAIN f, f[x], x, touched[p], events[p])
    <3>1. FileSound(nodes[p][x], x \in DOMAIN files[p], files[p][x], x, touched[p], events[p])
      BY <1>1, <1>5 DEF FilesSound
    <3>2. (x \in DOMAIN f <=> x \in DOMAIN files[p]) /\ g[x] = nodes[p][x]
      BY <1>5
    <3>3. QED
      BY <1>5, <3>1, <3>2 DEF FileSound
  <2>2. QED
    BY <2>1 DEF FilesSound
<1>10. OnlyAt(p)
  BY <1>2, <1>3, <1>7 DEF OnlyAt
<1>11. Types'
  <2>1. PeerTypes(nodes'[p], rows'[p], store'[p], files'[p], touched'[p], events'[p])
    BY <1>2, <1>3, <1>7, <1>8, PeerIs DEF PeerTypes
  <2>2. /\ DOMAIN rows' = Peers /\ DOMAIN store' = Peers
        /\ DOMAIN touched' = Peers /\ DOMAIN events' = Peers
    BY <1>2, <1>3 DEF Base, Types
  <2>3. QED
    BY <1>3, <1>7, <1>10, <2>1, <2>2, TypesAgain DEF Base
<1>12. Base'
  BY <1>2, <1>3, <1>7, <1>9, <1>10, <1>11, BaseAgain
<1>13. StaysOwn(p)
  BY <1>2, <1>3, <1>5, <1>7 DEF StaysOwn, OwnAt, AllOwn, OwnDefs
<1>14. QED
  BY <1>2, <1>5, <1>7, <1>10, <1>12, <1>13 DEF QuietStep

\* A step that changes what the watcher has to report, and perhaps a node.
LEMMA WatchStep ==
  ASSUME Base, NEW p \in Peers, NEW g, NEW w, NEW e,
         UNCHANGED <<use, spent, rows, store, files, inbox, lost>>,
         (nodes' = nodes /\ g = nodes[p]) \/ nodes' = [nodes EXCEPT ![p] = g],
         (touched' = touched /\ w = touched[p]) \/ touched' = [touched EXCEPT ![p] = w],
         (events' = events /\ e = events[p]) \/ events' = [events EXCEPT ![p] = e],
         IsGraph(g), w \in SUBSET Labels, e \in Seq(Events),
         FilesSound(g, files[p], w, e),
         OwnAt(p) => OwnDefs(use, p, g) /\ OwnEvents(use, p, e)
  PROVE  Base' /\ OnlyAt(p) /\ StaysOwn(p) /\ nodes'[p] = g
<1>1. /\ DOMAIN nodes = Peers /\ DOMAIN touched = Peers /\ DOMAIN events = Peers
      /\ DOMAIN rows = Peers /\ DOMAIN store = Peers /\ DOMAIN files = Peers
      /\ spent \in 0 .. use.most /\ lost \in BOOLEAN
      /\ inbox \in [Peers -> SUBSET (Requested \cup Responses)]
  BY DEF Base, Types
<1>2. /\ nodes'[p] = g /\ touched'[p] = w /\ events'[p] = e
      /\ DOMAIN nodes' = Peers /\ DOMAIN touched' = Peers /\ DOMAIN events' = Peers
      /\ \A q \in Peers \ {p} : /\ nodes'[q] = nodes[q] /\ touched'[q] = touched[q]
                                /\ events'[q] = events[q]
  BY <1>1
<1>3. OnlyAt(p)
  BY <1>2 DEF OnlyAt
<1>4. PeerTypes(nodes'[p], rows'[p], store'[p], files'[p], touched'[p], events'[p])
  BY <1>2, PeerIs DEF PeerTypes
<1>5. Types'
  BY <1>1, <1>2, <1>3, <1>4, TypesAgain DEF Base
<1>6. StaysOwn(p)
  BY <1>2 DEF StaysOwn, OwnAt, AllOwn
<1>7. QED
  BY <1>2, <1>3, <1>5, <1>6, BaseAgain

LEMMA NoticeStep ==
  ASSUME Base, NEW p \in Peers, NEW l \in Labels, Notice(p, l)
  PROVE  QuietStep(p)
<1>1. /\ IsGraph(nodes[p]) /\ AreFiles(files[p]) /\ touched[p] \in SUBSET Labels
      /\ events[p] \in Seq(Events) /\ DOMAIN nodes = Peers /\ DOMAIN events = Peers
      /\ FilesSound(nodes[p], files[p], touched[p], events[p])
  BY PeerIs DEF Base, Types, PeerTypes
<1>2. /\ l \in touched[p] /\ UNCHANGED <<use, spent, nodes, rows, store, files, inbox, lost>>
      /\ touched' = [touched EXCEPT ![p] = touched[p] \ {l}]
  BY DEF Notice, memory, disk, net
<1>3. PICK w : w = touched[p] \ {l}
  OBVIOUS
<1>4. nodes' = nodes
  BY <1>2
<1>5. \A x \in DOMAIN nodes[p] :
        FileSound(nodes[p][x], x \in DOMAIN files[p], files[p][x], x, touched[p], events[p])
  BY <1>1 DEF FilesSound
<1>6. CASE l \in DOMAIN files[p]
  <2>1. PICK v : v = [label |-> l, text |-> files[p][l]]
    OBVIOUS
  <2>2. v \in Events /\ v.label = l /\ v.text = files[p][l]
    BY <1>1, <1>6, <2>1 DEF Events, AreFiles
  <2>3. PICK e : e = Append(events[p], v)
    OBVIOUS
  <2>4. events' = [events EXCEPT ![p] = e]
    BY <1>6, <2>1, <2>3 DEF Notice
  <2>5. PICK k \in Nat : k = Len(events[p])
    BY <1>1
  <2>6. /\ e \in Seq(Events) /\ Len(e) = k + 1 /\ e[k + 1] = v
        /\ \A i \in 1 .. k : e[i] = events[p][i]
    BY <1>1, <2>2, <2>3, <2>5, AppendProperties
  <2>7. \A x : x # l => Reports(e, x) = Reports(events[p], x)
    BY <2>2, <2>5, <2>6 DEF Reports
  <2>8. k + 1 \in Reports(e, l) /\ \A j \in Reports(e, l) : j <= k + 1
    BY <2>2, <2>5, <2>6 DEF Reports
  <2>9. FilesSound(nodes[p], files[p], w, e)
    <3>1. ASSUME NEW x \in DOMAIN nodes[p]
          PROVE  FileSound(nodes[p][x], x \in DOMAIN files[p], files[p][x], x, w, e)
      <4>1. CASE x = l
        BY <1>5, <1>6, <2>2, <2>6, <2>8, <4>1 DEF FileSound
      <4>2. CASE x # l
        <5>1. Reports(e, x) = Reports(events[p], x) /\ (x \in w <=> x \in touched[p])
          BY <1>3, <2>7, <4>2
        <5>2. \A i \in Reports(e, x) : e[i] = events[p][i]
          BY <2>5, <2>6, <5>1 DEF Reports
        <5>3. FileSound(nodes[p][x], x \in DOMAIN files[p], files[p][x], x, touched[p], events[p])
          BY <1>5
        <5>4. CASE x \in DOMAIN files[p]
          BY <5>1, <5>2, <5>3, <5>4 DEF FileSound
        <5>5. CASE x \notin DOMAIN files[p]
          BY <5>1, <5>2, <5>3, <5>5 DEF FileSound
        <5>6. QED
          BY <5>4, <5>5
      <4>3. QED
        BY <4>1, <4>2
    <3>2. QED
      BY <3>1 DEF FilesSound
  <2>10. OwnAt(p) => OwnDefs(use, p, nodes[p]) /\ OwnEvents(use, p, e)
    <3>1. ASSUME OwnAt(p), NEW i \in 1 .. Len(e)
          PROVE  HashesOf(e[i].text.defs) \subseteq OwnHashes(use, p, e[i].label)
      <4>1. CASE i = k + 1
        BY <1>6, <2>2, <2>6, <3>1, <4>1 DEF OwnAt, AllOwn, OwnDefs
      <4>2. CASE i # k + 1
        <5>1. i \in 1 .. Len(events[p]) /\ e[i] = events[p][i]
          BY <2>5, <2>6, <3>1, <4>2
        <5>2. HashesOf(events[p][i].text.defs) \subseteq OwnHashes(use, p, events[p][i].label)
          BY <3>1, <5>1 DEF OwnAt, AllOwn, OwnEvents
        <5>3. QED
          BY <5>1, <5>2
      <4>3. QED
        BY <4>1, <4>2
    <3>2. QED
      BY <3>1 DEF OwnAt, AllOwn, OwnEvents
  <2>11. Base' /\ OnlyAt(p) /\ StaysOwn(p)
    <3>1. w \in SUBSET Labels
      BY <1>1, <1>3
    <3>2. QED
      BY <1>1, <1>2, <1>3, <1>4, <2>4, <2>6, <2>9, <2>10, <3>1, WatchStep
  <2>12. QED
    BY <1>2, <2>11 DEF QuietStep
<1>7. CASE l \notin DOMAIN files[p]
  <2>1. events' = events
    BY <1>7 DEF Notice
  <2>2. FilesSound(nodes[p], files[p], w, events[p])
    BY <1>2, <1>3, <1>5, <1>7 DEF FilesSound, FileSound
  <2>3. w \in SUBSET Labels
    BY <1>1, <1>3
  <2>4. Base' /\ OnlyAt(p) /\ StaysOwn(p)
    BY <1>1, <1>2, <1>3, <1>4, <2>1, <2>2, <2>3, WatchStep DEF OwnAt, AllOwn
  <2>5. QED
    BY <1>2, <2>4 DEF QuietStep
<1>8. QED
  BY <1>6, <1>7

\* A report is of the file as it is, or another one follows.
LEMMA ReloadStep ==
  ASSUME Base, NEW p \in Peers, Reload(p)
  PROVE  QuietStep(p)
<1>1. /\ IsGraph(nodes[p]) /\ touched[p] \in SUBSET Labels
      /\ events[p] \in Seq(Events) /\ DOMAIN nodes = Peers
      /\ FilesSound(nodes[p], files[p], touched[p], events[p])
  BY PeerIs DEF Base, Types, PeerTypes
<1>2. /\ events[p] # << >>
      /\ UNCHANGED <<use, spent, rows, store, files, touched, inbox, lost>>
      /\ events' = [events EXCEPT ![p] = Tail(events[p])]
  BY DEF Reload, disk, net
<1>3. PICK s \in Seq(Events) : s = events[p]
  BY <1>1
<1>4. PICK v, e : v = Head(s) /\ e = Tail(s)
  OBVIOUS
<1>5. /\ v \in Events /\ e \in Seq(Events) /\ Len(s) \in Nat \ {0} /\ Len(e) = Len(s) - 1
      /\ s[1] = v /\ \A i \in 1 .. Len(e) : e[i] = s[i + 1]
  BY <1>2, <1>3, <1>4, HeadTailProperties
<1>6. v.label \in Labels /\ v.text \in Texts
  BY <1>5 DEF Events
<1>7. \A x : \A i : i \in Reports(e, x) <=> i \in Nat \ {0} /\ i + 1 \in Reports(s, x)
  BY <1>5 DEF Reports
<1>8. \A x : \A i \in Reports(s, x) : i \in Nat \ {0} /\ (i = 1 => x = v.label)
  BY <1>5 DEF Reports
<1>9. ASSUME NEW x \in DOMAIN nodes[p], x # v.label
      PROVE  FileSound(nodes[p][x], x \in DOMAIN files[p], files[p][x], x, touched[p], e)
  <2>1. FileSound(nodes[p][x], x \in DOMAIN files[p], files[p][x], x, touched[p], s)
    BY <1>1, <1>3 DEF FilesSound
  <2>2. Reports(s, x) = {} => Reports(e, x) = {}
    BY <1>7
  <2>3. CASE x \in DOMAIN files[p]
    <3>1. ASSUME NEW i \in Reports(s, x), s[i].text = files[p][x],
                 \A j \in Reports(s, x) : j <= i
          PROVE  \E k \in Reports(e, x) :
                   e[k].text = files[p][x] /\ \A j \in Reports(e, x) : j <= k
      <4>1. i \in Nat /\ i > 1 /\ i - 1 \in Nat \ {0} /\ (i - 1) + 1 = i
        BY <1>8, <1>9
      <4>2. i - 1 \in Reports(e, x)
        BY <1>7, <4>1
      <4>3. e[i - 1] = s[i]
        BY <1>5, <4>1, <4>2 DEF Reports
      <4>4. \A j \in Reports(e, x) : j <= i - 1
        BY <1>7, <3>1, <4>1
      <4>5. QED
        BY <3>1, <4>2, <4>3, <4>4
    <3>2. QED
      BY <2>1, <2>2, <2>3, <3>1 DEF FileSound
  <2>4. CASE x \notin DOMAIN files[p]
    BY <2>1, <2>2, <2>4 DEF FileSound
  <2>5. QED
    BY <2>3, <2>4
<1>10. ASSUME OwnAt(p)
       PROVE  /\ OwnDefs(use, p, nodes[p]) /\ OwnEvents(use, p, e)
              /\ HashesOf(v.text.defs) \subseteq OwnHashes(use, p, v.label)
  <2>1. \A i \in 1 .. Len(s) : HashesOf(s[i].text.defs) \subseteq OwnHashes(use, p, s[i].label)
    BY <1>3, <1>10 DEF OwnAt, AllOwn, OwnEvents
  <2>2. HashesOf(v.text.defs) \subseteq OwnHashes(use, p, v.label)
    <3>1. 1 \in 1 .. Len(s)
      BY <1>5
    <3>2. QED
      BY <1>5, <2>1, <3>1
  <2>3. ASSUME NEW i \in 1 .. Len(e)
        PROVE  HashesOf(e[i].text.defs) \subseteq OwnHashes(use, p, e[i].label)
    <3>1. i + 1 \in 1 .. Len(s) /\ e[i] = s[i + 1]
      BY <1>5
    <3>2. QED
      BY <2>1, <3>1
  <2>4. QED
    BY <1>10, <2>2, <2>3 DEF OwnAt, AllOwn, OwnEvents
<1>11. CASE v.label \notin DOMAIN nodes[p]
  <2>1. nodes' = nodes
    BY <1>3, <1>4, <1>11 DEF Reload
  <2>2. FilesSound(nodes[p], files[p], touched[p], e)
    BY <1>9, <1>11 DEF FilesSound
  <2>3. touched' = touched /\ events' = [events EXCEPT ![p] = e]
    BY <1>2, <1>3, <1>4 DEF Base, Types
  <2>4. Base' /\ OnlyAt(p) /\ StaysOwn(p)
    BY <1>1, <1>2, <1>5, <1>10, <2>1, <2>2, <2>3, WatchStep
  <2>5. QED
    BY <1>2, <2>1, <2>4 DEF QuietStep
<1>12. CASE v.label \in DOMAIN nodes[p]
  <2>1. PICK l \in DOMAIN nodes[p] : l = v.label
    BY <1>12
  <2>2. PICK n \in Node : n = nodes[p][l]
    BY NodeIs
  <2>3. PICK d \in Seq(Defs), g \in SUBSET HashImports : d = v.text.defs /\ g = v.text.pragmas
    BY <1>6 DEF Texts
  <2>. DEFINE new == [n EXCEPT !.defs = d, !.pragmas = g]
  <2>4. /\ new \in Node /\ new.defs = d /\ new.hashes = n.hashes
        /\ [new EXCEPT !.made = FALSE] \in Node /\ [new EXCEPT !.made = FALSE].made = FALSE
        /\ [new EXCEPT !.made = FALSE].defs = d
        /\ [new EXCEPT !.made = FALSE].hashes = n.hashes
    BY DEF Node
  <2>5. SetNode(p, l, IF new = n THEN n ELSE Running([new EXCEPT !.made = FALSE]))
    BY <1>3, <1>4, <1>12, <2>1, <2>2, <2>3 DEF Reload
  <2>. HIDE DEF new
  <2>6. PICK m \in Node : /\ SetNode(p, l, m) /\ m.defs = d /\ m.hashes = n.hashes
                          /\ (m.made => m = n)
    <3>1. CASE new = n
      BY <2>4, <2>5, <3>1
    <3>2. CASE new # n
      <4>1. PICK k \in Node : /\ k = [new EXCEPT !.made = FALSE] /\ k.made = FALSE
                              /\ k.defs = d /\ k.hashes = n.hashes
        BY <2>4
      <4>2. SetNode(p, l, Running(k))
        BY <2>5, <3>2, <4>1
      <4>3. PICK r \in Node : /\ r = Running(k) /\ r.defs = d /\ r.hashes = n.hashes
                              /\ r.made = FALSE
        <5>1. /\ Running(k) \in Node /\ Running(k).defs = k.defs
              /\ Running(k).hashes = k.hashes /\ Running(k).made = k.made
          BY NodesAre
        <5>2. QED
          BY <4>1, <5>1
      <4>4. QED
        BY <4>2, <4>3
    <3>3. QED
      BY <3>1, <3>2
  <2>7. PICK G : G = With(nodes[p], l, m)
    OBVIOUS
  <2>8. /\ DOMAIN G = DOMAIN nodes[p] /\ G[l] = m
        /\ \A x \in DOMAIN G : x # l => G[x] = nodes[p][x]
    <3>1. /\ DOMAIN G = DOMAIN nodes[p] \cup {l} /\ G[l] = m
          /\ \A x \in DOMAIN G : x # l => G[x] = nodes[p][x]
      BY <2>7 DEF With
    <3>2. QED
      BY <2>1, <3>1
  <2>9. IsGraph(G)
    BY <1>1, <2>6, <2>8 DEF IsGraph
  <2>10. FileSound(m, l \in DOMAIN files[p], files[p][l], l, touched[p], e)
    <3>1. FileSound(n, l \in DOMAIN files[p], files[p][l], l, touched[p], s)
      BY <1>1, <1>3, <2>2 DEF FilesSound
    <3>2. 1 \in Reports(s, l)
      BY <1>5, <2>1 DEF Reports
    <3>3. /\ l \in DOMAIN files[p] /\ n.hashes \subseteq files[p][l].pragmas
          /\ l \notin touched[p] =>
               \E i \in Reports(s, l) :
                  s[i].text = files[p][l] /\ \A j \in Reports(s, l) : j <= i
      BY <3>1, <3>2 DEF FileSound
    <3>4. ASSUME NEW i \in Reports(s, l), s[i].text = files[p][l],
                 \A j \in Reports(s, l) : j <= i
          PROVE  \/ Reports(e, l) = {} /\ files[p][l].defs = m.defs
                 \/ \E k \in Reports(e, l) :
                      e[k].text = files[p][l] /\ \A j \in Reports(e, l) : j <= k
      <4>1. CASE i = 1
        <5>1. Reports(e, l) = {}
          BY <1>7, <3>4, <4>1
        <5>2. QED
          BY <1>5, <2>3, <2>6, <3>4, <4>1, <5>1
      <4>2. CASE i # 1
        <5>1. i \in Nat /\ i > 1 /\ i - 1 \in Nat \ {0} /\ (i - 1) + 1 = i
          BY <1>8, <4>2
        <5>2. i - 1 \in Reports(e, l)
          BY <1>7, <5>1
        <5>3. e[i - 1] = s[i]
          BY <1>5, <5>1, <5>2 DEF Reports
        <5>4. \A j \in Reports(e, l) : j <= i - 1
          BY <1>7, <3>4, <5>1
        <5>5. QED
          BY <3>4, <5>2, <5>3, <5>4
      <4>3. QED
        BY <4>1, <4>2
    <3>5. QED
      BY <2>6, <3>3, <3>4 DEF FileSound
  <2>11. FilesSound(G, files[p], touched[p], e)
    BY <1>9, <2>1, <2>8, <2>10 DEF FilesSound
  <2>12. OwnAt(p) => OwnDefs(use, p, G) /\ OwnEvents(use, p, e)
    BY <1>10, <2>1, <2>3, <2>6, <2>8 DEF OwnDefs
  <2>13. Base' /\ OnlyAt(p) /\ StaysOwn(p) /\ nodes'[p] = G
    <3>1. nodes' = [nodes EXCEPT ![p] = G]
      BY <2>6, <2>7 DEF SetNode
    <3>2. touched' = touched /\ events' = [events EXCEPT ![p] = e]
      BY <1>2, <1>3, <1>4 DEF Base, Types
    <3>3. QED
      BY <1>1, <1>2, <1>5, <2>9, <2>11, <2>12, <3>1, <3>2, WatchStep
  <2>14. QED
    BY <1>2, <2>2, <2>6, <2>8, <2>13 DEF QuietStep
<1>13. QED
  BY <1>11, <1>12

-----------------------------------------------------------------------------
(***************************************************************************)
(* Messages                                                                *)
(***************************************************************************)

LEMMA RequestsAre ==
  ASSUME NEW g, IsGraph(g), NEW t
  PROVE  Requests(g, t) \subseteq Requested
<1>1. ASSUME NEW l \in DOMAIN g, NEW i \in g[l].hashes PROVE i.hash \in Hashes
  <2>1. g[l] \in Node
    BY DEF IsGraph
  <2>2. i \in HashImports
    BY <2>1 DEF Node
  <2>3. QED
    BY <2>2 DEF HashImports
<1>2. Unresolved(g, t) \subseteq Hashes
  BY <1>1 DEF Unresolved
<1>3. \A h \in Hashes : Ask(h) \in Requested
  BY DEF Ask, Requested
<1>4. QED
  BY <1>2, <1>3 DEF Requests

LEMMA PublishedIs ==
  ASSUME NEW p \in Peers, NEW boxes \in [Peers -> SUBSET (Requested \cup Responses)],
         NEW msgs \in SUBSET (Requested \cup Responses)
  PROVE  Publish(p, boxes, msgs) \in [Peers -> SUBSET (Requested \cup Responses)]
BY DEF Publish

LEMMA StillQuiet ==
  ASSUME NEW p \in Peers, Still(p)
  PROVE  QuietStep(p)
BY DEF Still, QuietStep

LEMMA RequestMissingStep ==
  ASSUME Base, NEW p \in Peers, RequestMissing(p)
  PROVE  QuietStep(p)
<1>1. /\ UNCHANGED <<use, spent, nodes, rows, store, files, touched, events, lost>>
      /\ inbox' = Publish(p, inbox, Requests(nodes[p], rows[p]))
  BY DEF RequestMissing, memory, disk, watch
<1>2. Requests(nodes[p], rows[p]) \in SUBSET (Requested \cup Responses)
  BY RequestsAre, PeerIs DEF PeerTypes
<1>3. /\ inbox \in [Peers -> SUBSET (Requested \cup Responses)]
      /\ spent' \in 0 .. use.most /\ lost' \in BOOLEAN
  BY <1>1 DEF Base, Types
<1>4. inbox' \in [Peers -> SUBSET (Requested \cup Responses)]
  BY <1>1, <1>2, <1>3, PublishedIs
<1>5. QED
  BY <1>1, <1>3, <1>4, StillStep, StillQuiet

LEMMA ServeStep ==
  ASSUME Base, NEW p \in Peers, NEW m \in inbox[p], Serve(p, m)
  PROVE  QuietStep(p)
<1>1. /\ UNCHANGED <<use, spent, nodes, rows, store, files, touched, events, lost>>
      /\ m.kind = "request"
  BY DEF Serve, memory, disk, watch
<1>2. /\ inbox \in [Peers -> SUBSET (Requested \cup Responses)]
      /\ spent' \in 0 .. use.most /\ lost' \in BOOLEAN
  BY <1>1 DEF Base, Types
<1>3. PICK rest : rest = [inbox EXCEPT ![p] = @ \ {m}]
  OBVIOUS
<1>4. rest \in [Peers -> SUBSET (Requested \cup Responses)]
  BY <1>2, <1>3
<1>5. inbox' \in [Peers -> SUBSET (Requested \cup Responses)]
  <2>1. CASE m.hash \in DOMAIN store[p]
    <3>. DEFINE known == {r.name : r \in RowsOf(rows[p], m.hash)}
    <3>1. PICK name \in IF known = {} THEN {None} ELSE known :
            inbox' = Publish(p, rest, {Tell(m.hash, store[p][m.hash], name)})
      BY <1>3, <2>1 DEF Serve
    <3>2. name \in Names \cup {None}
      <4>1. rows[p] \in SUBSET Rows
        BY PeerIs DEF PeerTypes
      <4>2. known \subseteq Names
        BY <4>1 DEF RowsOf, Current, Rows
      <4>3. QED
        BY <3>1, <4>2
    <3>3. m.hash \in Hashes /\ store[p][m.hash] = ContentOf(m.hash)
      BY <2>1, PeerIs DEF PeerTypes, IsStore
    <3>4. Tell(m.hash, store[p][m.hash], name) \in Responses
      <4>1. store[p][m.hash] \in Hashes \cup {Nothing}
        BY <3>3 DEF ContentOf
      <4>2. QED
        BY <3>2, <3>3, <4>1 DEF Tell, Responses
    <3>5. QED
      BY <1>4, <3>1, <3>4, PublishedIs
  <2>2. CASE m.hash \notin DOMAIN store[p]
    BY <1>3, <1>4, <2>2 DEF Serve
  <2>3. QED
    BY <2>1, <2>2
<1>6. QED
  BY <1>1, <1>2, <1>5, StillStep, StillQuiet

LEMMA LoseStep ==
  ASSUME Base, NEW p \in Peers, NEW m \in inbox[p], Lose(p, m)
  PROVE  QuietStep(p)
<1>1. /\ UNCHANGED <<use, spent, nodes, rows, store, files, touched, events>> /\ lost'
      /\ inbox' = [inbox EXCEPT ![p] = @ \ {m}]
  BY DEF Lose, memory, disk, watch
<1>2. /\ inbox \in [Peers -> SUBSET (Requested \cup Responses)]
      /\ spent' \in 0 .. use.most /\ lost' \in BOOLEAN
  BY <1>1 DEF Base, Types, Lose
<1>3. inbox' \in [Peers -> SUBSET (Requested \cup Responses)]
  BY <1>1, <1>2
<1>4. QED
  BY <1>1, <1>2, <1>3, StillStep, StillQuiet

\* A definition that is verified goes to disk, and is registered under its name.
TakesIn(p, m) ==
  /\ m \in Responses /\ m.body = m.hash
  /\ store'[p] = Saved(store[p], [h \in {m.hash} |-> m.body])
  /\ rows'[p] = IF m.name = None THEN rows[p] ELSE Registered(rows[p], Network, m)

ReceiveIs(p, m) ==
  /\ Base' /\ OnlyAt(p) /\ StaysOwn(p) /\ nodes'[p] = nodes[p]
  /\ \/ rows'[p] = rows[p] /\ store'[p] = store[p]
     \/ TakesIn(p, m)

LEMMA ReceiveStep ==
  ASSUME Base, NEW p \in Peers, NEW m \in inbox[p], Receive(p, m)
  PROVE  ReceiveIs(p, m)
<1>1. /\ UNCHANGED <<use, spent, nodes, files, touched, events, lost>> /\ m.kind = "response"
      /\ inbox' = [inbox EXCEPT ![p] = @ \ {m}]
  BY DEF Receive, watch
<1>2. /\ inbox \in [Peers -> SUBSET (Requested \cup Responses)]
      /\ spent' \in 0 .. use.most /\ lost' \in BOOLEAN
      /\ DOMAIN nodes = Peers /\ DOMAIN rows = Peers /\ DOMAIN store = Peers
      /\ DOMAIN files = Peers /\ DOMAIN touched = Peers /\ DOMAIN events = Peers
  BY <1>1 DEF Base, Types
<1>3. inbox' \in [Peers -> SUBSET (Requested \cup Responses)]
  BY <1>1, <1>2
<1>4. m \in Responses
  BY <1>1, <1>2 DEF Requested
<1>5. /\ PeerTypes(nodes[p], rows[p], store[p], files[p], touched[p], events[p])
      /\ rows[p] \in SUBSET Rows /\ IsStore(store[p])
      /\ FilesSound(nodes[p], files[p], touched[p], events[p])
  BY PeerIs DEF PeerTypes
<1>6. CASE ~Verified(m)
  <2>1. UNCHANGED <<rows, store>>
    BY <1>6 DEF Receive
  <2>2. QED
    BY <1>1, <1>2, <1>3, <2>1, StillStep DEF Still, ReceiveIs
<1>7. CASE Verified(m)
  <2>. DEFINE s == Saved(store[p], [h \in {m.hash} |-> m.body])
              t == IF m.name = None THEN rows[p] ELSE Registered(rows[p], Network, m)
  <2>1. rows' = [rows EXCEPT ![p] = t] /\ store' = [store EXCEPT ![p] = s]
    BY <1>7 DEF Receive
  <2>2. m.body = m.hash
    BY <1>7 DEF Verified
  <2>3. t \in SUBSET Rows
    <3>1. CASE m.name = None
      BY <1>5, <3>1
    <3>2. CASE m.name # None
      BY <1>4, <1>5, <2>2, <3>2, RegisteredIs
    <3>3. QED
      BY <3>1, <3>2
  <2>4. IsStore(s)
    BY <1>4, <1>5, <2>2, SavedResponseIs
  <2>5. TakesIn(p, m)
    BY <1>2, <1>4, <2>1, <2>2 DEF TakesIn
  <2>. HIDE DEF s, t
  <2>6. /\ rows'[p] = t /\ store'[p] = s /\ DOMAIN rows' = Peers /\ DOMAIN store' = Peers
        /\ \A q \in Peers \ {p} : rows'[q] = rows[q] /\ store'[q] = store[q]
    BY <1>2, <2>1
  <2>7. OnlyAt(p)
    BY <1>1, <2>6 DEF OnlyAt
  <2>8. PeerTypes(nodes'[p], rows'[p], store'[p], files'[p], touched'[p], events'[p])
    BY <1>1, <1>5, <2>3, <2>4, <2>6 DEF PeerTypes
  <2>9. Types'
    BY <1>1, <1>2, <1>3, <2>6, <2>7, <2>8, TypesAgain DEF Base
  <2>10. FilesSound(nodes'[p], files'[p], touched'[p], events'[p])
    BY <1>1, <1>5
  <2>11. Base'
    BY <2>7, <2>9, <2>10, BaseAgain
  <2>12. StaysOwn(p)
    <3>1. \A r \in Current(rows'[p]) : r \in Current(rows[p]) \/ r.label = Network
      BY <1>5, <2>5, RegisteredIs DEF TakesIn
    <3>2. QED
      BY <1>1, <3>1 DEF StaysOwn, OwnAt, AllOwn, OwnRows
  <2>13. QED
    BY <1>1, <2>5, <2>7, <2>11, <2>12 DEF ReceiveIs
<1>8. QED
  BY <1>6, <1>7

-----------------------------------------------------------------------------
(***************************************************************************)
(* Starts                                                                  *)
(***************************************************************************)

StartIs(p) ==
  /\ Base' /\ OnlyAt(p) /\ StaysOwn(p) /\ rows'[p] = {}
  /\ \A l \in DOMAIN nodes'[p] : nodes'[p][l].made = FALSE

LEMMA RestartStep ==
  ASSUME Base, NEW p \in Peers, Restart(p)
  PROVE  StartIs(p)
<1>1. PICK g : g = Started(p, files[p])
  OBVIOUS
<1>2. /\ UNCHANGED <<use, store, files, lost>> /\ spent < use.most /\ spent' = spent + 1
      /\ nodes' = [nodes EXCEPT ![p] = g] /\ rows' = [rows EXCEPT ![p] = {}]
      /\ touched' = [touched EXCEPT ![p] = {}] /\ events' = [events EXCEPT ![p] = << >>]
      /\ inbox' = [Publish(p, inbox, Requests(g, {})) EXCEPT ![p] = {}]
  BY <1>1 DEF Restart, disk
<1>3. /\ inbox \in [Peers -> SUBSET (Requested \cup Responses)]
      /\ spent \in 0 .. use.most /\ lost \in BOOLEAN
      /\ DOMAIN nodes = Peers /\ DOMAIN rows = Peers /\ DOMAIN store = Peers
      /\ DOMAIN files = Peers /\ DOMAIN touched = Peers /\ DOMAIN events = Peers
  BY DEF Base, Types
<1>4. spent' \in 0 .. use.most
  BY <1>2, <1>3, UseIs DEF Base
<1>5. AreFiles(files[p]) /\ IsStore(store[p])
  BY PeerIs DEF PeerTypes
<1>6. /\ IsGraph(g) /\ (\A l \in DOMAIN g : g[l].made = FALSE)
      /\ FilesSound(g, files[p], {}, << >>)
      /\ OwnDefs(use, p, files[p]) => OwnDefs(use, p, g)
  BY <1>1, <1>5, StartedIs DEF Base, Types
<1>7. inbox' \in [Peers -> SUBSET (Requested \cup Responses)]
  <2>1. PICK b \in [Peers -> SUBSET (Requested \cup Responses)] :
          b = Publish(p, inbox, Requests(g, {}))
    BY <1>3, <1>6, RequestsAre, PublishedIs
  <2>2. QED
    BY <1>2, <2>1
<1>8. /\ nodes'[p] = g /\ rows'[p] = {} /\ touched'[p] = {} /\ events'[p] = << >>
      /\ DOMAIN nodes' = Peers /\ DOMAIN rows' = Peers
      /\ DOMAIN touched' = Peers /\ DOMAIN events' = Peers
      /\ \A q \in Peers \ {p} : /\ nodes'[q] = nodes[q] /\ rows'[q] = rows[q]
                                /\ touched'[q] = touched[q] /\ events'[q] = events[q]
  BY <1>2, <1>3
<1>9. OnlyAt(p)
  BY <1>2, <1>8 DEF OnlyAt
<1>10. << >> \in Seq(Events)
  OBVIOUS
<1>11. Types'
  <2>1. PeerTypes(nodes'[p], rows'[p], store'[p], files'[p], touched'[p], events'[p])
    BY <1>2, <1>5, <1>6, <1>8, <1>10 DEF PeerTypes
  <2>2. QED
    BY <1>2, <1>3, <1>4, <1>7, <1>8, <1>9, <2>1, TypesAgain DEF Base
<1>12. Base'
  BY <1>2, <1>6, <1>8, <1>9, <1>11, BaseAgain
<1>13. StaysOwn(p)
  <2>1. OwnEvents(use, p, << >>) /\ OwnRows(use, p, {})
    BY DEF OwnEvents, OwnRows, Current
  <2>2. QED
    BY <1>2, <1>6, <1>8, <2>1 DEF StaysOwn, OwnAt, AllOwn
<1>14. QED
  BY <1>6, <1>8, <1>9, <1>12, <1>13 DEF StartIs

-----------------------------------------------------------------------------
(***************************************************************************)
(* Renames                                                                 *)
(***************************************************************************)

LEMMA OutRenamedIs ==
  ASSUME NEW out \in Outs, NEW old, NEW new \in Names
  PROVE  OutRenamed(out, old, new) \in Outs
<1>1. CASE old \notin DOMAIN out
  BY <1>1 DEF OutRenamed
<1>2. CASE old \in DOMAIN out
  <2>1. PICK S \in SUBSET Names : out \in [S -> Given]
    BY DEF Outs
  <2>2. PICK o : o = With(Without(out, old), new, out[old])
    OBVIOUS
  <2>3. o \in [(S \ {old}) \cup {new} -> Given]
    <3>1. DOMAIN Without(out, old) = S \ {old} /\ \A x \in S \ {old} : Without(out, old)[x] = out[x]
      BY <2>1 DEF Without
    <3>2. o = [x \in (S \ {old}) \cup {new} |-> IF x = new THEN out[old] ELSE Without(out, old)[x]]
      BY <2>2, <3>1 DEF With
    <3>3. \A x \in (S \ {old}) \cup {new} :
            (IF x = new THEN out[old] ELSE Without(out, old)[x]) \in Given
      BY <1>2, <2>1, <3>1
    <3>4. QED
      BY <3>2, <3>3
  <2>4. (S \ {old}) \cup {new} \in SUBSET Names
    BY <2>1
  <2>5. o \in Outs
    BY <2>3, <2>4 DEF Outs
  <2>6. QED
    BY <1>2, <2>2, <2>5 DEF OutRenamed
<1>3. QED
  BY <1>1, <1>2

LEMMA SourceRenamedIs ==
  ASSUME NEW n \in Node, NEW old, NEW new \in Names
  PROVE  /\ SourceRenamed(n, old, new) \in Node /\ SourceRenamed(n, old, new).made = FALSE
         /\ HashesOf(SourceRenamed(n, old, new).defs) = HashesOf(n.defs)
<1>1. PICK d \in Seq(Defs) : d = n.defs
  BY DEF Node
<1>2. PICK e : e = [i \in DOMAIN d |-> DefRenamed(d[i], old, new)]
  OBVIOUS
<1>3. e \in Seq(Defs)
  <2>1. \A x \in Defs : DefRenamed(x, old, new) \in Defs
    BY DEF DefRenamed, Defs
  <2>2. DOMAIN d = 1 .. Len(d) /\ Len(d) \in Nat /\ \A i \in DOMAIN d : d[i] \in Defs
    BY DefsAre
  <2>3. e \in [1 .. Len(d) -> Defs]
    BY <1>2, <2>1, <2>2
  <2>4. QED
    BY <2>2, <2>3, SeqDef
<1>4. PICK s \in SUBSET Names : s = {IF x = old THEN new ELSE x : x \in n.exports}
  BY DEF Node
<1>5. PICK o \in Outs : o = OutRenamed(n.out, old, new)
  <2>1. n.out \in Outs
    BY DEF Node
  <2>2. QED
    BY <2>1, OutRenamedIs
<1>6. SourceRenamed(n, old, new) = [n EXCEPT !.defs = e, !.exports = s, !.out = o, !.made = FALSE]
  BY <1>1, <1>2, <1>4, <1>5 DEF SourceRenamed
<1>7. HashesOf(e) = HashesOf(d)
  <2>1. \A x \in Defs : DefRenamed(x, old, new).hash = x.hash
    BY DEF DefRenamed, Defs
  <2>2. DOMAIN e = DOMAIN d /\ \A i \in DOMAIN d : e[i].hash = d[i].hash
    BY <1>2, <2>1, DefsAre
  <2>3. QED
    BY <2>2 DEF HashesOf
<1>8. QED
  BY <1>1, <1>3, <1>6, <1>7 DEF Node

LEMMA CodeRewrittenIs ==
  ASSUME NEW defs \in Seq(Defs), NEW old \in Names, NEW new \in Names
  PROVE  /\ CodeRewritten(defs, old, new) \in Seq(Defs)
         /\ DOMAIN CodeRewritten(defs, old, new) = DOMAIN defs
         /\ \A i \in DOMAIN defs :
              CodeRewritten(defs, old, new)[i].hash = Rewritten[old][new][defs[i].hash]
<1>1. PICK code : code = CodeRewritten(defs, old, new)
  OBVIOUS
<1>2. PICK R \in [Hashes -> Hashes] : R = Rewritten[old][new]
  BY ConstantsAssumption
<1>. DEFINE D(d) == [d EXCEPT !.name = IF @ = old THEN new ELSE @, !.hash = R[@]]
<1>3. code = [i \in DOMAIN defs |-> D(defs[i])]
  BY <1>1, <1>2 DEF CodeRewritten
<1>4. \A d \in Defs : D(d) \in Defs /\ D(d).hash = R[d.hash]
  <2>1. ASSUME NEW d \in Defs PROVE D(d) \in Defs /\ D(d).hash = R[d.hash]
    <3>1. R[d.hash] \in Hashes /\ d.name \in Names
      BY DEF Defs
    <3>2. QED
      BY <3>1 DEF Defs
  <2>2. QED
    BY <2>1
<1>. HIDE DEF D
<1>5. DOMAIN defs = 1 .. Len(defs) /\ Len(defs) \in Nat /\ \A i \in DOMAIN defs : defs[i] \in Defs
  BY DefsAre
<1>6. code \in Seq(Defs)
  <2>1. code \in [1 .. Len(defs) -> Defs]
    BY <1>3, <1>4, <1>5
  <2>2. QED
    BY <1>5, <2>1, SeqDef
<1>7. DOMAIN code = DOMAIN defs /\ \A i \in DOMAIN defs : code[i].hash = R[defs[i].hash]
  BY <1>3, <1>4, <1>5
<1>8. QED
  BY <1>1, <1>2, <1>6, <1>7

LEMMA ImportRenamedIs ==
  ASSUME NEW n \in Node, NEW h, NEW old \in Names, NEW new \in Names
  PROVE  /\ ImportRenamed(n, h, old, new) \in Node
         /\ ImportRenamed(n, h, old, new).made => n.made
         /\ ImportRenamed(n, h, old, new).exports = n.exports
         /\ ImportRenamed(n, h, old, new).out = n.out
         /\ \A u, p, l : HashesOf(n.defs) \subseteq OwnHashes(u, p, l) =>
              HashesOf(ImportRenamed(n, h, old, new).defs) \subseteq OwnHashes(u, p, l)
<1>1. CASE [hash |-> h, name |-> old] \notin n.hashes
  BY <1>1 DEF ImportRenamed
<1>2. CASE [hash |-> h, name |-> old] \in n.hashes
  <2>1. n.defs \in Seq(Defs) /\ n.hashes \in SUBSET HashImports /\ n.made \in BOOLEAN
    BY DEF Node
  <2>2. PICK s \in SUBSET HashImports :
          s = (n.hashes \ {[hash |-> h, name |-> old]}) \cup {[hash |-> h, name |-> new]}
    <3>1. h \in Hashes
      BY <1>2, <2>1 DEF HashImports
    <3>2. [hash |-> h, name |-> new] \in HashImports
      BY <3>1 DEF HashImports
    <3>3. QED
      BY <2>1, <3>2
  <2>3. PICK code \in Seq(Defs) : code = CodeRewritten(n.defs, old, new)
    BY <2>1, CodeRewrittenIs
  <2>4. PICK made \in BOOLEAN : made = (n.made /\ code = n.defs)
    OBVIOUS
  <2>5. ImportRenamed(n, h, old, new) = [n EXCEPT !.hashes = s, !.defs = code, !.made = made]
    BY <1>2, <2>2, <2>3, <2>4 DEF ImportRenamed
  <2>6. \A u, p, l : HashesOf(n.defs) \subseteq OwnHashes(u, p, l) =>
          HashesOf(code) \subseteq OwnHashes(u, p, l)
    <3>1. ASSUME NEW u, NEW p, NEW l, HashesOf(n.defs) \subseteq OwnHashes(u, p, l),
                 NEW i \in DOMAIN code
          PROVE  code[i].hash \in OwnHashes(u, p, l)
      <4>1. i \in DOMAIN n.defs /\ code[i].hash = Rewritten[old][new][n.defs[i].hash]
        BY <2>1, <2>3, CodeRewrittenIs
      <4>2. n.defs[i].hash \in OwnHashes(u, p, l)
        BY <3>1, <4>1 DEF HashesOf
      <4>3. QED
        BY <4>1, <4>2, RewrittenAreOwn
    <3>2. QED
      BY <3>1 DEF HashesOf
  <2>7. PICK m : m = [n EXCEPT !.hashes = s, !.defs = code, !.made = made]
    OBVIOUS
  <2>8. /\ m \in Node /\ m.made = made /\ m.exports = n.exports /\ m.out = n.out /\ m.defs = code
    BY <2>7 DEF Node
  <2>9. QED
    BY <2>4, <2>5, <2>6, <2>7, <2>8
<1>3. QED
  BY <1>1, <1>2

\* Several nodes are written with their files.
WrittenTogether(g, f, G, F, W) ==
  /\ DOMAIN G = DOMAIN g /\ W \in SUBSET DOMAIN G /\ \A x \in DOMAIN G \ W : G[x] = g[x]
  /\ DOMAIN F = DOMAIN f \cup W
  /\ \A x \in DOMAIN F : F[x] = IF x \in W THEN FileOf(G[x]) ELSE f[x]

LEMMA ManySavedAreSound ==
  ASSUME NEW g, NEW f, NEW w, NEW e, FilesSound(g, f, w, e), AreFiles(f),
         NEW G, IsGraph(G), NEW F, NEW W, WrittenTogether(g, f, G, F, W)
  PROVE  AreFiles(F) /\ FilesSound(G, F, w \cup W, e)
<1>. USE DEF WrittenTogether
<1>1. \A x \in W : G[x] \in Node /\ x \in Labels
  BY DEF IsGraph
<1>2. \A x \in W : /\ FileOf(G[x]) \in Texts /\ G[x].hashes \subseteq FileOf(G[x]).pragmas
                   /\ F[x] = FileOf(G[x])
  BY <1>1, NodesAre
<1>3. \A x \in DOMAIN f \ W : F[x] = f[x]
  OBVIOUS
<1>4. AreFiles(F)
  BY <1>1, <1>2, <1>3 DEF AreFiles
<1>5. ASSUME NEW x \in DOMAIN G
      PROVE  FileSound(G[x], x \in DOMAIN F, F[x], x, w \cup W, e)
  <2>1. CASE x \in W
    <3>1. x \in DOMAIN F
      BY <2>1
    <3>2. QED
      BY <1>2, <2>1, <3>1 DEF FileSound
  <2>2. CASE x \notin W
    <3>1. FileSound(g[x], x \in DOMAIN f, f[x], x, w, e)
      BY DEF FilesSound
    <3>2. G[x] = g[x] /\ (x \in DOMAIN F <=> x \in DOMAIN f)
      BY <2>2
    <3>3. CASE x \in DOMAIN f
      BY <1>3, <2>2, <3>1, <3>2, <3>3 DEF FileSound
    <3>4. CASE x \notin DOMAIN f
      BY <2>2, <3>1, <3>2, <3>4 DEF FileSound
    <3>5. QED
      BY <3>3, <3>4
  <2>3. QED
    BY <2>1, <2>2
<1>6. QED
  BY <1>4, <1>5 DEF FilesSound

\* The nodes of the canvas follow a rename, the one at the row's label with
\* its definitions; its program counts as computed no more.
RowsAfter(p, r, new) == RowsRenamed(rows[p], r.hash, r.name, new, CanvasOf[r.label])
RenameIs(p, r, new) ==
  /\ Base' /\ OnlyAt(p) /\ StaysOwn(p) /\ DOMAIN nodes'[p] = DOMAIN nodes[p]
  /\ "rename" \in use.ops[p]
  /\ r \in Current(rows[p]) /\ r.label \in Labels /\ new \in Names
  /\ use.fresh => new \notin NamesOn(p, CanvasOf[r.label])
  /\ \A l \in DOMAIN nodes[p] : nodes'[p][l].made =>
       /\ l # r.label /\ nodes[p][l].made /\ nodes'[p][l].exports = nodes[p][l].exports
       /\ nodes'[p][l].out = nodes[p][l].out
  /\ \/ /\ r.label \in DOMAIN nodes[p]
        /\ \E defs \in Seq(Defs) :
             /\ rows'[p] = NodeRegistered(RowsAfter(p, r, new), r.label, defs)
             /\ store'[p] = BodiesSaved(store[p], defs)
     \/ /\ r.label \notin DOMAIN nodes[p]
        /\ rows'[p] = RowsAfter(p, r, new) /\ store'[p] = store[p]

LEMMA RenameStep ==
  ASSUME Base, NEW p \in Peers, NEW r \in rows[p], NEW new \in Names, Rename(p, r, new)
  PROVE  RenameIs(p, r, new)
<1>1. /\ IsGraph(nodes[p]) /\ rows[p] \in SUBSET Rows /\ IsStore(store[p])
      /\ AreFiles(files[p]) /\ touched[p] \in SUBSET Labels /\ events[p] \in Seq(Events)
      /\ FilesSound(nodes[p], files[p], touched[p], events[p])
      /\ DOMAIN nodes = Peers /\ DOMAIN rows = Peers /\ DOMAIN store = Peers
      /\ DOMAIN files = Peers /\ DOMAIN touched = Peers /\ DOMAIN events = Peers
  BY PeerIs DEF Base, Types, PeerTypes
<1>2. /\ Command(p, "rename") /\ r \in Current(rows[p]) /\ r.label # Network
      /\ use.fresh => new \notin NamesOn(p, CanvasOf[r.label])
  BY DEF Rename
<1>3. /\ use' = use /\ spent' \in 0 .. use.most /\ lost' \in BOOLEAN /\ events' = events
      /\ inbox' \in [Peers -> SUBSET (Requested \cup Responses)]
  BY <1>2, CommandIs
<1>4. r.label \in Labels
  BY <1>1, <1>2 DEF Rows
<1>. DEFINE l0 == r.label
            canvas == CanvasOf[r.label]
            here == {l \in DOMAIN nodes[p] : CanvasOf[l] = canvas}
            renamed == RowsRenamed(rows[p], r.hash, r.name, new, canvas)
            source == [nodes[p] EXCEPT ![r.label] = SourceRenamed(@, r.name, new)]
            before == IF r.label \in here THEN source ELSE nodes[p]
            after == [l \in DOMAIN nodes[p] |->
                        IF l \in here THEN ImportRenamed(before[l], r.hash, r.name, new) ELSE before[l]]
            written == (here \cap {r.label}) \cup {l \in here : after[l] # before[l]}
            onDisk == [l \in DOMAIN files[p] \cup written |->
                         IF l \in written THEN FileOf(after[l]) ELSE files[p][l]]
<1>5. /\ nodes' = [nodes EXCEPT ![p] = after] /\ files' = [files EXCEPT ![p] = onDisk]
      /\ touched' = [touched EXCEPT ![p] = touched[p] \cup written]
      /\ IF r.label \in here
         THEN /\ rows' = [rows EXCEPT ![p] = NodeRegistered(renamed, r.label, after[r.label].defs)]
              /\ store' = [store EXCEPT ![p] = BodiesSaved(store[p], after[r.label].defs)]
         ELSE rows' = [rows EXCEPT ![p] = renamed] /\ UNCHANGED store
  BY DEF Rename
<1>6. r.label \in here <=> r.label \in DOMAIN nodes[p]
  OBVIOUS
<1>7. renamed \in SUBSET Rows /\ renamed = RowsAfter(p, r, new)
  BY <1>1, RowsRenamedIs DEF RowsAfter
<1>8. ASSUME NEW l \in DOMAIN nodes[p]
      PROVE  /\ before[l] \in Node
             /\ l # r.label => before[l] = nodes[p][l]
             /\ l = r.label => before[l].made = FALSE
             /\ HashesOf(before[l].defs) = HashesOf(nodes[p][l].defs)
  <2>1. CASE l # r.label
    BY <1>1, <2>1 DEF IsGraph
  <2>2. CASE l = r.label
    <3>1. before[l] = SourceRenamed(nodes[p][l], r.name, new)
      BY <2>2
    <3>2. nodes[p][l] \in Node
      BY NodeIs
    <3>3. /\ before[l] \in Node /\ before[l].made = FALSE
          /\ HashesOf(before[l].defs) = HashesOf(nodes[p][l].defs)
      <4>1. PICK n \in Node : n = nodes[p][l]
        BY <3>2
      <4>2. /\ SourceRenamed(n, r.name, new) \in Node
            /\ SourceRenamed(n, r.name, new).made = FALSE
            /\ HashesOf(SourceRenamed(n, r.name, new).defs) = HashesOf(n.defs)
        BY SourceRenamedIs
      <4>3. QED
        BY <3>1, <4>1, <4>2
    <3>4. QED
      BY <2>2, <3>3
  <2>3. QED
    BY <2>1, <2>2
<1>9. DOMAIN after = DOMAIN nodes[p]
  OBVIOUS
<1>10. /\ written \in SUBSET DOMAIN nodes[p]
       /\ \A l \in DOMAIN nodes[p] \ written : l # r.label /\ (l \in here => after[l] = before[l])
  BY <1>6
<1>11. \A l \in DOMAIN nodes[p] :
         after[l] = IF l \in here THEN ImportRenamed(before[l], r.hash, r.name, new) ELSE before[l]
  OBVIOUS
<1>12. /\ DOMAIN onDisk = DOMAIN files[p] \cup written
       /\ \A l \in DOMAIN onDisk : onDisk[l] = IF l \in written THEN FileOf(after[l]) ELSE files[p][l]
  OBVIOUS
<1>. HIDE DEF before, source, after, written, onDisk, here
<1>13. ASSUME NEW l \in DOMAIN nodes[p]
       PROVE  /\ after[l] \in Node /\ (after[l].made => before[l].made)
              /\ after[l].exports = before[l].exports /\ after[l].out = before[l].out
              /\ \A u, q, k : HashesOf(before[l].defs) \subseteq OwnHashes(u, q, k) =>
                   HashesOf(after[l].defs) \subseteq OwnHashes(u, q, k)
  <2>1. before[l] \in Node /\ r.name \in Names
    BY <1>1, <1>2, <1>8 DEF Current, Rows
  <2>2. CASE l \in here
    BY <1>11, <2>1, <2>2, ImportRenamedIs
  <2>3. CASE l \notin here
    BY <1>11, <2>1, <2>3
  <2>4. QED
    BY <2>2, <2>3
<1>14. IsGraph(after)
  BY <1>1, <1>9, <1>13 DEF IsGraph
<1>15. \A l \in DOMAIN after \ written : after[l] = nodes[p][l]
  BY <1>8, <1>9, <1>10, <1>11
<1>16. AreFiles(onDisk) /\ FilesSound(after, onDisk, touched[p] \cup written, events[p])
  <2>1. PICK g, f, w, e : g = nodes[p] /\ f = files[p] /\ w = touched[p] /\ e = events[p]
    OBVIOUS
  <2>2. FilesSound(g, f, w, e) /\ AreFiles(f) /\ w \in SUBSET Labels
    BY <1>1, <2>1
  <2>3. DOMAIN after = DOMAIN g /\ written \in SUBSET DOMAIN after
    BY <1>9, <1>10, <2>1
  <2>4. \A x \in DOMAIN after \ written : after[x] = g[x]
    BY <1>15, <2>1
  <2>5. /\ DOMAIN onDisk = DOMAIN f \cup written
        /\ \A l \in DOMAIN onDisk : onDisk[l] = IF l \in written THEN FileOf(after[l]) ELSE f[l]
    BY <1>12, <2>1
  <2>6. WrittenTogether(g, f, after, onDisk, written)
    BY <2>3, <2>4, <2>5 DEF WrittenTogether
  <2>7. AreFiles(onDisk) /\ FilesSound(after, onDisk, w \cup written, e)
    BY <1>14, <2>2, <2>6, ManySavedAreSound
  <2>8. QED
    BY <2>1, <2>7
<1>17. /\ nodes'[p] = after /\ files'[p] = onDisk /\ touched'[p] = touched[p] \cup written
       /\ DOMAIN nodes' = Peers /\ DOMAIN files' = Peers /\ DOMAIN touched' = Peers
       /\ \A q \in Peers \ {p} : /\ nodes'[q] = nodes[q] /\ files'[q] = files[q]
                                 /\ touched'[q] = touched[q]
  BY <1>1, <1>5
<1>18. /\ rows'[p] \in SUBSET Rows /\ IsStore(store'[p])
       /\ DOMAIN rows' = Peers /\ DOMAIN store' = Peers
       /\ \A q \in Peers \ {p} : rows'[q] = rows[q] /\ store'[q] = store[q]
       /\ \/ /\ r.label \in DOMAIN nodes[p]
             /\ \E defs \in Seq(Defs) :
                  /\ rows'[p] = NodeRegistered(RowsAfter(p, r, new), r.label, defs)
                  /\ store'[p] = BodiesSaved(store[p], defs)
          \/ /\ r.label \notin DOMAIN nodes[p]
             /\ rows'[p] = RowsAfter(p, r, new) /\ store'[p] = store[p]
  <2>. HIDE DEF renamed
  <2>1. CASE r.label \in DOMAIN nodes[p]
    <3>1. PICK d \in Seq(Defs) : d = after[r.label].defs
      BY <1>13, <2>1 DEF Node
    <3>2. NodeRegistered(renamed, r.label, d) \in SUBSET Rows /\ IsStore(BodiesSaved(store[p], d))
      BY <1>1, <1>4, <1>7, NodeRegisteredIs, BodiesSavedIs
    <3>3. /\ rows' = [rows EXCEPT ![p] = NodeRegistered(renamed, r.label, d)]
          /\ store' = [store EXCEPT ![p] = BodiesSaved(store[p], d)]
      BY <1>5, <1>6, <2>1, <3>1
    <3>4. QED
      BY <1>1, <1>7, <2>1, <3>2, <3>3
  <2>2. CASE r.label \notin DOMAIN nodes[p]
    <3>1. rows' = [rows EXCEPT ![p] = renamed] /\ store' = store
      BY <1>5, <1>6, <2>2
    <3>2. QED
      BY <1>1, <1>7, <2>2, <3>1
  <2>3. QED
    BY <2>1, <2>2
<1>19. OnlyAt(p)
  BY <1>3, <1>17, <1>18 DEF OnlyAt
<1>20. Types'
  <2>1. touched'[p] \in SUBSET Labels
    BY <1>1, <1>10, <1>17 DEF IsGraph
  <2>2. PeerTypes(nodes'[p], rows'[p], store'[p], files'[p], touched'[p], events'[p])
    BY <1>1, <1>3, <1>14, <1>16, <1>17, <1>18, <2>1 DEF PeerTypes
  <2>3. DOMAIN events' = Peers
    BY <1>1, <1>3
  <2>4. QED
    BY <1>3, <1>17, <1>18, <1>19, <2>2, <2>3, TypesAgain DEF Base
<1>21. Base'
  <2>1. FilesSound(nodes'[p], files'[p], touched'[p], events'[p])
    BY <1>3, <1>16, <1>17
  <2>2. QED
    BY <1>19, <1>20, <2>1, BaseAgain
<1>22. \A l \in DOMAIN nodes[p] : nodes'[p][l].made =>
         /\ l # r.label /\ nodes[p][l].made /\ nodes'[p][l].exports = nodes[p][l].exports
         /\ nodes'[p][l].out = nodes[p][l].out
  <2>1. ASSUME NEW l \in DOMAIN nodes[p], nodes'[p][l].made
        PROVE  /\ l # r.label /\ nodes[p][l].made /\ nodes'[p][l].exports = nodes[p][l].exports
               /\ nodes'[p][l].out = nodes[p][l].out
    <3>1. before[l].made /\ nodes'[p][l].exports = before[l].exports /\ nodes'[p][l].out = before[l].out
      BY <1>13, <1>17, <2>1
    <3>2. l # r.label
      BY <1>8, <3>1
    <3>3. before[l] = nodes[p][l]
      BY <1>8, <3>2
    <3>4. QED
      BY <3>1, <3>2, <3>3
  <2>2. QED
    BY <2>1
<1>23. StaysOwn(p)
  <2>1. SUFFICES ASSUME OwnAt(p)
                 PROVE  AllOwn(use, p, nodes'[p], files'[p], events'[p], rows'[p])
    BY DEF StaysOwn
  <2>2. \A l \in DOMAIN nodes[p] : HashesOf(after[l].defs) \subseteq OwnHashes(use, p, l)
    BY <1>8, <1>13, <2>1, OwnOf
  <2>3. OwnDefs(use, p, after)
    BY <1>9, <2>2 DEF OwnDefs
  <2>4. \A l \in written : FileOf(after[l]).defs = after[l].defs
    BY <1>10, <1>13, NodesAre
  <2>5. OwnDefs(use, p, onDisk)
    <3>1. ASSUME NEW l \in DOMAIN onDisk
          PROVE  HashesOf(onDisk[l].defs) \subseteq OwnHashes(use, p, l)
      <4>1. CASE l \in written
        BY <1>10, <1>12, <2>2, <2>4, <4>1
      <4>2. CASE l \notin written
        BY <1>12, <2>1, <4>2 DEF OwnAt, AllOwn, OwnDefs
      <4>3. QED
        BY <4>1, <4>2
    <3>2. QED
      BY <3>1 DEF OwnDefs
  <2>6. OwnRows(use, p, RowsAfter(p, r, new))
    <3>1. \A s \in Current(RowsAfter(p, r, new)) : \E q \in Current(rows[p]) :
            s.hash = q.hash /\ s.label = q.label
      BY <1>1, RowsRenamedIs DEF RowsAfter
    <3>2. QED
      BY <2>1, <3>1 DEF OwnAt, AllOwn, OwnRows
  <2>7. OwnRows(use, p, rows'[p])
    <3>1. CASE r.label \in DOMAIN nodes[p]
      <4>1. PICK d \in Seq(Defs) : d = after[r.label].defs
        BY <1>13, <3>1 DEF Node
      <4>2. rows'[p] = NodeRegistered(RowsAfter(p, r, new), r.label, d)
        BY <1>1, <1>5, <1>6, <1>7, <3>1, <4>1
      <4>3. \A s \in Current(rows'[p]) : \/ s \in Current(RowsAfter(p, r, new))
                                         \/ LastOf(s, r.label, d)
        BY <1>4, <1>7, <4>2, NodeRegisteredIs
      <4>4. QED
        <5>1. \A i \in DOMAIN d : d[i].hash \in OwnHashes(use, p, r.label)
          <6>1. HashesOf(d) \subseteq OwnHashes(use, p, r.label)
            BY <2>2, <3>1, <4>1
          <6>2. QED
            BY <6>1 DEF HashesOf
        <5>2. \A s \in Current(rows'[p]) : LastOf(s, r.label, d) => s.hash \in OwnHashes(use, p, s.label)
          BY <5>1 DEF LastOf
        <5>3. QED
          BY <2>6, <4>3, <5>2 DEF OwnRows
    <3>2. CASE r.label \notin DOMAIN nodes[p]
      BY <1>18, <2>6, <3>2
    <3>3. QED
      BY <3>1, <3>2
  <2>8. QED
    BY <1>3, <1>17, <2>1, <2>3, <2>5, <2>7 DEF OwnAt, AllOwn
<1>24. "rename" \in use.ops[p]
  BY <1>2 DEF Command
<1>25. QED
  BY <1>2, <1>4, <1>9, <1>17, <1>18, <1>19, <1>21, <1>22, <1>23, <1>24 DEF RenameIs

-----------------------------------------------------------------------------
(***************************************************************************)
(* Every behaviour                                                         *)
(***************************************************************************)

LEMMA InitIsBase ==
  ASSUME Init
  PROVE  /\ Base /\ \A p \in Peers : rows[p] = {} /\ OwnAt(p)
         /\ \A p \in Peers : \A l \in DOMAIN nodes[p] : nodes[p][l].made = FALSE
<1>1. /\ use \in Uses /\ spent = 0 /\ lost = FALSE
      /\ files = [p \in Peers |-> [l \in DOMAIN use.start[p] |->
                    [defs |-> use.start[p][l].defs, pragmas |-> use.start[p][l].hashes]]]
      /\ nodes = [p \in Peers |-> Started(p, files[p])]
      /\ rows = [p \in Peers |-> {}] /\ store = [p \in Peers |-> [h \in {} |-> None]]
      /\ touched = [p \in Peers |-> {}] /\ events = [p \in Peers |-> << >>]
      /\ inbox = [p \in Peers |-> UNION {Requests(nodes[q], {}) : q \in Peers \ {p}}]
  BY DEF Init
<1>2. spent \in 0 .. use.most
  BY <1>1, UsesAre
<1>3. ASSUME NEW p \in Peers
      PROVE  AreFiles(files[p]) /\ OwnDefs(use, p, files[p])
  <2>1. /\ DOMAIN files[p] = DOMAIN use.start[p] /\ DOMAIN files[p] \subseteq Labels
        /\ \A l \in DOMAIN files[p] : files[p][l] = [defs |-> use.start[p][l].defs,
                                                     pragmas |-> use.start[p][l].hashes]
    BY <1>1, UsesAre
  <2>2. \A l \in DOMAIN files[p] : use.start[p][l] \in Programs
    BY <1>1, <2>1, UsesAre
  <2>3. AreFiles(files[p])
    <3>1. ASSUME NEW l \in DOMAIN files[p] PROVE files[p][l] \in Texts
      <4>1. PICK n \in Programs : n = use.start[p][l]
        BY <2>2
      <4>2. files[p][l] = [defs |-> n.defs, pragmas |-> n.hashes]
        BY <2>1, <4>1
      <4>3. QED
        BY <4>2 DEF Texts, Programs
    <3>2. QED
      BY <2>1, <3>1 DEF AreFiles
  <2>4. \A l \in DOMAIN files[p] : HashesOf(files[p][l].defs) \subseteq OwnHashes(use, p, l)
    <3>1. ASSUME NEW l \in DOMAIN files[p]
          PROVE  HashesOf(files[p][l].defs) \subseteq OwnHashes(use, p, l)
      <4>1. files[p][l].defs = use.start[p][l].defs /\ l \in {l} \cap DOMAIN use.start[p]
        <5>1. PICK n \in Programs : n = use.start[p][l]
          BY <2>2
        <5>2. files[p][l] = [defs |-> n.defs, pragmas |-> n.hashes]
          BY <2>1, <5>1
        <5>3. QED
          BY <2>1, <5>1, <5>2
      <4>2. HashesOf(use.start[p][l].defs) \subseteq OwnHashes(use, p, l)
        <5>1. use.start[p][l].defs \in Seq(Defs)
          BY <2>2 DEF Programs
        <5>2. HashesOf(use.start[p][l].defs) \subseteq Programmed(use, p, l)
          BY <4>1 DEF Programmed
        <5>3. QED
          BY <5>1, <5>2, ProgrammedAreOwn
      <4>3. QED
        BY <4>1, <4>2
    <3>2. QED
      BY <3>1
  <2>5. QED
    BY <2>3, <2>4 DEF OwnDefs
<1>4. ASSUME NEW p \in Peers
      PROVE  /\ IsGraph(nodes[p]) /\ FilesSound(nodes[p], files[p], {}, << >>)
             /\ OwnDefs(use, p, nodes[p]) /\ \A l \in DOMAIN nodes[p] : nodes[p][l].made = FALSE
  <2>1. PICK f : f = files[p]
    OBVIOUS
  <2>2. nodes[p] = Started(p, f)
    BY <1>1, <2>1
  <2>3. use \in Uses /\ AreFiles(f) /\ OwnDefs(use, p, f)
    BY <1>1, <1>3, <2>1
  <2>4. /\ IsGraph(Started(p, f)) /\ FilesSound(Started(p, f), f, {}, << >>)
        /\ OwnDefs(use, p, Started(p, f))
        /\ \A l \in DOMAIN Started(p, f) : Started(p, f)[l].made = FALSE
    BY <2>3, StartedIs
  <2>5. QED
    BY <2>1, <2>2, <2>4
<1>5. inbox \in [Peers -> SUBSET (Requested \cup Responses)]
  <2>1. \A q \in Peers : Requests(nodes[q], {}) \subseteq Requested
    BY <1>4, RequestsAre
  <2>2. \A p \in Peers :
          UNION {Requests(nodes[q], {}) : q \in Peers \ {p}} \in SUBSET (Requested \cup Responses)
    BY <2>1
  <2>3. QED
    BY <1>1, <2>2
<1>6. ASSUME NEW p \in Peers
      PROVE  /\ PeerTypes(nodes[p], rows[p], store[p], files[p], touched[p], events[p])
             /\ rows[p] = {} /\ touched[p] = {} /\ events[p] = << >>
  <2>1. rows[p] = {} /\ store[p] = [h \in {} |-> None] /\ touched[p] = {} /\ events[p] = << >>
    BY <1>1
  <2>2. IsStore([h \in {} |-> None])
    BY DEF IsStore
  <2>3. << >> \in Seq(Events)
    OBVIOUS
  <2>4. QED
    BY <1>3, <1>4, <2>1, <2>2, <2>3 DEF PeerTypes
<1>7. Base
  <2>1. /\ DOMAIN nodes = Peers /\ DOMAIN rows = Peers /\ DOMAIN store = Peers
        /\ DOMAIN files = Peers /\ DOMAIN touched = Peers /\ DOMAIN events = Peers
    BY <1>1
  <2>2. Types
    BY <1>1, <1>2, <1>5, <1>6, <2>1 DEF Types
  <2>3. QED
    BY <1>4, <1>6, <2>2 DEF Base
<1>8. ASSUME NEW p \in Peers PROVE OwnAt(p)
  <2>1. OwnEvents(use, p, << >>) /\ OwnRows(use, p, {})
    BY DEF OwnEvents, OwnRows, Current
  <2>2. QED
    BY <1>3, <1>4, <1>6, <2>1 DEF OwnAt, AllOwn
<1>9. QED
  BY <1>4, <1>6, <1>7, <1>8

\* What a peer's step can be.
StepOf(p) ==
  \/ QuietStep(p)
  \/ \E l \in Labels, m \in Node : NodeStep(p, l, m)
  \/ \E m \in inbox[p] : ReceiveIs(p, m)
  \/ StartIs(p)
  \/ \E r \in rows[p], new \in Names : RenameIs(p, r, new)

LEMMA Steps ==
  ASSUME Base, Next
  PROVE  \E p \in Peers : StepOf(p)
<1>1. PICK p \in Peers :
        \/ Commands(p) \/ Own(p) \/ Messages(p) \/ RequestMissing(p) \/ Restart(p)
        \/ \E m \in inbox[p] : Lose(p, m)
  BY DEF Next
<1>2. CASE Commands(p)
  <2>1. ASSUME NEW l \in Labels, NEW n \in use.code[l], Create(p, l, n) PROVE StepOf(p)
    BY <2>1, CreateStep DEF StepOf
  <2>2. ASSUME NEW l \in Labels, NEW n \in use.code[l], Update(p, l, n) PROVE StepOf(p)
    BY <2>2, UpdateStep DEF StepOf
  <2>3. ASSUME NEW l \in Labels, Delete(p, l) PROVE StepOf(p)
    BY <2>3, DeleteStep DEF StepOf
  <2>4. ASSUME NEW l \in Labels, Compute(p, l) PROVE StepOf(p)
    BY <2>4, ComputeStep, StillQuiet DEF StepOf
  <2>5. ASSUME NEW l \in Labels, NEW i \in use.imports, AddHashImport(p, l, i) PROVE StepOf(p)
    BY <2>5, AddHashImportStep DEF StepOf
  <2>6. ASSUME NEW l \in Labels, Migrate(p, l) PROVE StepOf(p)
    BY <2>6, MigrateStep DEF StepOf
  <2>7. ASSUME NEW r \in rows[p], NEW new \in Names, Rename(p, r, new) PROVE StepOf(p)
    BY <2>7, RenameStep DEF StepOf
  <2>8. QED
    BY <1>2, <2>1, <2>2, <2>3, <2>4, <2>5, <2>6, <2>7 DEF Commands
<1>3. CASE Own(p)
  <2>1. ASSUME NEW l \in Labels, Result(p, l) PROVE StepOf(p)
    BY <2>1, ResultStep DEF StepOf
  <2>2. ASSUME NEW l \in Labels, Fails(p, l) PROVE StepOf(p)
    BY <2>2, FailsStep DEF StepOf
  <2>3. ASSUME NEW l \in Labels, Notice(p, l) PROVE StepOf(p)
    BY <2>3, NoticeStep DEF StepOf
  <2>4. ASSUME Reload(p) PROVE StepOf(p)
    BY <2>4, ReloadStep DEF StepOf
  <2>5. QED
    BY <1>3, <2>1, <2>2, <2>3, <2>4 DEF Own
<1>4. CASE Messages(p)
  <2>1. ASSUME NEW m \in inbox[p], Serve(p, m) PROVE StepOf(p)
    BY <2>1, ServeStep DEF StepOf
  <2>2. ASSUME NEW m \in inbox[p], Receive(p, m) PROVE StepOf(p)
    BY <2>2, ReceiveStep DEF StepOf
  <2>3. QED
    BY <1>4, <2>1, <2>2 DEF Messages
<1>5. CASE RequestMissing(p)
  BY <1>5, RequestMissingStep DEF StepOf
<1>6. CASE Restart(p)
  BY <1>6, RestartStep DEF StepOf
<1>7. CASE \E m \in inbox[p] : Lose(p, m)
  BY <1>7, LoseStep DEF StepOf
<1>8. QED
  BY <1>1, <1>2, <1>3, <1>4, <1>5, <1>6, <1>7

LEMMA StepIs ==
  ASSUME Base, NEW p \in Peers, StepOf(p)
  PROVE  Base' /\ OnlyAt(p) /\ StaysOwn(p)
BY DEF StepOf, QuietStep, NodeStep, ReceiveIs, StartIs, RenameIs

LEMMA Stuttering ==
  ASSUME UNCHANGED vars
  PROVE  UNCHANGED <<use, spent, nodes, rows, store, files, touched, events, inbox, lost>>
BY DEF vars, memory, disk, watch, net

LEMMA BaseIsInvariant == Spec => []Base
<1>1. Base /\ [Next]_vars => Base'
  <2>1. CASE Next
    BY <2>1, Steps, StepIs
  <2>2. CASE UNCHANGED vars
    BY <2>2, Stuttering DEF Base, Types
  <2>3. QED
    BY <2>1, <2>2
<1>2. QED
  BY <1>1, InitIsBase, PTL DEF Spec

\* When the watcher has nothing to report, a start from a node's file gives its
\* definitions and every import the parser takes (file_watcher.rs, persistence.rs
\* save_node_file, parse_hash_import_pragmas): nodes written while an earlier
\* report waits are reported again.
THEOREM FilesAreAlwaysNodes == Spec => []FileIsNode
<1>1. Base => FileIsNode
  <2>1. SUFFICES ASSUME Base, NEW p \in Peers, NEW l \in DOMAIN nodes[p], l \notin touched[p],
                        \A i \in DOMAIN events[p] : events[p][i].label # l
                 PROVE  IF l \in DOMAIN files[p]
                        THEN /\ files[p][l].defs = nodes[p][l].defs
                             /\ nodes[p][l].hashes \subseteq files[p][l].pragmas
                        ELSE nodes[p][l].defs = << >> /\ nodes[p][l].hashes = {}
    <3>1. ASSUME NEW n, NEW f, f.defs = n.defs, n.hashes \subseteq f.pragmas
          PROVE  /\ Loaded(n, f).defs = n.defs
                 /\ Readable(n.hashes) \subseteq Loaded(n, f).hashes
      BY <3>1 DEF Loaded, NewNode, Readable
    <3>2. QED
      BY <3>1 DEF FileIsNode
  <2>2. FileSound(nodes[p][l], l \in DOMAIN files[p], files[p][l], l, touched[p], events[p])
    BY <2>1, PeerIs DEF FilesSound
  <2>3. Reports(events[p], l) = {}
    <3>1. events[p] \in Seq(Events)
      BY <2>1, PeerIs DEF PeerTypes
    <3>2. DOMAIN events[p] = 1 .. Len(events[p])
      BY <3>1
    <3>3. QED
      BY <2>1, <3>2 DEF Reports
  <2>4. QED
    BY <2>1, <2>2, <2>3 DEF FileSound
<1>2. QED
  BY <1>1, BaseIsInvariant, PTL

LEMMA RowsAreMarked ==
  ASSUME Base, NEW p \in Peers, StepOf(p)
  PROVE  rows'[p] = {} \/ Marked(rows[p], rows'[p])
<1>1. rows[p] \in SUBSET Rows /\ IsStore(store[p])
  BY PeerIs DEF PeerTypes
<1>2. Marked(rows[p], rows[p])
  BY DEF Marked
<1>3. ASSUME NEW l \in Labels, NEW m \in Node, NodeStep(p, l, m)
      PROVE  Marked(rows[p], rows'[p])
  <2>1. m.defs \in Seq(Defs)
    BY DEF Node
  <2>2. rows'[p] = rows[p] \/ rows'[p] = NodeRegistered(rows[p], l, m.defs)
    BY <1>3, RowsAndStore DEF NodeStep
  <2>3. Marked(rows[p], NodeRegistered(rows[p], l, m.defs))
    BY <1>1, <2>1, NodeRegisteredIs
  <2>4. QED
    BY <1>2, <2>2, <2>3
<1>4. ASSUME NEW m \in inbox[p], ReceiveIs(p, m)
      PROVE  Marked(rows[p], rows'[p])
  <2>1. CASE rows'[p] = rows[p]
    BY <1>2, <2>1
  <2>2. CASE rows'[p] # rows[p]
    <3>1. /\ m \in Responses /\ m.body = m.hash /\ m.name # None
          /\ rows'[p] = Registered(rows[p], Network, m)
      BY <1>4, <2>2 DEF ReceiveIs, TakesIn
    <3>2. QED
      BY <1>1, <3>1, RegisteredIs
  <2>3. QED
    BY <2>1, <2>2
<1>5. ASSUME NEW r \in rows[p], NEW new \in Names, RenameIs(p, r, new)
      PROVE  Marked(rows[p], rows'[p])
  <2>1. RowsAfter(p, r, new) \in SUBSET Rows /\ Marked(rows[p], RowsAfter(p, r, new))
    BY <1>1, RowsRenamedIs DEF RowsAfter
  <2>2. CASE \E defs \in Seq(Defs) :
               rows'[p] = NodeRegistered(RowsAfter(p, r, new), r.label, defs)
    <3>1. PICK defs \in Seq(Defs) :
            rows'[p] = NodeRegistered(RowsAfter(p, r, new), r.label, defs)
      BY <2>2
    <3>2. Marked(RowsAfter(p, r, new), rows'[p])
      BY <1>5, <2>1, <3>1, NodeRegisteredIs DEF RenameIs
    <3>3. QED
      BY <2>1, <3>2 DEF Marked
  <2>3. CASE rows'[p] = RowsAfter(p, r, new)
    BY <2>1, <2>3
  <2>4. QED
    BY <1>5, <2>2, <2>3 DEF RenameIs
<1>6. QED
  BY <1>2, <1>3, <1>4, <1>5 DEF StepOf, QuietStep, StartIs

\* db.rs "Old entries ... are marked superseded (not deleted)": no command,
\* result or message takes a definition out of a peer's history, whatever is
\* registered, renamed or received.
THEOREM HistoryIsAlwaysKept == Spec => HistoryKept
<1>1. ASSUME Base, [Next]_vars, NEW p \in Peers, rows'[p] # {}
      PROVE  Marked(rows[p], rows'[p])
  <2>1. CASE rows'[p] = rows[p]
    BY <2>1 DEF Marked
  <2>2. CASE Next /\ rows'[p] # rows[p]
    <3>1. PICK q \in Peers : StepOf(q)
      BY <1>1, <2>2, Steps
    <3>2. q = p
      BY <1>1, <2>2, <3>1, StepIs DEF OnlyAt
    <3>3. QED
      BY <1>1, <3>1, <3>2, RowsAreMarked
  <2>3. QED
    BY <1>1, <2>1, <2>2, Stuttering
<1>2. Base /\ [Next]_vars =>
        [\A p \in Peers, name \in Names, canvas \in Canvases :
           rows'[p] # {} => \A r \in History(rows[p], name, canvas) :
             \E s \in rows'[p] : s.hash = r.hash /\ s.label = r.label /\ (r.old => s = r)]_vars
  BY <1>1 DEF History, Marked
<1>3. QED
  BY <1>2, BaseIsInvariant, PTL DEF Spec, HistoryKept

-----------------------------------------------------------------------------
(***************************************************************************)
(* Definitions have bodies                                                 *)
(***************************************************************************)

\* A rename takes a name that no current definition of the canvas has.
FreshRenames == \A u \in Uses : (\E p \in Peers : "rename" \in u.ops[p]) => u.fresh

LEMMA RenamedIsSound ==
  ASSUME NEW p \in Peers, NEW t, t = rows[p], t \in SUBSET Rows, NEW s, IsStore(s), RowsSound(t, s),
         NEW r \in Current(t), NEW new \in Names, r.label \in Labels,
         new \notin NamesOn(p, CanvasOf[r.label])
  PROVE  RowsSound(RowsAfter(p, r, new), s)
<1>1. \A a \in Current(RowsAfter(p, r, new)) : \E b \in Current(t) :
              /\ a.hash = b.hash /\ a.label = b.label
              /\ \/ a = b
                 \/ /\ b.hash = r.hash /\ b.name = r.name /\ Place(b.label) = CanvasOf[r.label]
                    /\ a = [b EXCEPT !.name = new] /\ a.name = new
  BY RowsRenamedIs DEF RowsAfter
<1>2. \A b \in Current(t) : Place(b.label) = CanvasOf[r.label] => b.name # new
  BY DEF NamesOn
<1>3. Single(RowsAfter(p, r, new))
  <2>1. ASSUME NEW a \in Current(RowsAfter(p, r, new)), NEW c \in Current(RowsAfter(p, r, new)),
               a.label = c.label, a.name = c.name
        PROVE  a = c
    <3>1. PICK b \in Current(t) :
              /\ a.label = b.label
              /\ \/ a = b
                 \/ /\ b.name = r.name /\ Place(b.label) = CanvasOf[r.label]
                    /\ a = [b EXCEPT !.name = new] /\ a.name = new
      BY <1>1
    <3>2. PICK d \in Current(t) :
              /\ c.label = d.label
              /\ \/ c = d
                 \/ /\ d.name = r.name /\ Place(d.label) = CanvasOf[r.label]
                    /\ c = [d EXCEPT !.name = new] /\ c.name = new
      BY <1>1
    <3>3. b.name = d.name
      BY <1>2, <2>1, <3>1, <3>2
    <3>4. b = d
      BY <2>1, <3>1, <3>2, <3>3 DEF RowsSound, Single
    <3>5. QED
      BY <1>2, <2>1, <3>1, <3>2, <3>4
  <2>2. QED
    BY <2>1 DEF Single
<1>4. Stored(RowsAfter(p, r, new), s)
  BY <1>1 DEF RowsSound, Stored
<1>5. QED
  BY <1>3, <1>4 DEF RowsSound

LEMMA RowsStaySound ==
  ASSUME FreshRenames, Base, NEW p \in Peers, StepOf(p), RowsSound(rows[p], store[p])
  PROVE  RowsSound(rows'[p], store'[p])
<1>1. rows[p] \in SUBSET Rows /\ IsStore(store[p])
  BY PeerIs DEF PeerTypes
<1>2. ASSUME NEW t \in SUBSET Rows, RowsSound(t, store[p]), NEW l \in Labels, NEW d \in Seq(Defs)
      PROVE  RowsSound(NodeRegistered(t, l, d), BodiesSaved(store[p], d))
  BY <1>1, <1>2, RegisteredIsSound DEF RowsSound, Single
<1>3. ASSUME NEW l \in Labels, NEW m \in Node, NodeStep(p, l, m)
      PROVE  RowsSound(rows'[p], store'[p])
  <2>1. m.defs \in Seq(Defs)
    BY DEF Node
  <2>2. \/ rows'[p] = rows[p] /\ store'[p] = store[p]
        \/ /\ rows'[p] = NodeRegistered(rows[p], l, m.defs)
           /\ store'[p] = BodiesSaved(store[p], m.defs)
    BY <1>3, RowsAndStore DEF NodeStep
  <2>3. RowsSound(NodeRegistered(rows[p], l, m.defs), BodiesSaved(store[p], m.defs))
    BY <1>1, <1>2, <2>1
  <2>4. QED
    BY <2>2, <2>3
<1>4. ASSUME NEW m \in inbox[p], ReceiveIs(p, m)
      PROVE  RowsSound(rows'[p], store'[p])
  <2>1. CASE TakesIn(p, m)
    BY <1>1, <2>1, ReceivedIsSound DEF TakesIn
  <2>2. QED
    BY <1>4, <2>1 DEF ReceiveIs
<1>5. ASSUME NEW r \in rows[p], NEW new \in Names, RenameIs(p, r, new)
      PROVE  RowsSound(rows'[p], store'[p])
  <2>1. new \notin NamesOn(p, CanvasOf[r.label])
    BY <1>5 DEF FreshRenames, RenameIs, Base, Types
  <2>2. RowsSound(RowsAfter(p, r, new), store[p])
    BY <1>1, <1>5, <2>1, RenamedIsSound DEF RenameIs
  <2>3. RowsAfter(p, r, new) \in SUBSET Rows
    BY <1>1, RowsRenamedIs DEF RowsAfter
  <2>4. QED
    BY <1>2, <1>5, <2>2, <2>3 DEF RenameIs
<1>6. CASE QuietStep(p)
  BY <1>6 DEF QuietStep
<1>7. CASE StartIs(p)
  BY <1>7 DEF StartIs, RowsSound, Single, Stored, Current
<1>8. QED
  BY <1>3, <1>4, <1>5, <1>6, <1>7 DEF StepOf

AllSound == Base /\ \A p \in Peers : RowsSound(rows[p], store[p])

LEMMA AllSoundIsInvariant ==
  ASSUME FreshRenames
  PROVE  Spec => []AllSound
<1>1. Init => AllSound
  BY InitIsBase DEF AllSound, RowsSound, Single, Stored, Current
<1>2. AllSound /\ [Next]_vars => AllSound'
  <2>1. ASSUME AllSound, Next PROVE AllSound'
    <3>1. PICK p \in Peers : StepOf(p)
      BY <2>1, Steps DEF AllSound
    <3>2. Base' /\ OnlyAt(p)
      BY <2>1, <3>1, StepIs DEF AllSound
    <3>3. RowsSound(rows'[p], store'[p])
      BY <2>1, <3>1, RowsStaySound DEF AllSound
    <3>4. QED
      BY <2>1, <3>2, <3>3 DEF AllSound, OnlyAt
  <2>2. ASSUME AllSound, UNCHANGED vars PROVE AllSound'
    BY <2>2, Stuttering DEF AllSound, Base, Types
  <2>3. QED
    BY <2>1, <2>2
<1>3. QED
  BY <1>1, <1>2, PTL DEF Spec

\* persistence.rs save_node_definitions, graph_runtime.rs "Verify hash matches
\* body": with fresh renames a name is current once at a label, every current
\* definition has its file in defs/, and a remote one the body of its hash.
THEOREM DefinitionsAlwaysHaveBodies ==
  ASSUME FreshRenames
  PROVE  Spec => []DefinitionsHaveBodies
<1>1. AllSound => DefinitionsHaveBodies
  <2>1. SUFFICES ASSUME AllSound PROVE DefinitionsHaveBodies
    OBVIOUS
  <2>2. TypeOK
    <3>1. spent \in 0 .. use.most /\ lost \in BOOLEAN
      BY <2>1 DEF AllSound, Base, Types
    <3>2. ASSUME NEW p \in Peers
          PROVE  /\ DOMAIN nodes[p] \subseteq Labels /\ DOMAIN files[p] \subseteq Labels
                 /\ \A l \in DOMAIN files[p] : files[p][l] \in Texts
                 /\ rows[p] \subseteq Rows
                 /\ \A r, s \in Current(rows[p]) : r.label = s.label /\ r.name = s.name => r = s
                 /\ \A h \in DOMAIN store[p] : store[p][h] = ContentOf(h)
                 /\ touched[p] \subseteq Labels /\ events[p] \in Seq(Events)
      BY <2>1, PeerIs DEF AllSound, RowsSound, Single, PeerTypes, IsGraph, AreFiles, IsStore
    <3>3. ASSUME NEW p \in Peers, NEW l \in DOMAIN nodes[p]
          PROVE  /\ FileOf(nodes[p][l]) \in Texts
                 /\ nodes[p][l].exports \subseteq Names /\ nodes[p][l].imports \subseteq Labels
                 /\ DOMAIN nodes[p][l].out \subseteq Names
      <4>1. PICK n \in Node : n = nodes[p][l]
        BY <2>1, NodeIs DEF AllSound
      <4>2. n.out \in Outs /\ n.exports \subseteq Names /\ n.imports \subseteq Labels
        BY DEF Node
      <4>3. DOMAIN n.out \subseteq Names
        BY <4>2 DEF Outs
      <4>4. QED
        BY <4>1, <4>2, <4>3, NodesAre
    <3>4. QED
      BY <3>1, <3>2, <3>3 DEF TypeOK, Rows, Events
  <2>3. RemoteIsGenuine
    BY <2>1 DEF AllSound, RowsSound, Stored, RemoteIsGenuine
  <2>4. CurrentIsServed
    BY <2>1 DEF AllSound, RowsSound, Stored, CurrentIsServed, ListDefs, HasSource
  <2>5. QED
    BY <2>2, <2>3, <2>4 DEF DefinitionsHaveBodies
<1>2. QED
  BY <1>1, AllSoundIsInvariant, PTL

-----------------------------------------------------------------------------
(***************************************************************************)
(* Hashes lead to their bodies                                             *)
(***************************************************************************)

\* No two nodes of a canvas can come to define the same body, where definitions
\* are renamed.
NoTwins == \A u \in Uses, p \in Peers : "rename" \in u.ops[p] =>
  \A k, l \in Labels : k # l /\ CanvasOf[k] = CanvasOf[l] =>
    OwnHashes(u, p, k) \cap OwnHashes(u, p, l) = {}

LEMMA UseStays ==
  ASSUME [Next]_vars
  PROVE  use' = use
<1>1. CASE UNCHANGED vars
  BY <1>1, Stuttering
<1>2. ASSUME NEW p \in Peers, NEW op, Command(p, op) PROVE use' = use
  BY <1>2 DEF Command
<1>3. ASSUME NEW p \in Peers, Commands(p) PROVE use' = use
  <2>1. ASSUME NEW l \in Labels
        PROVE  /\ \A n \in use.code[l] : /\ Create(p, l, n) => Command(p, "create")
                                         /\ Update(p, l, n) => Command(p, "update")
               /\ Delete(p, l) => Command(p, "delete")
               /\ Compute(p, l) => Command(p, "compute")
               /\ \A i \in use.imports : AddHashImport(p, l, i) => Command(p, "import")
               /\ Migrate(p, l) => Command(p, "migrate")
    BY DEF Create, Update, Delete, Compute, AddHashImport, Migrate
  <2>2. ASSUME NEW r \in rows[p], NEW new \in Names, Rename(p, r, new) PROVE Command(p, "rename")
    BY <2>2 DEF Rename
  <2>3. QED
    BY <1>2, <1>3, <2>1, <2>2 DEF Commands
<1>4. ASSUME NEW p \in Peers, Own(p) PROVE use' = use
  BY <1>4 DEF Own, Result, Fails, Notice, Reload
<1>5. ASSUME NEW p \in Peers, Messages(p) PROVE use' = use
  BY <1>5 DEF Messages, Serve, Receive
<1>6. ASSUME NEW p \in Peers, RequestMissing(p) \/ Restart(p) \/ \E m \in inbox[p] : Lose(p, m)
      PROVE  use' = use
  BY <1>6 DEF RequestMissing, Restart, Lose
<1>7. QED
  BY <1>1, <1>3, <1>4, <1>5, <1>6 DEF Next

\* The last definition of a name gives its value.
LEMMA LastValue ==
  ASSUME NEW defs \in Seq(Defs), NEW l, NEW r, LastOf(r, l, defs), NEW exports, NEW out,
         r.name \in exports
  PROVE  Over(Values(defs, exports), out)[r.name] = r.hash
<1>1. PICK i \in DOMAIN defs : /\ r.hash = defs[i].hash /\ r.name = defs[i].name
                               /\ \A j \in DOMAIN defs : defs[j].name = r.name => j <= i
  BY DEF LastOf
<1>. DEFINE last(k) == defs[k].name = r.name /\ \A j \in DOMAIN defs : defs[j].name = r.name => j <= k
<1>2. last(i) /\ \A k \in DOMAIN defs : last(k) => k = i
  <2>1. \A k \in DOMAIN defs : k \in Nat
    BY DefsAre
  <2>2. ASSUME NEW k \in DOMAIN defs, last(k) PROVE k = i
    <3>1. k <= i /\ i <= k
      BY <1>1, <2>2
    <3>2. QED
      BY <2>1, <3>1
  <2>3. QED
    BY <1>1, <2>2
<1>3. (CHOOSE k \in DOMAIN defs : last(k)) = i
  <2>. HIDE DEF last
  <2>1. QED
    BY <1>2
<1>4. Value(defs, r.name) = r.hash
  BY <1>1, <1>3 DEF Value
<1>5. PICK V : V = Values(defs, exports)
  OBVIOUS
<1>6. r.name \in DOMAIN V /\ V[r.name] = r.hash
  BY <1>1, <1>4, <1>5 DEF Values
<1>7. Over(V, out)[r.name] = V[r.name]
  BY <1>6 DEF Over
<1>8. QED
  BY <1>5, <1>6, <1>7

LEMMA MadeStays ==
  ASSUME NoTwins, Base, NEW p \in Peers, StepOf(p), OwnAt(p), MadeSound(nodes[p], rows[p])
  PROVE  MadeSound(nodes'[p], rows'[p])
<1>1. /\ rows[p] \in SUBSET Rows /\ IsStore(store[p]) /\ Network \notin Labels
      /\ DOMAIN nodes[p] \subseteq Labels
  BY PeerIs, ConstantsAssumption DEF PeerTypes, IsGraph
<1>2. CASE QuietStep(p)
  BY <1>2 DEF QuietStep, MadeSound
<1>3. ASSUME NEW l \in Labels, NEW m \in Node, NodeStep(p, l, m)
      PROVE  MadeSound(nodes'[p], rows'[p])
  <2>1. PICK defs \in Seq(Defs) : defs = m.defs
    BY DEF Node
  <2>2. PICK g : g = nodes'[p]
    OBVIOUS
  <2>3. /\ DOMAIN g = DOMAIN nodes[p] \cup {l} /\ g[l] = m
        /\ \A x \in DOMAIN g : x # l => x \in DOMAIN nodes[p] /\ g[x] = nodes[p][x]
    BY <1>3, <2>2 DEF NodeStep, With
  <2>4. \/ rows'[p] = rows[p]
        \/ rows'[p] = NodeRegistered(rows[p], l, defs)
    BY <1>3, <2>1, RowsAndStore DEF NodeStep
  <2>5. \A r \in Current(rows'[p]) : r \in Current(rows[p]) \/ LastOf(r, l, defs)
    BY <1>1, <2>4, NodeRegisteredIs
  <2>6. ASSUME NEW r \in Current(rows'[p]), r.label \in DOMAIN g, g[r.label].made,
               r.name \in g[r.label].exports \cap DOMAIN g[r.label].out
        PROVE  g[r.label].out[r.name] = r.hash
    <3>1. CASE r.label # l
      BY <2>3, <2>5, <2>6, <3>1 DEF MadeSound, LastOf
    <3>2. CASE /\ r.label = l /\ l \in DOMAIN nodes[p] /\ nodes[p][l].made /\ rows'[p] = rows[p]
               /\ m.exports = nodes[p][l].exports /\ m.out = nodes[p][l].out
      BY <2>3, <2>6, <3>2 DEF MadeSound
    <3>3. CASE /\ r.label = l /\ rows'[p] = NodeRegistered(rows[p], l, m.defs)
               /\ \E out : m.out = Over(Values(m.defs, m.exports), out)
      <4>1. LastOf(r, l, defs)
        BY <1>1, <2>1, <3>3, NodeRegisteredIs
      <4>2. PICK out : m.out = Over(Values(defs, m.exports), out)
        BY <2>1, <3>3
      <4>3. m.out[r.name] = r.hash
        BY <2>3, <2>6, <3>3, <4>1, <4>2, LastValue
      <4>4. QED
        BY <2>3, <3>3, <4>3
    <3>4. QED
      BY <1>3, <2>3, <2>6, <3>1, <3>2, <3>3 DEF NodeStep, MadeBy
  <2>7. QED
    BY <2>2, <2>6 DEF MadeSound
<1>4. ASSUME NEW m \in inbox[p], ReceiveIs(p, m)
      PROVE  MadeSound(nodes'[p], rows'[p])
  <2>1. \A r \in Current(rows'[p]) : r \in Current(rows[p]) \/ r.label = Network
    BY <1>1, <1>4, RegisteredIs DEF ReceiveIs, TakesIn
  <2>2. QED
    BY <1>1, <1>4, <2>1 DEF ReceiveIs, MadeSound
<1>5. CASE StartIs(p)
  BY <1>5 DEF StartIs, MadeSound
<1>6. ASSUME NEW r \in rows[p], NEW new \in Names, RenameIs(p, r, new)
      PROVE  MadeSound(nodes'[p], rows'[p])
  <2>1. /\ DOMAIN nodes'[p] = DOMAIN nodes[p] /\ r \in Current(rows[p]) /\ r.label \in Labels
        /\ "rename" \in use.ops[p]
        /\ \A l \in DOMAIN nodes[p] : nodes'[p][l].made =>
             /\ l # r.label /\ nodes[p][l].made /\ nodes'[p][l].exports = nodes[p][l].exports
             /\ nodes'[p][l].out = nodes[p][l].out
    BY <1>6 DEF RenameIs
  <2>2. RowsAfter(p, r, new) \in SUBSET Rows
    BY <1>1, RowsRenamedIs DEF RowsAfter
  <2>3. \A s \in Current(rows'[p]) : s \in Current(RowsAfter(p, r, new)) \/ s.label = r.label
    <3>1. CASE rows'[p] = RowsAfter(p, r, new)
      BY <3>1
    <3>2. ASSUME NEW defs \in Seq(Defs),
                 rows'[p] = NodeRegistered(RowsAfter(p, r, new), r.label, defs)
          PROVE  \A s \in Current(rows'[p]) : s \in Current(RowsAfter(p, r, new)) \/ s.label = r.label
      <4>1. PICK t \in SUBSET Rows, l \in Labels : t = RowsAfter(p, r, new) /\ l = r.label
        BY <2>1, <2>2
      <4>2. \A s \in Current(rows'[p]) : s \in Current(t) \/ LastOf(s, l, defs)
        BY <3>2, <4>1, NodeRegisteredIs
      <4>3. QED
        BY <4>1, <4>2 DEF LastOf
    <3>3. QED
      BY <1>6, <3>1, <3>2 DEF RenameIs
  <2>4. ASSUME NEW s \in Current(RowsAfter(p, r, new)), s.label \in DOMAIN nodes[p], s.label # r.label
        PROVE  s \in Current(rows[p])
    <3>1. PICK q \in Current(rows[p]) :
            /\ s.hash = q.hash /\ s.label = q.label
            /\ \/ s = q
               \/ q.hash = r.hash /\ Place(q.label) = CanvasOf[r.label]
      BY <1>1, RowsRenamedIs DEF RowsAfter
    <3>2. CASE q.hash = r.hash /\ Place(q.label) = CanvasOf[r.label]
      <4>1. q.label \in Labels /\ q.label # r.label /\ q.label # Network /\ r.label # Network
        BY <1>1, <2>1, <2>4, <3>1
      <4>2. CanvasOf[q.label] = CanvasOf[r.label]
        BY <3>2, <4>1 DEF Place
      <4>3. q.hash \in OwnHashes(use, p, q.label) /\ r.hash \in OwnHashes(use, p, r.label)
        BY <2>1, <4>1 DEF OwnAt, AllOwn, OwnRows
      <4>4. OwnHashes(use, p, q.label) \cap OwnHashes(use, p, r.label) = {}
        BY <2>1, <4>1, <4>2 DEF NoTwins, Base, Types
      <4>5. QED
        BY <3>2, <4>3, <4>4
    <3>3. QED
      BY <3>1, <3>2
  <2>5. ASSUME NEW s \in Current(rows'[p]), s.label \in DOMAIN nodes[p], nodes'[p][s.label].made,
               s.name \in nodes'[p][s.label].exports \cap DOMAIN nodes'[p][s.label].out
        PROVE  nodes'[p][s.label].out[s.name] = s.hash
    <3>1. s.label # r.label
      BY <2>1, <2>5
    <3>2. s \in Current(rows[p])
      BY <2>3, <2>4, <2>5, <3>1
    <3>3. QED
      BY <2>1, <2>5, <3>2 DEF MadeSound
  <2>6. QED
    BY <2>1, <2>5 DEF MadeSound
<1>7. QED
  BY <1>2, <1>3, <1>4, <1>5, <1>6 DEF StepOf

AllMade == Base /\ \A p \in Peers : OwnAt(p) /\ MadeSound(nodes[p], rows[p])

\* db.rs register_def, graph_runtime.rs resolve_hash_imports: where no two nodes
\* of a canvas define the same body, the rows of a program that has been
\* computed lead to the values of their bodies, whatever commands, late results,
\* reloads, renames and messages come between.
THEOREM ImportsAlwaysGetTheirBody ==
  ASSUME NoTwins
  PROVE  Spec => []ImportGetsItsBody
<1>1. Init => AllMade
  BY InitIsBase DEF AllMade, MadeSound, Current
<1>2. AllMade /\ [Next]_vars => AllMade'
  <2>1. ASSUME AllMade, Next PROVE AllMade'
    <3>1. PICK p \in Peers : StepOf(p)
      BY <2>1, Steps DEF AllMade
    <3>2. Base' /\ OnlyAt(p) /\ StaysOwn(p)
      BY <2>1, <3>1, StepIs DEF AllMade
    <3>3. use' = use
      BY <2>1, UseStays
    <3>4. OwnAt(p)' /\ MadeSound(nodes'[p], rows'[p])
      BY <2>1, <3>1, <3>2, <3>3, MadeStays DEF AllMade, StaysOwn, OwnAt
    <3>5. ASSUME NEW q \in Peers, q # p PROVE OwnAt(q)' /\ MadeSound(nodes'[q], rows'[q])
      BY <2>1, <3>2, <3>3, <3>5 DEF AllMade, OnlyAt, OwnAt
    <3>6. QED
      BY <3>2, <3>4, <3>5 DEF AllMade
  <2>2. ASSUME AllMade, UNCHANGED vars PROVE AllMade'
    BY <2>2, Stuttering DEF AllMade, Base, Types, OwnAt
  <2>3. QED
    BY <2>1, <2>2
<1>3. AllMade => ImportGetsItsBody
  BY DEF AllMade, MadeSound, ImportGetsItsBody
<1>4. QED
  BY <1>1, <1>2, <1>3, PTL DEF Spec
===========================================================================
