------------------------------ MODULE MCParts ------------------------------
(* The parts that are run by themselves, one at a time: canvases (Canvases), the
   database (Store), the code agent (Agent), the programs' text (SExpressions), the
   nREPL's messages (Bencode), canvases as text (ScmText) and the order of imports
   (ImportGraph). *)
EXTENDS MCCanvases, Store, Agent, SExpressions, Bencode, ScmText, ImportGraph

CONSTANTS wk, gui, n1, n2, f1, f2, k1, k2

VARIABLE part

\* Store: scripts alone write k1, scripts and widgets k2.
WhoWrites == [k \in Keys |-> IF k = k1 THEN {wk} ELSE {wk, gui}]

\* ImportGraph: three nodes with names of their own, or two that share one.
ThreeOrTwo == {<<"a", "b", "c">>, <<"a", "b", "b">>}

\* Bencode: two values on one connection, the first of up to two levels of nesting.
Atoms == {Number(-1), Number(0), Number(12), Bytes(<< >>), Bytes(<<"e">>),
          Bytes(<<"1", ":">>), Bytes([i \in 1 .. 10 |-> "x"])}
TwoKeys == {<< << >>, <<"i">> >>, << <<"e">>, <<"e", "1">> >>}
Shallow == {List(<< >>), Dict(<< >>, << >>)}
        \cup {List(<<v>>) : v \in Atoms}
        \cup {List(s) : s \in Atoms \X Atoms}
        \cup {Dict(k, s) : k \in TwoKeys, s \in Atoms \X Atoms}
Deep == {List(<<v, Number(0)>>) : v \in Shallow}
     \cup {Dict(<< <<"l">> >>, <<v>>) : v \in Shallow}
Sent == {<<v, w>> : v \in Atoms \cup Shallow \cup Deep,
                    w \in {Bytes(<<"i">>), Dict(<< <<"e">> >>, <<List(<< >>)>>)}}

\* SExpressions: all short texts, and those that begin a definition.
Word(c) == Sexp("atom", <<c>>, << >>)
Items == {Word("a"), Word("b"), Sexp("list", << >>, <<Word("a")>>)}
Basic == {"(", ")", " ", "\n", "a", ";"}
Texts == {[text |-> << >>, typed |-> 4,
           symbols |-> Basic \cup {"'", "\"", "\\", "#", "|", "define", "-syntax"}],
          [text |-> <<"(", "define">>, typed |-> 5, symbols |-> Basic \cup {"-syntax"}],
          [text |-> <<"(", "define", " ", "(">>, typed |-> 5, symbols |-> Basic \cup {"\""}]}

\* ScmText: two nodes that share their program, which is a short text or one with a
\* comment or a block's name in it, and the types of the value of an input or a widget.
Programs == UNION {[1 .. n -> {"(", ")", Q, ";", NL, "a", "inputs"}] : n \in 0 .. 4}
         \cup {<<"(", "a", NL, "a", ")", ";", ")">>, <<"(", "inputs", "(", "a", ")", ")">>,
             <<"(", "widgets", "(", "a", ")", ")">>}
ANode(id, name, in, turned, outs, uses, code) ==
  [id |-> id, label |-> name, inputs |-> in, widgets |-> turned, exports |-> outs, imports |-> uses, code |-> code]
Typed(t, word) == <<[type |-> t, word |-> word]>>
TwoNodes(in, code) ==
  <<ANode(1, "x", in, << >>, <<"e", "f">>, << >>, code),
    ANode(2, "y", Typed("F32", "3"), in, << >>, <<"x", "z">>, <<"a">>)>>
Drawn == {TwoNodes(Typed("I64", "1"), c) : c \in Programs}
      \cup {TwoNodes(in, <<"(", "a", ")">>) :
              in \in {<< >>, Typed("I64", "1"), Typed("Str", "2"), Typed("Bool", "#t")}}
OneToThree == <<"1", "2", "3">>

\* Store: a behaviour writes rows or edits nodes; db.json is all they share.
RowsOrNodes ==
  written' = 0 \/ (shapes' = NoShapes /\ met' = {} /\ shapeFiles' = [f \in Files |-> Absent])

-----------------------------------------------------------------------------
\* A part that is not run rests in one of its initial states.
GraphRests == label = <<"a", "b", "c">> /\ imports = [n \in Places |-> << >>] /\ goal = <<2, "up">>
WireRests == sending = <<Number(0), Bytes(<<"i">>)>>
TextRests == begun \in {t \in Texts : t.text = << >>}
ScmRests == first = TwoNodes(Typed("I64", "1"), << >>)
CanvasesRest == use = EditUse

PartsInit ==
  /\ part \in {"canvases", "store", "agent", "text", "wire", "scm", "graph"}
  /\ part # "canvases" => CanvasesRest
  /\ part # "graph" => GraphRests
  /\ part # "wire" => WireRests
  /\ part # "text" => TextRests
  /\ part # "scm" => ScmRests
  /\ Init /\ StoreInit /\ AgentInit /\ TextInit /\ BencodeInit /\ ScmInit /\ GraphInit

PartsNext ==
  /\ part' = part
  /\ \/ /\ part = "canvases" /\ Next
        /\ UNCHANGED <<storeVars, agentVars, textVars, wireVars, scmVars, graphVars>>
     \/ /\ part = "store" /\ StoreNext /\ RowsOrNodes
        /\ UNCHANGED <<vars, agentVars, textVars, wireVars, scmVars, graphVars>>
     \/ /\ part = "agent" /\ AgentNext
        /\ UNCHANGED <<vars, storeVars, textVars, wireVars, scmVars, graphVars>>
     \/ /\ part = "text" /\ TextNext
        /\ UNCHANGED <<vars, storeVars, agentVars, wireVars, scmVars, graphVars>>
     \/ /\ part = "wire" /\ BencodeNext
        /\ UNCHANGED <<vars, storeVars, agentVars, textVars, scmVars, graphVars>>
     \/ /\ part = "scm" /\ ScmNext
        /\ UNCHANGED <<vars, storeVars, agentVars, textVars, wireVars, graphVars>>
     \/ /\ part = "graph" /\ GraphNext
        /\ UNCHANGED <<vars, storeVars, agentVars, textVars, wireVars, scmVars>>

PartsSpec ==
  /\ PartsInit
  /\ [][PartsNext]_<<part, vars, storeVars, agentVars, textVars, wireVars, scmVars,
                     graphVars>>
=============================================================================
