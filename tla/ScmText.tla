------------------------------ MODULE ScmText ------------------------------
(***************************************************************************)
(* Canvases exported as .scm text and imported again: serialize_scm and    *)
(* parse_scm (src/src/persistence.rs).                                     *)
(*                                                                         *)
(* A text is a sequence of symbols: parentheses, quotation marks,          *)
(* semicolons, line ends, indentations, and words.  The program of a node  *)
(* is such a sequence too, and stands in the file as it is.                *)
(***************************************************************************)
EXTENDS Naturals, Sequences, FiniteSets, SequencesExt

CONSTANTS
  Canvas,      \* canvases exported: sequences of nodes, by their numbers
  MaxExports,  \* bound: exports
  Numbers      \* the words that are numbers, as a sequence

ASSUME ScmAssumption == MaxExports \in Nat

VARIABLES
  first,    \* the canvas that was exported first
  shown,    \* the canvas shown
  file,     \* the text exported
  exports,  \* how often
  failed    \* an import failed

scmVars == <<first, shown, file, exports, failed>>

\* A node: its number, label, exports, imports, the values of an input and of a widget
\* with their types, and its program.  Hash imports are not written, phantoms are left out.
Q == "\""
NL == "\n"
Indent == "  "
Blank == {NL, Indent}

NumberOf(word) ==
  IF word \in ToSet(Numbers) THEN CHOOSE k \in DOMAIN Numbers : Numbers[k] = word ELSE 0

-----------------------------------------------------------------------------
(* Writing *)

Quoted(word) == <<Q, word, Q>>

\* value_to_scm: all numbers are written alike.
ValueText(v) == CASE v.type \in {"F64", "F32", "I64", "I32"} -> <<v.word>>
                  [] v.type = "Bool" -> <<v.word>>
                  [] v.type = "Str" -> Quoted(v.word)

\* The positions of c in s, in order.
PositionsOf(s, c) == SelectSeq([i \in DOMAIN s |-> i], LAMBDA i : s[i] = c)

Form(tag, parts) == <<"(", tag>> \o FlattenSeq(parts) \o <<")", NL>>
Block(tag, parts) == IF parts = << >> THEN << >> ELSE Form(tag, parts)

\* The lines of a program; the line end after the last one makes no other line.
Lines(code) ==
  LET cuts == <<0>> \o PositionsOf(code, NL) \o <<Len(code) + 1>>
      all == [k \in 1 .. Len(cuts) - 1 |-> SubSeq(code, cuts[k] + 1, cuts[k + 1] - 1)]
  IN IF Last(all) = << >> THEN Front(all) ELSE all

\* Every line is indented and ended.
CodeText(code) ==
  FlattenSeq([k \in DOMAIN Lines(code) |->
    IF Lines(code)[k] = << >> THEN <<NL>> ELSE <<Indent>> \o Lines(code)[k] \o <<NL>>])

\* Inputs, or widgets: their names with their values.
ValuesBlock(tag, values) ==
  Block(tag, [i \in DOMAIN values |->
                <<"(">> \o Quoted("k") \o ValueText(values[i]) \o <<")">>])

NodeText(n) ==
  <<"(", "node", Numbers[n.id]>> \o Quoted(n.label) \o <<"(", "pos", ")", NL>>
  \o ValuesBlock("inputs", n.inputs) \o ValuesBlock("widgets", n.widgets)
  \o Block("exports", [i \in DOMAIN n.exports |-> Quoted(n.exports[i])])
  \o Block("imports", [i \in DOMAIN n.imports |->
       <<"(">> \o Quoted("node") \o Quoted(n.imports[i]) \o <<")">>])
  \o CodeText(n.code) \o <<")", NL>>

CanvasText(nodes) ==
  Form("graph", << >>) \o FlattenSeq([i \in DOMAIN nodes |-> NodeText(nodes[i])])

-----------------------------------------------------------------------------
(* Reading *)

\* The first position from i on that holds one of C, or the end.
FirstFrom(s, C, i) ==
  LET at == {k \in i .. Len(s) : s[k] \in C} IN
  IF at = {} THEN Len(s) + 1 ELSE CHOOSE k \in at : \A j \in at : k <= j

SkipBlank(s, i) ==
  LET at == {k \in i .. Len(s) : s[k] \notin Blank} IN
  IF at = {} THEN Len(s) + 1 ELSE CHOOSE k \in at : \A j \in at : k <= j

\* Mutant: parentheses in comments count.
RECURSIVE EndInComments(_, _, _)
EndInComments(s, i, depth) ==
  CASE i > Len(s) -> 0
    [] s[i] = Q -> EndInComments(s, FirstFrom(s, {Q}, i + 1) + 1, depth)
    [] s[i] = "(" -> EndInComments(s, i + 1, depth + 1)
    [] s[i] = ")" -> IF depth = 1 THEN i ELSE EndInComments(s, i + 1, depth - 1)
    [] OTHER -> EndInComments(s, i + 1, depth)

\* find_sexp_end: the parenthesis that closes the one at i, over strings and
\* comments; 0 if there is none.
RECURSIVE EndFrom(_, _, _)
EndFrom(s, i, depth) ==
  CASE i > Len(s) -> 0
    [] s[i] = ";" -> EndFrom(s, FirstFrom(s, {NL}, i), depth)
    [] s[i] = Q -> EndFrom(s, FirstFrom(s, {Q}, i + 1) + 1, depth)
    [] s[i] = "(" -> EndFrom(s, i + 1, depth + 1)
    [] s[i] = ")" -> IF depth = 1 THEN i ELSE EndFrom(s, i + 1, depth - 1)
    [] OTHER -> EndFrom(s, i + 1, depth)
EndOverComments(s, i) == EndInComments(s, i, 0)
EndOf(s, i) == EndFrom(s, i, 0)

\* Words in quotation marks between two positions.
QuotedIn(s, i, e) ==
  LET part == SubSeq(s, i, e)
      marks == PositionsOf(part, Q)
  IN [k \in 1 .. Len(marks) \div 2 |-> part[marks[2 * k - 1] + 1]]

\* parse_scm_value: every number parses as f64, so none is an integer.
ValueRead(s, i) ==
  CASE s[i] = Q -> [type |-> "Str", word |-> s[i + 1]]
    [] s[i] \in {"#t", "#f"} -> [type |-> "Bool", word |-> s[i]]
    [] OTHER -> [type |-> "F64", word |-> s[i]]

Tags == {"inputs", "widgets", "exports", "imports"}

\* A node of which the blocks before i have been read; empty if it cannot be read.
\* A program that begins with a form of the name of a block loses it: words in it
\* are not taken, and a list in one of values is an error.
RECURSIVE WithBlocks(_, _, _, _)
WithBlocks(s, n, i, end) ==
  LET p == SkipBlank(s, i)
      tag == s[SkipBlank(s, p + 1)]
      e == EndOf(s, p)
      open == FirstFrom(s, {"("}, p + 1)
      words == QuotedIn(s, p, e)
  IN
  IF p >= end \/ s[p] # "(" \/ tag \notin Tags
  THEN <<[n EXCEPT !.code = SubSeq(s, p, end - 1)]>>
  ELSE IF e = 0 THEN << >>
  ELSE CASE tag \in {"inputs", "widgets"} ->
              IF open > e THEN WithBlocks(s, n, e + 1, end)
              ELSE IF s[open + 1] # Q THEN << >>
              ELSE WithBlocks(s, [n EXCEPT ![tag] = <<ValueRead(s, open + 4)>>], e + 1, end)
         [] tag = "exports" -> WithBlocks(s, [n EXCEPT !.exports = @ \o words], e + 1, end)
         [] tag = "imports" ->
              WithBlocks(s, [n EXCEPT !.imports =
                               @ \o [k \in 1 .. Len(words) \div 2 |-> words[2 * k]]], e + 1, end)

\* White space around a program is dropped.
Trimmed(code) ==
  LET at == {k \in DOMAIN code : code[k] \notin Blank} IN
  IF at = {} THEN << >>
  ELSE SubSeq(code, CHOOSE k \in at : \A j \in at : k <= j, CHOOSE k \in at : \A j \in at : k >= j)

\* parse_node_form, of a form that begins as it is written.
NodeRead(s, i, end) ==
  LET n == [id |-> NumberOf(s[i + 2]), label |-> s[i + 4], inputs |-> << >>, widgets |-> << >>,
            exports |-> << >>, imports |-> << >>, code |-> << >>]
      read == WithBlocks(s, n, EndOf(s, i + 6) + 1, end)
  IN [k \in DOMAIN read |-> [read[k] EXCEPT !.code = Trimmed(@)]]

Error == [ok |-> FALSE, nodes |-> << >>]

\* parse_scm: forms of other names, and what is between the forms, are passed over.
RECURSIVE FormsRead(_, _, _)
FormsRead(s, i, nodes) ==
  IF i > Len(s) THEN [ok |-> TRUE, nodes |-> nodes]
  ELSE IF s[i] = ";" THEN FormsRead(s, FirstFrom(s, {NL}, i), nodes)
  ELSE IF s[i] # "(" THEN FormsRead(s, i + 1, nodes)
  ELSE LET e == EndOf(s, i) IN
       IF e = 0 THEN Error
       ELSE IF s[SkipBlank(s, i + 1)] # "node" THEN FormsRead(s, e + 1, nodes)
       ELSE LET read == NodeRead(s, i, e) IN
            IF read = << >> THEN Error ELSE FormsRead(s, e + 1, nodes \o read)

-----------------------------------------------------------------------------

ScmInit ==
  /\ first \in Canvas
  /\ shown = first
  /\ file = << >>
  /\ exports = 0
  /\ failed = FALSE

\* save_graph_scm
Export ==
  /\ exports < MaxExports
  /\ file' = CanvasText(shown)
  /\ exports' = exports + 1
  /\ UNCHANGED <<first, shown, failed>>

\* load_graph_scm: an error leaves the canvas as it is.
Import ==
  /\ file # << >>
  /\ LET r == FormsRead(file, 1, << >>) IN
     /\ shown' = IF r.ok THEN r.nodes ELSE shown
     /\ failed' = ~r.ok
  /\ UNCHANGED <<first, file, exports>>

ScmNext == Export \/ Import

ScmSpec == ScmInit /\ [][ScmNext]_scmVars

-----------------------------------------------------------------------------
(***************************************************************************)
(* Properties                                                              *)
(***************************************************************************)

\* A program that can stand in the file: outside of strings and comments its
\* parentheses balance, no string is open at its end, and it does not begin with a
\* form that has the name of a block.
Stands(code) ==
  LET Step(a, c) ==
        CASE a.comment -> [a EXCEPT !.comment = c # NL]
          [] ~a.comment /\ c = Q -> [a EXCEPT !.string = ~@]
          [] ~a.comment /\ ~a.string /\ c = ";" -> [a EXCEPT !.comment = TRUE]
          [] ~a.comment /\ ~a.string /\ c = "(" -> [a EXCEPT !.depth = @ + 1]
          [] ~a.comment /\ ~a.string /\ c = ")" ->
               [a EXCEPT !.depth = @ - 1, !.least = IF a.depth = 0 THEN -1 ELSE @]
          [] OTHER -> a
      a == FoldLeft(Step, [comment |-> FALSE, string |-> FALSE, depth |-> 0, least |-> 0], code)
      begin == SkipBlank(code, 1)
  IN
  /\ a.depth = 0 /\ a.least = 0 /\ ~a.string
  /\ begin > Len(code) \/ code[begin] # "(" \/ code[SkipBlank(code, begin + 1)] \notin Tags

\* What text tells apart: numbers are floats, and programs but for their indentation.
AsFloats(values) ==
  [i \in DOMAIN values |->
     IF values[i].type \in {"F32", "I64", "I32"} THEN [values[i] EXCEPT !.type = "F64"]
     ELSE values[i]]
Plain(n) ==
  [n EXCEPT !.inputs = AsFloats(@), !.widgets = AsFloats(@),
            !.code = SelectSeq(Trimmed(n.code), LAMBDA c : c # Indent)]

\* Export and import, once or again, give back every node with its label, ports,
\* inputs and program, if all programs can stand in the file (persistence.rs, a test:
\* "test_parse_scm_roundtrip").  One that cannot makes the import fail, or moves the
\* nodes behind it into it.
ImportGivesBackNodes ==
  (\A i \in DOMAIN first : Stands(first[i].code)) =>
    /\ ~failed
    /\ [i \in DOMAIN shown |-> Plain(shown[i])] = [i \in DOMAIN first |-> Plain(first[i])]
=============================================================================
