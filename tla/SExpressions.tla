---------------------------- MODULE SExpressions ----------------------------
(***************************************************************************)
(* Programs as text: the parser whose canonical form is hashed             *)
(* (src/src/sexp.rs), the definitions the editor finds in a program        *)
(* (extract_definitions in src/src/types.rs), and the difference of two    *)
(* expressions (sexp_diff).                                                *)
(*                                                                         *)
(* A text is a sequence of symbols: single characters, and a few words     *)
(* that stand for their characters.  The user types one symbol at a time.  *)
(***************************************************************************)
EXTENDS Integers, Sequences, FiniteSets, SequencesExt

CONSTANTS
  Starts,      \* a text to begin with, the symbols typed behind it, and a bound
               \* on their number, as records
  SexpItems,       \* expressions that lists are made of, for the difference
  MaxItems     \* bound: items of one list

ASSUME SExpressionsAssumption == MaxItems \in Nat

VARIABLES
  begun,       \* one of Starts
  text,        \* the program in the editor
  old, new     \* items of the lists whose difference is shown

textVars == <<begun, text, old, new>>

White == {" ", "\n"}

-----------------------------------------------------------------------------
(* The tokenizer.  Tokens and expressions are records of one shape; only a list
   and a quote have items. *)

Sexp(kind, chars, items) == [kind |-> kind, text |-> chars, items |-> items]
Token(kind) == Sexp(kind, << >>, << >>)

\* The first position from i on that holds one of C, or the end.
FirstOf(s, C, i) ==
  LET at == {k \in i .. Len(s) : s[k] \in C} IN
  IF at = {} THEN Len(s) + 1 ELSE CHOOSE k \in at : \A j \in at : k <= j

\* An escape in a string; one that is not known stays as it is.
Unescaped(c) == CASE c = "n" -> <<"\n">> [] c \in {"\\", "\""} -> <<c>> [] OTHER -> <<"\\", c>>

RECURSIVE StringAt(_, _), CommentEnd(_, _, _), TokensFrom(_, _)

\* The string behind a quotation mark, and where it ends; an open one ends with the text.
StringAt(s, i) ==
  CASE i > Len(s) -> [text |-> << >>, next |-> i]
    [] s[i] = "\"" -> [text |-> << >>, next |-> i + 1]
    [] s[i] = "\\" /\ i < Len(s) ->
         LET r == StringAt(s, i + 2) IN [r EXCEPT !.text = Unescaped(s[i + 1]) \o @]
    [] OTHER -> LET r == StringAt(s, i + 1) IN [r EXCEPT !.text = <<s[i]>> \o @]

\* Block comments nest; one that is open leaves the last character of the text.
CommentEnd(s, i, depth) ==
  CASE depth = 0 \/ i >= Len(s) -> i
    [] s[i] = "#" /\ s[i + 1] = "|" -> CommentEnd(s, i + 2, depth + 1)
    [] s[i] = "|" /\ s[i + 1] = "#" -> CommentEnd(s, i + 2, depth - 1)
    [] OTHER -> CommentEnd(s, i + 1, depth)

TokensFrom(s, i) ==
  CASE i > Len(s) -> << >>
    [] s[i] \in White -> TokensFrom(s, i + 1)
    [] s[i] = ";" -> TokensFrom(s, FirstOf(s, {"\n"}, i))
    [] s[i] = "#" /\ i < Len(s) /\ s[i + 1] = "|" -> TokensFrom(s, CommentEnd(s, i + 2, 1))
    [] s[i] \in {"(", ")", "'"} -> <<Token(s[i])>> \o TokensFrom(s, i + 1)
    [] s[i] = "\"" -> LET r == StringAt(s, i + 1) IN
                      <<Sexp("str", r.text, << >>)>> \o TokensFrom(s, r.next)
    [] OTHER -> LET e == FirstOf(s, White \cup {"(", ")", "\"", ";"}, i) IN
                <<Sexp("atom", SubSeq(s, i, e - 1), << >>)>> \o TokensFrom(s, e)

-----------------------------------------------------------------------------
(* The parser: the expression at a position of the tokens, and the next position,
   0 if there is none. *)

Failed == [sexp |-> Token("none"), next |-> 0]

RECURSIVE Parsed(_, _), ParsedItems(_, _, _), ParsedAll(_, _, _)

Parsed(ts, i) ==
  CASE i > Len(ts) -> Failed
    [] ts[i].kind = "(" -> ParsedItems(ts, i + 1, << >>)
    [] ts[i].kind = ")" -> Failed
    [] ts[i].kind = "'" -> LET r == Parsed(ts, i + 1) IN
                           IF r.next = 0 THEN Failed
                           ELSE [r EXCEPT !.sexp = Sexp("quote", << >>, <<@>>)]
    [] OTHER -> [sexp |-> ts[i], next |-> i + 1]

ParsedItems(ts, i, items) ==
  CASE i > Len(ts) -> Failed
    [] ts[i].kind = ")" -> [sexp |-> Sexp("list", << >>, items), next |-> i + 1]
    [] OTHER -> LET r == Parsed(ts, i) IN
                IF r.next = 0 THEN Failed ELSE ParsedItems(ts, r.next, Append(items, r.sexp))

\* parse_sexp: all expressions of a text, or an error.
ParsedAll(ts, i, sexps) ==
  IF i > Len(ts) THEN [ok |-> TRUE, sexps |-> sexps]
  ELSE LET r == Parsed(ts, i) IN
       IF r.next = 0 THEN [ok |-> FALSE, sexps |-> << >>]
       ELSE ParsedAll(ts, r.next, Append(sexps, r.sexp))

Parse(s) == ParsedAll(TokensFrom(s, 1), 1, << >>)

-----------------------------------------------------------------------------
(* The canonical form. *)

\* Mutant: quotation marks alone are escaped.
EscapedQuotes(c) == IF c = "\"" THEN <<"\\", c>> ELSE <<c>>
Escaped(c) == IF c \in {"\\", "\""} THEN <<"\\", c>> ELSE <<c>>

Joined(texts) ==
  FlattenSeq([i \in DOMAIN texts |-> IF i = 1 THEN texts[i] ELSE <<" ">> \o texts[i]])

RECURSIVE Canonical(_)
Canonical(e) ==
  CASE e.kind = "atom" -> e.text
    [] e.kind = "str" -> <<"\"">> \o FlattenSeq([i \in DOMAIN e.text |-> Escaped(e.text[i])])
                           \o <<"\"">>
    [] e.kind = "list" -> <<"(">> \o Joined([i \in DOMAIN e.items |-> Canonical(e.items[i])])
                            \o <<")">>
    [] e.kind = "quote" -> <<"'">> \o Canonical(e.items[1])

CanonicalAll(sexps) == Joined([i \in DOMAIN sexps |-> Canonical(sexps[i])])

\* What canonical_hash_str hashes: the raw text if it does not parse, or is empty.
Hashed(s) == LET p == Parse(s) IN
             IF p.ok /\ p.sexps # << >> THEN CanonicalAll(p.sexps) ELSE s

-----------------------------------------------------------------------------
(* split_toplevel_forms_with_offsets: one pass with a counter of parentheses. *)

Scan(s) ==
  LET Step(a, i) ==
        LET c == s[i] IN
        CASE a.comment -> [a EXCEPT !.comment = c # "\n"]
          [] ~a.comment /\ a.escape -> [a EXCEPT !.escape = FALSE]
          [] ~a.comment /\ ~a.escape /\ c = "\\" /\ a.string -> [a EXCEPT !.escape = TRUE]
          [] ~a.comment /\ ~a.escape /\ c = "\"" -> [a EXCEPT !.string = ~@]
          [] ~a.comment /\ ~a.escape /\ ~a.string /\ c = ";" -> [a EXCEPT !.comment = TRUE]
          [] ~a.comment /\ ~a.escape /\ ~a.string /\ c = "(" ->
               [a EXCEPT !.depth = @ + 1, !.start = IF a.depth = 0 THEN i ELSE @]
          [] ~a.comment /\ ~a.escape /\ ~a.string /\ c = ")" ->
               [a EXCEPT !.depth = @ - 1,
                         !.forms = IF a.depth = 1 /\ a.start # 0
                                   THEN Append(@, [at |-> a.start, text |-> SubSeq(s, a.start, i)])
                                   ELSE @,
                         !.start = IF a.depth = 1 THEN 0 ELSE @]
          [] OTHER -> a
  IN FoldLeft(Step, [comment |-> FALSE, escape |-> FALSE, string |-> FALSE, depth |-> 0,
                     start |-> 0, forms |-> << >>], [i \in DOMAIN s |-> i])

Forms(s) == Scan(s).forms

-----------------------------------------------------------------------------
(* parse_define. *)

From(s, i) == SubSeq(s, i, Len(s))
TrimStart(s) ==
  LET at == {k \in DOMAIN s : s[k] \notin White} IN
  IF at = {} THEN << >> ELSE From(s, CHOOSE k \in at : \A j \in at : k <= j)

\* The first word of s, up to white space, whatever is in it.
FirstWord(s) == LET t == TrimStart(s) IN SubSeq(t, 1, FirstOf(t, White, 1) - 1)

\* Where the parameter list ends, counting parentheses in strings and comments too;
\* 0 when they do not balance so; the code then slices the text backwards and
\* panics, and no property speaks of such a form (see Regular).
ParamEnd(s) ==
  LET opened(i) == Cardinality({k \in 1 .. i : s[k] = "("})
                     - Cardinality({k \in 1 .. i : s[k] = ")"})
      at == {i \in DOMAIN s : s[i] = ")" /\ opened(i) = 0}
  IN IF at = {} THEN 0 ELSE CHOOSE i \in at : \A j \in at : i <= j

Def(name, body, form) == [name |-> name, body |-> Hashed(body), form |-> form]

BehindName(rest, name) == From(rest, Len(name) + 1)

\* The definition a form makes: none, or one.  The text hashed for a syntax
\* definition keeps the closing parenthesis of the form.
Defined(form) ==
  LET inner == TrimStart(SubSeq(form, 2, Len(form) - 1))
      rest == TrimStart(Tail(inner))
  IN
  CASE inner = << >> \/ inner[1] # "define" -> << >>
    [] inner # << >> /\ inner[1] = "define" /\ Len(inner) > 1 /\ inner[2] = "-syntax" ->
         <<Def(FirstWord(From(inner, 3)), From(form, Len(form) - Len(inner) + 2), "syntax")>>
    [] OTHER ->
         IF rest # << >> /\ rest[1] = "("
         THEN LET e == ParamEnd(rest) IN
              <<Def(FirstWord(SubSeq(rest, 2, e - 1)), From(rest, e + 1), "function")>>
         ELSE <<Def(FirstWord(rest), BehindName(rest, FirstWord(rest)), "simple")>>

\* extract_definitions, without line numbers.
ExtractedDefs(s) == FlattenSeq([i \in DOMAIN Forms(s) |-> Defined(Forms(s)[i].text)])

-----------------------------------------------------------------------------
(* sexp_diff. *)

Op(op, before, after) == [op |-> op, before |-> before, after |-> after]
Same(e) == Op("same", <<e>>, <<e>>)
Added(e) == Op("added", << >>, <<e>>)
Removed(e) == Op("removed", <<e>>, << >>)

\* How far e is ahead in s, from i on; -1 if it is not there.
Ahead(e, s, i) ==
  LET at == {k \in i .. Len(s) : s[k] = e} IN
  IF at = {} THEN -1 ELSE (CHOOSE k \in at : \A j \in at : k <= j) - i

\* Mutant: the items skipped are not all shown.
SkippedOne(s, i, n) == SubSeq(s, i, i)
Skipped(s, i, n) == SubSeq(s, i, i + n - 1)

AllAdded(s) == [i \in DOMAIN s |-> Added(s[i])]
AllRemoved(s) == [i \in DOMAIN s |-> Removed(s[i])]

RECURSIVE Difference(_, _), ListDifference(_, _, _, _)

Difference(x, y) ==
  CASE x = y -> <<Same(x)>>
    [] x # y /\ x.kind = "list" /\ y.kind = "list" -> ListDifference(x.items, y.items, 1, 1)
    [] OTHER -> <<Op("changed", <<x>>, <<y>>)>>

\* Looks two items ahead; what is not there either changed in place.
ListDifference(s, t, i, j) ==
  IF i > Len(s) \/ j > Len(t)
  THEN AllRemoved(From(s, i)) \o AllAdded(From(t, j))
  ELSE LET n == Ahead(s[i], t, j)  \* items that were added
           m == Ahead(t[j], s, i)  \* items that were removed
       IN
       CASE n = 0 -> <<Same(s[i])>> \o ListDifference(s, t, i + 1, j + 1)
         [] n \in 1 .. 2 -> AllAdded(Skipped(t, j, n)) \o ListDifference(s, t, i, j + n)
         [] n = -1 /\ m \in 1 .. 2 ->
              AllRemoved(Skipped(s, i, m)) \o ListDifference(s, t, i + m, j)
         [] OTHER -> Difference(s[i], t[j]) \o ListDifference(s, t, i + 1, j + 1)

-----------------------------------------------------------------------------

TextInit ==
  /\ begun \in Starts
  /\ text = begun.text
  /\ old = << >> /\ new = << >>

\* A symbol is typed at the end.
Type ==
  /\ Len(text) < Len(begun.text) + begun.typed
  /\ old = << >> /\ new = << >>
  /\ \E c \in begun.symbols : text' = Append(text, c)
  /\ UNCHANGED <<begun, old, new>>

\* The versions whose difference is asked for: any two lists.
Edit ==
  /\ text = << >>
  /\ \E e \in SexpItems :
       \/ Len(old) < MaxItems /\ old' = Append(old, e) /\ new' = new
       \/ Len(new) < MaxItems /\ new' = Append(new, e) /\ old' = old
  /\ UNCHANGED <<begun, text>>

TextNext == Type \/ Edit

TextSpec == TextInit /\ [][TextNext]_textVars

-----------------------------------------------------------------------------
(***************************************************************************)
(* Properties                                                              *)
(***************************************************************************)

\* The canonical form of a program that parses has the same expressions, so that
\* layout and comments never change a hash, and a body that is served by its hash is
\* found genuine (sexp.rs: "single spaces, no comments, deterministic").
CanonicalIsStable == Parse(text).ok => Parse(CanonicalAll(Parse(text).sexps)) = Parse(text)

RECURSIVE Bare(_)
Bare(e) == IF e.kind = "quote" THEN Bare(e.items[1]) ELSE e

HasBlockComment(s) == \E i \in 1 .. Len(s) - 1 : s[i] = "#" /\ s[i + 1] = "|"

\* The two readers of programs agree: in a program that parses and has no block
\* comment, the forms the editor looks for definitions in are the lists the parser
\* sees at top level, quoted or not.
EditorSeesEveryForm ==
  Parse(text).ok /\ ~HasBlockComment(text) =>
    LET lists == SelectSeq([i \in DOMAIN Parse(text).sexps |-> Bare(Parse(text).sexps[i])],
                           LAMBDA e : e.kind = "list")
        forms == Forms(text)
    IN
    /\ Len(forms) = Len(lists)
    /\ \A i \in DOMAIN forms : Parse(forms[i].text).sexps = <<lists[i]>>

\* parse_define cuts the form at what follows the name, which is where the parser
\* cuts it only under these conditions: the name is set off by white space, and the
\* parameters hold neither strings nor comments.
Regular(form) ==
  LET inner == TrimStart(SubSeq(form, 2, Len(form) - 1))
      rest == TrimStart(Tail(inner))
      shape == Parse(form).sexps[1].items
  IN
  /\ inner # << >> /\ inner[1] = "define" =>
       /\ Len(inner) > 1 /\ inner[2] \in White
       /\ \A i \in DOMAIN form : form[i] \notin {"\"", ";", "'"}
       /\ Len(shape) > 2
       /\ IF rest[1] = "("
          THEN /\ shape[2].items # << >> /\ shape[2].items[1].kind = "atom"
               /\ FirstWord(SubSeq(rest, 2, ParamEnd(rest) - 1)) = shape[2].items[1].text
          ELSE FirstWord(rest) = shape[2].text

\* Definitions do not depend on layout: reformatting a program changes no name, hash
\* or form of what it defines.
LayoutKeepsDefinitions ==
  Parse(text).ok /\ ~HasBlockComment(text)
  /\ (\A i \in DOMAIN Forms(text) : Regular(Forms(text)[i].text)) =>
    ExtractedDefs(CanonicalAll(Parse(text).sexps)) = ExtractedDefs(text)

\* All readers of programs see the same one: those that hash it, that look for
\* definitions and that write it out again.
ReadersAgree == CanonicalIsStable /\ EditorSeesEveryForm /\ LayoutKeepsDefinitions

RECURSIVE Leaves(_)
Leaves(s) == FlattenSeq([i \in DOMAIN s |->
               IF s[i].kind = "list" THEN Leaves(s[i].items) ELSE <<s[i]>>])

\* A difference shows all of the old version and all of the new one, in order, and
\* nothing else; and it says "same" throughout only if nothing changed.
DifferenceIsFaithful ==
  LET x == Sexp("list", << >>, old)
      y == Sexp("list", << >>, new)
      ops == Difference(x, y)
  IN
  /\ Leaves(FlattenSeq([i \in DOMAIN ops |-> ops[i].before])) = Leaves(old)
  /\ Leaves(FlattenSeq([i \in DOMAIN ops |-> ops[i].after])) = Leaves(new)
  /\ (\A i \in DOMAIN ops : ops[i].op = "same") => old = new
=============================================================================
