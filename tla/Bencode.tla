------------------------------ MODULE Bencode ------------------------------
(***************************************************************************)
(* The wire format of the nREPL (src/nrepl/src/bencode.rs): messages are   *)
(* written to a connection, and read from it byte by byte as they arrive.  *)
(*                                                                         *)
(* Bytes are one-character strings.  Values are records of one shape, so   *)
(* that any two can be compared.                                           *)
(***************************************************************************)
EXTENDS Integers, Sequences, FiniteSets, SequencesExt

CONSTANTS
  Messages    \* sequences of values that are sent on one connection

VARIABLES
  sending,    \* the values written, in order
  coming,     \* bytes that have not arrived
  buffer,     \* bytes that have, and are not consumed
  received    \* what decode returned, in order

wireVars == <<sending, coming, buffer, received>>

Digit == <<"0", "1", "2", "3", "4", "5", "6", "7", "8", "9">>
Digits == ToSet(Digit)
ValueOf(d) == (CHOOSE i \in 1 .. 10 : Digit[i] = d) - 1

\* Values: a number, a byte string, a list of items, a dictionary whose items are
\* the values of its keys, which are sorted and differ.
Number(n) == [kind |-> "int", n |-> n, bytes |-> << >>, items |-> << >>, keys |-> << >>]
Bytes(b) == [kind |-> "bytes", n |-> 0, bytes |-> b, items |-> << >>, keys |-> << >>]
List(s) == [kind |-> "list", n |-> 0, bytes |-> << >>, items |-> s, keys |-> << >>]
Dict(k, s) == [kind |-> "dict", n |-> 0, bytes |-> << >>, items |-> s, keys |-> k]

-----------------------------------------------------------------------------
(* Writing *)

Decimal(n) ==
  LET Written[k \in Nat] == IF k < 10 THEN <<Digit[k + 1]>>
                           ELSE Written[k \div 10] \o <<Digit[(k % 10) + 1]>>
  IN IF n < 0 THEN <<"-">> \o Written[-n] ELSE Written[n]

\* Mutant: the end of a number is left to what follows.
OpenNumber(n) == <<"i">> \o Decimal(n)
EncodedNumber(n) == <<"i">> \o Decimal(n) \o <<"e">>

EncodedBytes(b) == Decimal(Len(b)) \o <<":">> \o b

RECURSIVE Encoded(_)
Encoded(v) ==
  CASE v.kind = "int" -> EncodedNumber(v.n)
    [] v.kind = "bytes" -> EncodedBytes(v.bytes)
    [] v.kind = "list" ->
         <<"l">> \o FlattenSeq([i \in DOMAIN v.items |-> Encoded(v.items[i])]) \o <<"e">>
    [] v.kind = "dict" ->
         <<"d">> \o FlattenSeq([i \in DOMAIN v.items |->
                      EncodedBytes(v.keys[i]) \o Encoded(v.items[i])]) \o <<"e">>

-----------------------------------------------------------------------------
(* Reading: the value that begins at position i of s, and the position behind it.
   "more" when s ends too early, "bad" when no value can begin like this. *)

More == [is |-> "more", value |-> Number(0), next |-> 0]
Bad == [is |-> "bad", value |-> Number(0), next |-> 0]
Read(v, next) == [is |-> "value", value |-> v, next |-> next]

\* The first position from i on that holds c, or none.
Find(s, c, i) ==
  LET at == {k \in i .. Len(s) : s[k] = c} IN
  IF at = {} THEN 0 ELSE CHOOSE k \in at : \A j \in at : k <= j

\* str::parse, for the numbers the bounds allow: digits behind an optional sign.
NumberIn(s) ==
  LET signed == s # << >> /\ s[1] \in {"-", "+"}
      digits == IF signed THEN Tail(s) ELSE s
      Value[k \in 0 .. Len(digits)] ==
        IF k = 0 THEN 0 ELSE 10 * Value[k - 1] + ValueOf(digits[k])
  IN
  IF digits = << >> \/ ~ToSet(digits) \subseteq Digits THEN << >>
  ELSE <<IF signed /\ s[1] = "-" THEN -Value[Len(digits)] ELSE Value[Len(digits)]>>

\* "i" has been read: everything up to the next "e" is the number.
ReadNumber(s, i) ==
  LET e == Find(s, "e", i)
      n == NumberIn(SubSeq(s, i, e - 1))
  IN CASE e = 0 -> More [] n = << >> -> Bad [] OTHER -> Read(Number(n[1]), e + 1)

\* n bytes from position "from" on.
Exactly(s, from, n) ==
  IF from + n - 1 > Len(s) THEN More ELSE Read(Bytes(SubSeq(s, from, from + n - 1)), from + n)

\* decode_string_with_first: digits, a colon, and as many bytes.
ReadBytes(s, i) ==
  LET wrong == {k \in i .. Len(s) : s[k] \notin Digits}
      colon == IF wrong = {} THEN 0 ELSE CHOOSE k \in wrong : \A j \in wrong : k <= j
  IN CASE colon = 0 -> More
       [] s[colon] # ":" \/ colon = i -> Bad
       [] OTHER -> Exactly(s, colon + 1, NumberIn(SubSeq(s, i, colon - 1))[1])

RECURSIVE Decoded(_, _), ReadItems(_, _, _), ReadPairs(_, _, _, _)

Decoded(s, i) ==
  CASE i > Len(s) -> More
    [] s[i] = "i" -> ReadNumber(s, i + 1)
    [] s[i] = "l" -> ReadItems(s, i + 1, << >>)
    [] s[i] = "d" -> ReadPairs(s, i + 1, << >>, << >>)
    [] s[i] \in Digits -> ReadBytes(s, i)
    [] OTHER -> Bad

ReadItems(s, i, items) ==
  IF i > Len(s) THEN More
  ELSE IF s[i] = "e" THEN Read(List(items), i + 1)
  ELSE LET r == Decoded(s, i) IN
       IF r.is = "value" THEN ReadItems(s, r.next, Append(items, r.value)) ELSE r

\* Keys are byte strings; what is sent has them in order and once each.
ReadPairs(s, i, keys, items) ==
  IF i > Len(s) THEN More
  ELSE IF s[i] = "e" THEN Read(Dict(keys, items), i + 1)
  ELSE LET k == ReadBytes(s, i) IN
       IF k.is # "value" THEN k
       ELSE LET r == Decoded(s, k.next) IN
            IF r.is # "value" THEN r
            ELSE ReadPairs(s, r.next, Append(keys, k.value.bytes), Append(items, r.value))

-----------------------------------------------------------------------------

Stream(values) == FlattenSeq([k \in DOMAIN values |-> Encoded(values[k])])

BencodeInit ==
  /\ sending \in Messages
  /\ coming = Stream(sending)
  /\ buffer = << >>
  /\ received = << >>

Arrive ==
  /\ coming # << >>
  /\ buffer' = Append(buffer, Head(coming))
  /\ coming' = Tail(coming)
  /\ UNCHANGED <<sending, received>>

\* The reader blocks until the bytes it has make a value, then returns it; an
\* error ends the connection.
Return ==
  LET r == Decoded(buffer, 1) IN
  /\ r.is # "more"
  /\ received' = Append(received, r)
  /\ buffer' = IF r.is = "value" THEN SubSeq(buffer, r.next, Len(buffer)) ELSE << >>
  /\ UNCHANGED <<sending, coming>>

BencodeNext == Arrive \/ Return

BencodeSpec == BencodeInit /\ [][BencodeNext]_wireVars

-----------------------------------------------------------------------------
(***************************************************************************)
(* Properties                                                              *)
(***************************************************************************)

\* Messages are read as they were written, each one whole as soon as its last byte
\* has arrived and never before, however the bytes are cut (server.rs reads them
\* with a blocking reader, client.rs until "done").
MessagesArriveWhole ==
  /\ Len(received) <= Len(sending)
  /\ \A k \in DOMAIN received : received[k].is = "value" /\ received[k].value = sending[k]
  /\ LET rest == SubSeq(sending, Len(received) + 1, Len(sending)) IN
     /\ buffer \o coming = Stream(rest)
     /\ rest # << >> =>
          (Decoded(buffer, 1).is = "more" <=> Len(buffer) < Len(Encoded(Head(rest))))
=============================================================================
