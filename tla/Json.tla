-------------------------------- MODULE Json --------------------------------
(***************************************************************************)
(* The JSON parser of src/lib/json.c, an automaton that is fed a text in   *)
(* pieces, as the blocks of a port or the lines of a file, and the texts   *)
(* that objects are emitted as.                                            *)
(*                                                                         *)
(* A character is a string of length one.  "t" stands for the word true,   *)
(* "0" and "1" are digits, "n" is the letter that newline is escaped by    *)
(* and "a" any other.  Escapes by a number are left out.                   *)
(***************************************************************************)
EXTENDS Integers, Sequences, SequencesExt

CONSTANTS
  Text,    \* the texts that are read whatever they mean
  Value    \* the objects that are emitted and read back

VARIABLES
  text,    \* the text that is being read
  origin,  \* the object it was emitted for, or Nothing
  fed,     \* how much of the text has been fed
  jp       \* the dfsch_json_parser_t with what it gave to the callback

vars == <<text, origin, fed, jp>>

-----------------------------------------------------------------------------
(* Objects.                                                                *)

Nothing == [is |-> "nothing"]
Nil == [is |-> "nil"]
True == [is |-> "true"]
String(s) == [is |-> "string", chars |-> s]
Number(s) == [is |-> "number", digits |-> s]
Array(items) == IF items = <<>> THEN Nil ELSE [is |-> "array", items |-> items]

\* A hash table in the order of its first insertions.
Object(pairs) == [is |-> "object", pairs |-> pairs]
HashSet(object, key, value) ==
  LET p == object.pairs
      at == {i \in DOMAIN p : p[i][1] = key}
  IN  Object(IF at = {} THEN Append(p, <<key, value>>)
             ELSE [i \in DOMAIN p |-> IF i \in at THEN <<key, value>> ELSE p[i]])

-----------------------------------------------------------------------------
(* Emitting.  string_write escapes what would end the string.              *)

Escaped(s) ==
  FlattenSeq([i \in DOMAIN s |->
    CASE s[i] = "\n" -> <<"\\", "n">>
      [] s[i] \in {"\"", "\\"} -> <<"\\", s[i]>>
      [] OTHER -> <<s[i]>>])

\* Variant: nothing is escaped.
QuotedPlain(s) == <<"\"">> \o s \o <<"\"">>

Quoted(s) == <<"\"">> \o Escaped(s) \o <<"\"">>

Separated(texts) ==
  FlattenSeq([i \in DOMAIN texts |-> IF i = 1 THEN texts[i] ELSE <<",", " ">> \o texts[i]])

RECURSIVE Emitted(_)
Emitted(v) ==
  CASE v.is = "nil" -> <<"[", "]">>
    [] v.is = "true" -> <<"t">>
    [] v.is = "string" -> Quoted(v.chars)
    [] v.is = "number" -> v.digits
    [] v.is = "array" ->
         <<"[">> \o Separated([i \in DOMAIN v.items |-> Emitted(v.items[i])]) \o <<"]">>
    [] v.is = "object" ->
         <<"{">> \o Separated([i \in DOMAIN v.pairs |->
                      Emitted(v.pairs[i][1]) \o <<":", " ">> \o Emitted(v.pairs[i][2])])
           \o <<"}">>

-----------------------------------------------------------------------------
(* The automaton.                                                          *)

Fresh(list) == [queue |-> <<>>, stack |-> <<>>, given |-> <<>>, list |-> list,
                waiting |-> FALSE, failed |-> FALSE]

Failure(p) == [p EXCEPT !.failed = TRUE]
Top(p) == Head(p.stack)
In(p, states) == p.stack # <<>> /\ Top(p).state \in states
Turned(p, state) == [p EXCEPT !.stack[1].state = state]

\* list_callback and object_callback.
Given(p, v) == IF ~p.list /\ p.given # <<>> THEN Failure(p) ELSE [p EXCEPT !.given = Append(@, v)]

\* An object where a comma or a colon is due is dropped.
ParseObject(p, v) ==
  CASE p.stack = <<>> -> Given(p, v)
    [] In(p, {"ARRAY_VALUE"}) ->
         Turned([p EXCEPT !.stack[1].object = Array(IF @ = Nil THEN <<v>> ELSE Append(@.items, v))],
                "ARRAY_COMMA")
    [] In(p, {"OBJECT_KEY"}) -> Turned([p EXCEPT !.stack[1].tmp = v], "OBJECT_COLON")
    [] In(p, {"OBJECT_VALUE"}) ->
         Turned([p EXCEPT !.stack[1].object = HashSet(@, Top(p).tmp, v)], "OBJECT_COMMA")
    [] OTHER -> p

Push(p, state, object) ==
  [p EXCEPT !.stack = <<[state |-> state, object |-> object, tmp |-> Nil]>> \o @]

\* Variant: the object that ends is not given to the one around it.
PopOnly(p) == [p EXCEPT !.stack = Tail(@)]

Pop(p) == ParseObject([p EXCEPT !.stack = Tail(@)], Top(p).object)

MayStart(p) == p.stack = <<>> \/ In(p, {"OBJECT_VALUE", "ARRAY_VALUE"})

ArrayStart(p) == IF MayStart(p) THEN Push(p, "ARRAY_VALUE", Nil) ELSE Failure(p)
ArrayEnd(p) == IF In(p, {"ARRAY_COMMA", "ARRAY_VALUE"}) THEN Pop(p) ELSE Failure(p)
ObjectStart(p) == IF MayStart(p) THEN Push(p, "OBJECT_KEY", Object(<<>>)) ELSE Failure(p)
ObjectEnd(p) == IF In(p, {"OBJECT_COMMA", "OBJECT_KEY"}) THEN Pop(p) ELSE Failure(p)

Comma(p) ==
  CASE In(p, {"OBJECT_COMMA"}) -> Turned(p, "OBJECT_KEY")
    [] In(p, {"ARRAY_COMMA"}) -> Turned(p, "ARRAY_VALUE")
    [] OTHER -> Failure(p)

Colon(p) == IF In(p, {"OBJECT_COLON"}) THEN Turned(p, "OBJECT_VALUE") ELSE Failure(p)

\* The characters that escapes stand for; an escaped newline stands for none.
\* A backslash that ends the text of a string is dropped.
Unescaped(s) ==
  LET step(acc, c) ==
        CASE acc.escape /\ c = "\n" -> [out |-> acc.out, escape |-> FALSE]
          [] acc.escape /\ c # "\n" ->
               [out |-> Append(acc.out, IF c = "n" THEN "\n" ELSE c), escape |-> FALSE]
          [] ~acc.escape /\ c = "\\" -> [out |-> acc.out, escape |-> TRUE]
          [] OTHER -> [out |-> Append(acc.out, c), escape |-> FALSE]
  IN  FoldLeft(step, [out |-> <<>>, escape |-> FALSE], s).out

ParseString(p, s) == ParseObject(p, String(Unescaped(s)))

Digits == {"0", "1"}
ParseAtom(p, s) ==
  CASE s = <<"t">> -> ParseObject(p, True)
    [] s # <<>> /\ Range(s) \subseteq Digits -> ParseObject(p, Number(s))
    [] OTHER -> Failure(p)

-----------------------------------------------------------------------------
(* parse_queue.                                                            *)

Delimiter == {"{", "}", "[", "]", ",", "(", ")", " ", "\n", ";", ":"}

\* The quotation mark that ends a string: one no backslash stands before.
StringEnd(s) ==
  LET ends == {i \in 2..Len(s) : s[i] = "\"" /\ s[i - 1] # "\\"}
  IN  IF ends = {} THEN 0 ELSE CHOOSE i \in ends : \A j \in ends : i <= j

AtomEnd(s) ==
  LET ends == {i \in DOMAIN s : s[i] \in Delimiter}
  IN  IF ends = {} THEN 0 ELSE CHOOSE i \in ends : \A j \in ends : i <= j

Eaten(p, n) == [p EXCEPT !.queue = SubSeq(@, n + 1, Len(@))]
Wait(p) == [p EXCEPT !.waiting = TRUE]

\* Variant: the end of a piece ends an atom.
AtAtomOfPiece(p) ==
  LET e == AtomEnd(p.queue)
      n == IF e = 0 THEN Len(p.queue) ELSE e - 1
  IN  Eaten(ParseAtom(p, SubSeq(p.queue, 1, n)), n)

AtAtom(p) ==
  LET e == AtomEnd(p.queue)
  IN  IF e = 0 THEN Wait(p) ELSE Eaten(ParseAtom(p, SubSeq(p.queue, 1, e - 1)), e - 1)

AtString(p) ==
  LET e == StringEnd(p.queue)
  IN  IF e = 0 THEN Wait(p) ELSE Eaten(ParseString(p, SubSeq(p.queue, 2, e - 1)), e)

Turn(p) ==
  LET c == Head(p.queue)
  IN  CASE c = "[" -> Eaten(ArrayStart(p), 1)
        [] c = "]" -> Eaten(ArrayEnd(p), 1)
        [] c = "{" -> Eaten(ObjectStart(p), 1)
        [] c = "}" -> Eaten(ObjectEnd(p), 1)
        [] c = "," -> Eaten(Comma(p), 1)
        [] c = ":" -> Eaten(Colon(p), 1)
        [] c \in {" ", "\n"} -> Eaten(p, 1)
        [] c = "\"" -> AtString(p)
        [] OTHER -> AtAtom(p)

RECURSIVE Process(_)
Process(p) ==
  IF p.queue = <<>> \/ p.waiting \/ p.failed THEN [p EXCEPT !.waiting = FALSE]
  ELSE Process(Turn(p))

\* An error leaves what was fed in the queue, whatever of it was read.
Fed(p, s) ==
  LET q == [p EXCEPT !.queue = @ \o s]
      r == Process(q)
  IN  IF r.failed THEN [r EXCEPT !.queue = q.queue] ELSE r

-----------------------------------------------------------------------------

Init ==
  /\ \/ text \in Text /\ origin = Nothing
     \/ origin \in Value /\ text = Emitted(origin)
  /\ fed = 0
  /\ jp \in {Fresh(list) : list \in BOOLEAN}

\* dfsch_json_parser_feed with the next characters of the text.
Feed(n) ==
  /\ ~jp.failed
  /\ jp' = Fed(jp, SubSeq(text, fed + 1, fed + n))
  /\ fed' = fed + n
  /\ UNCHANGED <<text, origin>>

Next == \E n \in 1..(Len(text) - fed) : Feed(n)

Spec == Init /\ [][Next]_vars

-----------------------------------------------------------------------------

\* How a text is cut into pieces does not matter (json.c, parse_queue).
PiecesDoNotMatter ==
  LET whole == Fed(Fresh(jp.list), SubSeq(text, 1, fed))
  IN  IF jp.failed THEN whole.failed ELSE jp = whole

\* The strings in v.
RECURSIVE StringsOf(_)
StringsOf(v) ==
  CASE v.is = "string" -> {v.chars}
    [] v.is = "array" -> UNION {StringsOf(v.items[i]) : i \in DOMAIN v.items}
    [] v.is = "object" ->
         UNION {StringsOf(v.pairs[i][1]) \union StringsOf(v.pairs[i][2]) : i \in DOMAIN v.pairs}
    [] OTHER -> {}

\* Arrays and objects are delimited, and so are strings; an atom is not read
\* before what follows it.
Delimited(v) == v.is \in {"nil", "string", "array", "object"}

\* What was emitted for an object reads back as that object and nothing else,
\* but for a string that ends in a backslash: the backslash that escapes it is
\* taken for one that escapes the quotation mark (json.c).
ReadsBack ==
  (/\ origin # Nothing /\ fed = Len(text) /\ Delimited(origin)
   /\ \A s \in StringsOf(origin) : s = <<>> \/ Last(s) # "\\") =>
  jp = [Fresh(jp.list) EXCEPT !.given = <<origin>>]
=============================================================================
