------------------------------- MODULE Parser -------------------------------
(***************************************************************************)
(* The parser of src/src/parse.c: the stack automaton that turns the       *)
(* tokens of the tokenizer into objects, with quotes, vectors, dotted      *)
(* pairs and the labels #n= and #n# of shared and circular data.           *)
(*                                                                         *)
(* The state of a parser is a record and an operation is an operator from  *)
(* the state before to the state after, to be composed with what feeds it. *)
(* An object is a number: 0 is (), a negative number an atom, a positive   *)
(* one a cell of the heap of the parser, which is a pair or a vector.      *)
(***************************************************************************)
LOCAL INSTANCE Integers
LOCAL INSTANCE Sequences
LOCAL INSTANCE SequencesExt
LOCAL INSTANCE FiniteSetsExt

CONSTANTS
  EvalAllowed   \* whether dfsch_parser_eval_env gave the parser an environment

NIL == 0
EVALUATED == -2     \* what dfsch_eval makes of an object read after #.
QUOTE == -3         \* the symbols put before an object by ', `, and ,
Placeholder(label) == -10 - label

Pair(a, d) == [kind |-> "pair", elems |-> <<a, d>>]
Vector(objects) == [kind |-> "vector", elems |-> objects]

NoObject == -99     \* DFSCH_INVALID_OBJECT

\* A parser_stack_t.  The cells between front and last are reached by nothing
\* else, for closing the list copies them: their objects and the end of the
\* list stand for them.
Entry(state) == [state |-> state, items |-> <<>>, end |-> NIL, tag |-> NIL]

Labels == 0..3      \* bound: the labels that are read

\* What parser_reset and dfsch_parser_reset clear.
Restarted(p) == [p EXCEPT !.stack = <<>>, !.tags = [n \in Labels |-> NoObject]]

Fresh == [stack |-> <<>>, heap |-> <<>>, tags |-> [n \in Labels |-> NoObject],
          out |-> <<>>, aborted |-> FALSE, lost |-> FALSE]

IsPair(p, o) == o > 0 /\ p.heap[o].kind = "pair"

Abort(p) == [Restarted(p) EXCEPT !.aborted = TRUE]
Failed(p) == p.aborted \/ p.lost

Push(p, state) == [p EXCEPT !.stack = <<Entry(state)>> \o @]
PushTagged(p, state, tag) == [Push(p, state) EXCEPT !.stack[1].tag = tag]
Pop(p) == [p EXCEPT !.stack = Tail(@)]
Allocated(p, cell) == [p EXCEPT !.heap = Append(@, cell)]
Newest(p) == Len(p.heap)

-----------------------------------------------------------------------------
(* Lists.                                                                  *)

\* The cells of a list from o on, in order, as far as the first that was met
\* before.
Chain(heap, o) ==
  LET RECURSIVE From(_, _)
      From(c, met) ==
        IF c > 0 /\ heap[c].kind = "pair" /\ c \notin met
        THEN <<c>> \o From(heap[c].elems[2], met \union {c})
        ELSE <<>>
  IN  From(o, {})

ChainEnd(heap, o) ==
  LET chain == Chain(heap, o)
  IN  IF chain = <<>> THEN o ELSE heap[Last(chain)].elems[2]

\* dfsch_list_length answers -1 for a list that is circular.
Circular(heap, o) == ChainEnd(heap, o) \in Range(Chain(heap, o))

\* The cars of a list that is not circular.
Cars(heap, o) ==
  LET chain == Chain(heap, o)
  IN  [i \in DOMAIN chain |-> heap[chain[i]].elems[1]]

\* dfsch_list_annotate: a new compact list of the same objects, whose cells
\* follow each other in memory.  Given a circular list it takes the length -1
\* for one that is never reached, and writes past the memory it asked for.
Annotated(p, items, end) ==
  LET objects == items \o Cars(p.heap, end)
      first == Newest(p) + 1
      cells == [i \in DOMAIN objects |->
                  Pair(objects[i], IF i = Len(objects) THEN ChainEnd(p.heap, end)
                                                       ELSE first + i)]
  IN  IF Circular(p.heap, end) THEN [p EXCEPT !.lost = TRUE]
                               ELSE [p EXCEPT !.heap = @ \o cells]

-----------------------------------------------------------------------------
(* Labels.                                                                 *)

\* The cells met from a set of objects, without going through one of them.
RECURSIVE Reached(_, _, _, _)
Reached(heap, frontier, met, without) ==
  IF frontier = {} THEN met
  ELSE LET next == UNION {Range(heap[c].elems) : c \in frontier}
           new == {c \in next : c > 0 /\ c # without} \ met
       IN  Reached(heap, new, met \union new, without)

\* replace_pointer from the object that has been read
Replaced(heap, o, from) ==
  LET cells == IF o > 0 THEN Reached(heap, {o}, {o}, from) ELSE {}
  IN  [c \in DOMAIN heap |->
         IF c \notin cells THEN heap[c]
         ELSE [heap[c] EXCEPT !.elems =
                 [i \in DOMAIN @ |-> IF @[i] = from THEN o ELSE @[i]]]]

\* Variant: the label is given its object, but not the places that referred to
\* it before.
UnresolvedTag(p, label, o) == [Pop(p) EXCEPT !.tags[label] = o]

DefinedTag(p, label, o) ==
  [Pop(p) EXCEPT !.tags[label] = o, !.heap = Replaced(@, o, p.tags[label])]

-----------------------------------------------------------------------------
(* dfsch_parser_parse_object                                               *)

Quoted(p, o) == Allocated(Allocated(p, Pair(o, NIL)), Pair(p.stack[1].tag, Newest(p) + 1))

\* dfsch_list_2_vector, which wants a proper list
VectorOf(p, o) ==
  IF Circular(p.heap, o) \/ ChainEnd(p.heap, o) # NIL THEN Abort(p)
  ELSE Allocated(p, Vector(Cars(p.heap, o)))

\* Variant: an object after a dot is put where the list ends, and the list goes on.
EndlessDot(p, o) ==
  IF p.stack[1].items = <<>> THEN Abort(p)
  ELSE [p EXCEPT !.stack[1].end = o, !.stack[1].state = "LIST"]

AfterDot(p, o) ==
  IF p.stack[1].items = <<>> THEN Abort(p)
  ELSE [p EXCEPT !.stack[1].end = o, !.stack[1].state = "PREEND"]

\* The callback is given the object, and asks for more.
Delivered(p, o) == [p EXCEPT !.tags = [n \in Labels |-> NoObject], !.out = Append(@, o)]

RECURSIVE ParseObject(_, _)
ParseObject(p, o) ==
  LET next(q) == IF Failed(q) THEN q ELSE ParseObject(q, Newest(q))
  IN  IF p.stack = <<>> THEN Delivered(p, o)
      ELSE CASE p.stack[1].state = "LIST" -> [p EXCEPT !.stack[1].items = Append(@, o)]
             [] p.stack[1].state = "DOT" -> AfterDot(p, o)
             [] p.stack[1].state = "QUOTE" -> next(Pop(Quoted(p, o)))
             [] p.stack[1].state = "HASH" ->
                  IF o = NIL \/ IsPair(p, o) THEN next(VectorOf(Pop(p), o)) ELSE Abort(p)
             [] p.stack[1].state = "EVAL" ->
                  IF EvalAllowed THEN ParseObject(Pop(p), EVALUATED) ELSE Abort(p)
             [] p.stack[1].state = "TAG_DEFINITION" ->
                  ParseObject(DefinedTag(p, p.stack[1].tag, o), o)
             [] p.stack[1].state = "PREEND" -> Abort(p)

-----------------------------------------------------------------------------
(* The operations the tokenizer calls.                                     *)

ParseOpen(p) == Push(p, "LIST")
ParseVector(p) == Push(p, "HASH")
ParseEval(p) == Push(p, "EVAL")
ParseQuote(p, symbol) == PushTagged(p, "QUOTE", symbol)

ParseClose(p) ==
  IF p.stack # <<>> /\ p.stack[1].state \in {"LIST", "PREEND"}
  THEN LET top == p.stack[1]
           q == Annotated(Pop(p), top.items, top.end)
       IN  IF q.lost THEN q
           ELSE ParseObject(q, IF top.items = <<>> THEN NIL ELSE Newest(p) + 1)
  ELSE Abort(p)

\* Whatever the innermost entry is, it becomes one that has met a dot.
ParseDot(p) == IF p.stack = <<>> THEN Abort(p) ELSE [p EXCEPT !.stack[1].state = "DOT"]

ParseTagDefinition(p, label) ==
  [PushTagged(p, "TAG_DEFINITION", label) EXCEPT !.tags[label] = Placeholder(label)]

ParseTagReference(p, label) ==
  IF p.tags[label] = NoObject THEN Abort(p) ELSE ParseObject(p, p.tags[label])

\* The operation for a token, as the tokenizer makes one of its text.
Parse(p, token) ==
  CASE token.type = "open"       -> ParseOpen(p)
    [] token.type = "close"      -> ParseClose(p)
    [] token.type = "dot"        -> ParseDot(p)
    [] token.type = "vector"     -> ParseOpen(ParseVector(p))
    [] token.type = "quote"      -> ParseQuote(p, QUOTE)
    [] token.type = "eval"       -> ParseEval(p)
    [] token.type = "atom"       -> ParseObject(p, token.of)
    [] token.type = "definition" -> ParseTagDefinition(p, token.of)
    [] token.type = "reference"  -> ParseTagReference(p, token.of)
=============================================================================
