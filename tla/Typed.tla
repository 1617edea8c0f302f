------------------------------- MODULE Typed -------------------------------
(***************************************************************************)
(* Tokens typed to the parser of src/src/parse.c, in any order.            *)
(***************************************************************************)
EXTENDS Integers, Sequences, SequencesExt

CONSTANTS
  TypedToken,   \* the tokens typed
  MaxTyped      \* bound: how many

VARIABLES typed, parser

typedvars == <<typed, parser>>

P == INSTANCE Parser WITH EvalAllowed <- TRUE
Grammar == INSTANCE Datum WITH QUOTE <- P!QUOTE, EVALUATED <- P!EVALUATED

TypedInit == typed = <<>> /\ parser = P!Fresh

Type(token) ==
  /\ Len(typed) < MaxTyped /\ ~P!Failed(parser)
  /\ typed' = Append(typed, token)
  /\ parser' = P!Parse(parser, token)

TypedNext == \E token \in TypedToken : Type(token)

-----------------------------------------------------------------------------

RECURSIVE TreeOf(_)
TreeOf(o) ==
  IF o <= 0 THEN Grammar!AtomTree(o)
  ELSE LET elems == parser.heap[o].elems
       IN  IF parser.heap[o].kind = "pair"
           THEN Grammar!PairTree(TreeOf(elems[1]), TreeOf(elems[2]))
           ELSE Grammar!VectorTree([i \in DOMAIN elems |-> TreeOf(elems[i])])

\* A dot with no object before it: the object after it is not taken.
Doomed == \E i \in DOMAIN parser.stack :
            parser.stack[i].state = "DOT" /\ parser.stack[i].items = <<>>

\* Of any tokens without labels the parser makes the data of the grammar, no
\* more and no less, and gives up where no datum goes on, or else at the end of
\* the object after a dot that is there (parse.c, dfsch_parser_parse_object,
\* parse_close and parse_dot).
ReadsGrammar ==
  LET meant == Grammar!ReadAll(typed)
  IN  /\ [i \in DOMAIN parser.out |-> TreeOf(parser.out[i])] = meant.trees
      /\ parser.aborted => meant.wrong
      /\ meant.wrong => parser.aborted \/ Doomed
=============================================================================
