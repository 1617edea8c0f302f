------------------------------- MODULE Datum -------------------------------
(***************************************************************************)
(* The grammar of data without labels, as a reader by recursive descent: a *)
(* sequence of tokens stands for trees.  It says what the stack automaton  *)
(* of Parser should make of the same tokens.                               *)
(*                                                                         *)
(*   datum ::= atom | ' datum | #. datum | #( datum* ) | ( datum* )        *)
(*           | #( datum+ . datum ) | ( datum+ . datum )                    *)
(*                                                                         *)
(* The tree of an object of Parser is what is met by following it.         *)
(***************************************************************************)
LOCAL INSTANCE Integers
LOCAL INSTANCE Sequences

CONSTANTS QUOTE, EVALUATED

AtomTree(a) == <<"atom", a>>
NilTree == <<"atom", 0>>
PairTree(a, d) == <<"pair", a, d>>
VectorTree(trees) == <<"vector", trees>>

\* The list of some trees that ends with one.
RECURSIVE ListTree(_, _)
ListTree(trees, end) ==
  IF trees = <<>> THEN end ELSE PairTree(Head(trees), ListTree(Tail(trees), end))

RECURSIVE ProperTree(_), Trees(_)
ProperTree(t) == t = NilTree \/ (t[1] = "pair" /\ ProperTree(t[3]))
Trees(t) == IF t = NilTree THEN <<>> ELSE <<t[2]>> \o Trees(t[3])

\* Reading a prefix of a sequence of tokens ends with a tree, at the end of the
\* sequence before the datum ends, or at what no datum contains.
Tree(tree, rest) == [is |-> "tree", tree |-> tree, rest |-> rest]
Partial == [is |-> "partial", tree |-> NilTree, rest |-> <<>>]
Wrong == [is |-> "wrong", tree |-> NilTree, rest |-> <<>>]

List(trees, end, rest) == [is |-> "list", trees |-> trees, end |-> end, rest |-> rest]

RECURSIVE ReadDatum(_), ReadList(_, _), ReadEnd(_, _)

ReadDatum(s) ==
  IF s = <<>> THEN Partial
  ELSE CASE Head(s).type = "atom" -> Tree(AtomTree(Head(s).of), Tail(s))
         [] Head(s).type = "quote" ->
              LET d == ReadDatum(Tail(s))
              IN  IF d.is # "tree" THEN d
                  ELSE Tree(ListTree(<<AtomTree(QUOTE), d.tree>>, NilTree), d.rest)
         [] Head(s).type = "eval" ->
              LET d == ReadDatum(Tail(s))
              IN  IF d.is # "tree" THEN d ELSE Tree(AtomTree(EVALUATED), d.rest)
         [] Head(s).type = "open" ->
              LET l == ReadList(Tail(s), <<>>)
              IN  IF l.is # "list" THEN l ELSE Tree(ListTree(l.trees, l.end), l.rest)
         [] Head(s).type = "vector" ->
              LET l == ReadList(Tail(s), <<>>)
              IN  IF l.is # "list" THEN l
                  ELSE IF ~ProperTree(l.end) THEN Wrong
                  ELSE Tree(VectorTree(l.trees \o Trees(l.end)), l.rest)
         [] OTHER -> Wrong

\* The rest of a list of which some trees have been read.
ReadList(s, trees) ==
  IF s = <<>> THEN Partial
  ELSE CASE Head(s).type = "close" -> List(trees, NilTree, Tail(s))
         [] Head(s).type = "dot" -> ReadEnd(Tail(s), trees)
         [] OTHER -> LET d == ReadDatum(s)
                     IN  IF d.is # "tree" THEN d
                         ELSE ReadList(d.rest, Append(trees, d.tree))

\* The rest of a list after a dot.  Unlike the grammar above the parser takes
\* more dots after the first end, and the last end is the one of the list.
ReadEnd(s, trees) ==
  LET d == ReadDatum(s)
  IN  CASE s # <<>> /\ Head(s).type = "dot" -> ReadEnd(Tail(s), trees)
        [] d.is # "tree" -> d
        [] d.is = "tree" /\ trees = <<>> -> Wrong
        [] d.is = "tree" /\ trees # <<>> /\ d.rest = <<>> -> Partial
        [] OTHER -> IF Head(d.rest).type = "close" THEN List(trees, d.tree, Tail(d.rest))
                    ELSE IF Head(d.rest).type = "dot" THEN ReadEnd(Tail(d.rest), trees)
                    ELSE LET e == ReadDatum(d.rest) IN IF e.is = "tree" THEN Wrong ELSE e

\* All that a sequence of tokens stands for: the trees before what is partial
\* or wrong.
RECURSIVE ReadAll(_)
ReadAll(s) ==
  LET d == ReadDatum(s)
  IN  IF s = <<>> THEN [trees |-> <<>>, wrong |-> FALSE]
      ELSE IF d.is # "tree" THEN [trees |-> <<>>, wrong |-> d.is = "wrong"]
      ELSE LET more == ReadAll(d.rest)
           IN  [more EXCEPT !.trees = <<d.tree>> \o @]
=============================================================================
