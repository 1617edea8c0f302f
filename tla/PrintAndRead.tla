---------------------------- MODULE PrintAndRead ----------------------------
(***************************************************************************)
(* An object is printed by the circular printer and what was printed is    *)
(* read back: Writer composed with Parser.                                 *)
(***************************************************************************)
EXTENDS Writer

Reader == INSTANCE Parser WITH EvalAllowed <- FALSE

VARIABLES
  parser,   \* the parser that is given what was printed
  read      \* how many tokens it has been given

allvars == <<vars, parser, read>>

PInit == Init /\ parser = Reader!Fresh /\ read = 0

Write == Next /\ UNCHANGED <<parser, read>>

Read ==
  /\ pass = 3 /\ read < Len(out) /\ ~Reader!Failed(parser)
  /\ read' = read + 1
  /\ parser' = Reader!Parse(parser, out[read + 1])
  /\ UNCHANGED vars

PNext == Write \/ Read

PSpec == PInit /\ [][PNext]_allvars /\ WF_allvars(Write)

-----------------------------------------------------------------------------
(* What the two promise together.                                          *)

\* Two objects look the same however far their elements are followed: nothing
\* but identity tells them apart.
RECURSIVE Alike(_, _, _)
Alike(other, pairs, met) ==
  IF pairs = {} THEN TRUE
  ELSE LET cells == {q \in pairs : IsCell(q[1]) /\ IsCell(q[2])}
           agree(q) == \/ q[1] <= 0 /\ q[1] = q[2]
                       \/ /\ q \in cells
                          /\ heap[q[1]].kind = other[q[2]].kind
                          /\ Len(heap[q[1]].elems) = Len(other[q[2]].elems)
           next == UNION {{<<heap[q[1]].elems[i], other[q[2]].elems[i]>> :
                             i \in DOMAIN heap[q[1]].elems} : q \in cells}
       IN  /\ \A q \in pairs : agree(q)
           /\ Alike(other, next \ met, met \union next)

SameUnfolding(o, other, p) == Alike(other, {<<o, p>>}, {<<o, p>>})

AllRead == pass = 3 /\ read = Len(out)

\* The cells met from a list cell by its cdrs alone.
Along(c) == LET chain == Reader!Chain(heap, c) IN Range(chain)

\* The cells of the lists that are circular.
Circle == {c \in DOMAIN heap : IsPair(c) /\ IsPair(Cdr(c)) /\ c \in Along(Cdr(c))}

\* The cells that something other than the cell before them in a list refers to.
Entrances ==
  {1} \union UNION {IF IsPair(c) THEN {Car(c)} ELSE Range(heap[c].elems) : c \in DOMAIN heap}

\* No list runs into a circular list, and a circular list is entered in one
\* place only.
Tidy ==
  /\ \A c \in DOMAIN heap \ Circle : IsPair(c) => Cdr(c) \notin Circle
  /\ \A c, d \in Circle \intersect Entrances : d \in Along(c) => c = d

\* What is printed reads back as one object that unfolds like the object
\* printed; a reader that comes to a dot before a list it has already made
\* circular goes astray, which the lists of a tidy object never make it do
\* (parse.c, writer.c).
ReadsBack ==
  /\ ~parser.aborted
  /\ Tidy => ~parser.lost
  /\ (AllRead /\ ~parser.lost) =>
       /\ Len(parser.out) = 1 /\ parser.stack = <<>>
       /\ SameUnfolding(1, parser.heap, parser.out[1])

\* Printing ends, though no cell but the first of a list is marked: a circular
\* list that is entered at one cell of its own is met again at that cell
\* (writer.c, dfsch_write_object).
WritingEnds == (pass = 1 /\ Tidy) ~> (pass = 3)
=============================================================================
