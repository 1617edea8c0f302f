------------------------------- MODULE Writer -------------------------------
(***************************************************************************)
(* The circular printer of src/src/writer.c: dfsch_write_object_circular   *)
(* writes an object twice.  The first pass writes nothing and marks what   *)
(* it meets more than once; the second pass writes, gives a label to each  *)
(* marked object at its first place and writes the label at the others.    *)
(*                                                                         *)
(* The recursion of dfsch_write_object is a stack of what is left to do.   *)
(* An object is a number: 0 is (), ATOM an interned symbol or a number,    *)
(* a positive number a cell, which is a pair or a vector.                  *)
(***************************************************************************)
EXTENDS Integers, Sequences, SequencesExt

CONSTANTS Heaps   \* the heaps to print; the object printed is cell 1

NIL == 0
ATOM == -1

\* The values of circ_hash that are not a label.
ABSENT == -3
ONCE == -2    \* NULL
MORE == -1    \* DFSCH_SYM_TRUE

VARIABLES
  heap,
  pass,     \* circ_pass, and 3 when the object is written
  marks,    \* circ_hash: for each cell ABSENT, ONCE, MORE or its label
  counter,  \* circ_counter
  todo,     \* the stack of the recursion: objects to write, lists to go on
            \* with and text to put
  out       \* the tokens written

vars == <<heap, pass, marks, counter, todo, out>>

Token(type, of) == [type |-> type, of |-> of]
Object(o) == [do |-> "object", of |-> o]
Rest(c) == [do |-> "rest", of |-> c]   \* the cdr of a pair whose car is written
Text(token) == [do |-> "text", of |-> token]

Open == Token("open", 0)
Close == Token("close", 0)
Dot == Token("dot", 0)
VectorOpen == Token("vector", 0)

IsCell(o) == o > 0
IsPair(o) == IsCell(o) /\ heap[o].kind = "pair"
Car(c) == heap[c].elems[1]
Cdr(c) == heap[c].elems[2]
Labelled(o) == IsCell(o) /\ marks[o] \in Nat

Init ==
  /\ heap \in Heaps
  /\ pass = 1
  /\ marks = [c \in DOMAIN heap |-> ABSENT]
  /\ counter = 0
  /\ todo = <<Object(1)>>
  /\ out = <<>>

\* What is left to do once the first of it is replaced by some more.
Instead(tasks) == tasks \o Tail(todo)

\* The elements of a vector, written by its write method.
Elements(o) == [i \in DOMAIN heap[o].elems |-> Object(heap[o].elems[i])]

-----------------------------------------------------------------------------
(* The first pass.                                                         *)

Marked(o) == [marks EXCEPT ![o] = IF @ = ABSENT THEN ONCE ELSE MORE]

\* A cell met again is marked and not entered.  Only the first cell of a list
\* is marked: the others are met as the cdr of the one before.
Meet ==
  /\ pass = 1 /\ todo # <<>> /\ todo[1].do = "object"
  /\ LET o == todo[1].of
     IN  /\ marks' = IF IsCell(o) THEN Marked(o) ELSE marks
         /\ todo' = IF ~IsCell(o) \/ marks[o] # ABSENT THEN Tail(todo)
                    ELSE IF IsPair(o) THEN Instead(<<Object(Car(o)), Rest(o)>>)
                    ELSE Instead(Elements(o))
  /\ UNCHANGED <<heap, pass, counter, out>>

\* Variant: the loop goes on through a list that has been met.
EnteredAgain(i) == IsPair(i)

\* The loop goes on unless the rest of the list is no pair or has been met.
GoesOn(i) == IsPair(i) /\ marks[i] = ABSENT

MeetRest ==
  /\ pass = 1 /\ todo # <<>> /\ todo[1].do = "rest"
  /\ LET i == Cdr(todo[1].of)
     IN  todo' = IF GoesOn(i) THEN Instead(<<Object(Car(i)), Rest(i)>>)
                              ELSE Instead(<<Object(i)>>)
  /\ UNCHANGED <<heap, pass, marks, counter, out>>

SecondPass ==
  /\ pass = 1 /\ todo = <<>>
  /\ pass' = 2
  /\ counter' = 0
  /\ todo' = <<Object(1)>>
  /\ UNCHANGED <<heap, marks, out>>

-----------------------------------------------------------------------------
(* The second pass.                                                        *)

Put(tokens) == out' = out \o tokens

\* The text of an object without its label, as tasks after its first token.
Inside(o) ==
  IF IsPair(o) THEN <<Object(Car(o)), Rest(o)>>
               ELSE Append(Elements(o), Text(Close))
Start(o) == IF IsPair(o) THEN Open ELSE VectorOpen

WriteAtom ==
  /\ pass = 2 /\ todo # <<>> /\ todo[1].do = "object" /\ ~IsCell(todo[1].of)
  /\ Put(<<Token("atom", todo[1].of)>>)
  /\ todo' = Tail(todo)
  /\ UNCHANGED <<heap, pass, marks, counter>>

WriteReference ==
  /\ pass = 2 /\ todo # <<>> /\ todo[1].do = "object" /\ Labelled(todo[1].of)
  /\ Put(<<Token("reference", marks[todo[1].of])>>)
  /\ todo' = Tail(todo)
  /\ UNCHANGED <<heap, pass, marks, counter>>

WriteCell ==
  /\ pass = 2 /\ todo # <<>> /\ todo[1].do = "object"
  /\ LET o == todo[1].of
     IN  /\ IsCell(o) /\ ~Labelled(o)
         /\ IF marks[o] = MORE
            THEN /\ marks' = [marks EXCEPT ![o] = counter]
                 /\ counter' = counter + 1
                 /\ Put(<<Token("definition", counter), Start(o)>>)
            ELSE /\ UNCHANGED <<marks, counter>>
                 /\ Put(<<Start(o)>>)
         /\ todo' = Instead(Inside(o))
  /\ UNCHANGED <<heap, pass>>

\* The loop of the second pass stops at a list that has its label already.
WritesOn(i) == IsPair(i) /\ ~Labelled(i)

WriteRest ==
  /\ pass = 2 /\ todo # <<>> /\ todo[1].do = "rest"
  /\ LET i == Cdr(todo[1].of)
     IN  IF WritesOn(i)
         THEN todo' = Instead(<<Object(Car(i)), Rest(i)>>) /\ UNCHANGED out
         ELSE IF i = NIL
         THEN todo' = Tail(todo) /\ Put(<<Close>>)
         ELSE todo' = Instead(<<Object(i), Text(Close)>>) /\ Put(<<Dot>>)
  /\ UNCHANGED <<heap, pass, marks, counter>>

WriteText ==
  /\ pass = 2 /\ todo # <<>> /\ todo[1].do = "text"
  /\ Put(<<todo[1].of>>)
  /\ todo' = Tail(todo)
  /\ UNCHANGED <<heap, pass, marks, counter>>

Finish ==
  /\ pass = 2 /\ todo = <<>>
  /\ pass' = 3
  /\ UNCHANGED <<heap, marks, counter, todo, out>>

Next ==
  \/ Meet \/ MeetRest \/ SecondPass
  \/ WriteAtom \/ WriteReference \/ WriteCell \/ WriteRest \/ WriteText \/ Finish
=============================================================================
