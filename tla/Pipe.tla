-------------------------------- MODULE Pipe --------------------------------
(***************************************************************************)
(* What a channel of src/lib/threads.c promises, before any lock, ring     *)
(* buffer or condition variable: an inter-thread pipe that holds a bounded *)
(* number of objects and hands each one over once, in the order in which   *)
(* they were put in.                                                       *)
(***************************************************************************)
EXTENDS Naturals, Sequences

CONSTANTS
  Message,    \* the objects that may be passed
  Capacity    \* how many of them the pipe holds

VARIABLES
  queue,      \* the objects in transit, oldest first
  taken       \* every object handed to a reader so far, in order

Init ==
  /\ queue = <<>>
  /\ taken = <<>>

Put(m) ==
  /\ Len(queue) < Capacity
  /\ queue' = Append(queue, m)
  /\ UNCHANGED taken

Take ==
  /\ queue # <<>>
  /\ taken' = Append(taken, Head(queue))
  /\ queue' = Tail(queue)

Next == Take \/ \E m \in Message : Put(m)

Spec == Init /\ [][Next]_<<queue, taken>>
=============================================================================
