------------------------------- MODULE Lists -------------------------------
(***************************************************************************)
(* Lists (src/src/types.c) and the procedures that go through collections  *)
(* (src/src/primitives.c).  The heap is one of pairs, that share what they *)
(* like, run in circles and end where they like; the procedure that is     *)
(* called with each element may link pairs otherwise meanwhile.  A list is *)
(* a pair, the empty list or, where it should not be, an atom.             *)
(*                                                                         *)
(* Loops over a circular list that do not end give endless, and accesses   *)
(* through what is not there give wild.  The list that is collected is not *)
(* in the heap while it grows: nobody has it before it is done.            *)
(***************************************************************************)
EXTENDS Integers, Sequences, SequencesExt, FiniteSets, FiniteSetsExt

CONSTANTS
  Heap,        \* heaps that functions of lists are called on
  Arguments,   \* tuples of lists that they are called with
  Visited,     \* heaps that procedures go through
  Collections, \* tuples of what they go through
  Comparisons, \* what the comparison of a sort may say of items
  Replies,     \* lists that the procedure of mapcan may return
  MaxMet       \* bound: how often a procedure is called

VARIABLES
  heap, old,   \* the heap, and the heap before the call
  call,        \* the function that is called, and its arguments
  its,         \* the iterators it goes through
  got,         \* what it has collected: in one collection, or two
  res, last,   \* mapcan: the list so far, and its last pair
  phase,       \* whether it calls the procedure still, or takes what is left
  result,      \* how the call ended
  met          \* what the procedure has been called with, and its answers

listvars == <<heap, old, call, its, got, res, last, phase, result, met>>

NIL == 0
ATOM == -1
IsPair(l) == l > 0

Outcome(is, at, h) == [is |-> is, at |-> at, heap |-> h]
Done(at, h) == Outcome("done", at, h)
Error(h) == Outcome("error", NIL, h)
Endless(h) == Outcome("endless", NIL, h)
Wild(h) == Outcome("wild", NIL, h)
Pending == Outcome("pending", NIL, <<>>)

-----------------------------------------------------------------------------
(* What a list is.                                                         *)

\* The pairs of a list, until one is not there or comes again.
RECURSIVE PairsBut(_, _, _)
PairsBut(h, l, seen) ==
  IF ~IsPair(l) \/ l \in seen THEN <<>>
  ELSE <<l>> \o PairsBut(h, h[l].cdr, seen \union {l})

Pairs(h, l) == PairsBut(h, l, {})
Items(h, l) == LET p == Pairs(h, l) IN [i \in DOMAIN p |-> h[p[i]].car]
EndOf(h, l) == LET p == Pairs(h, l) IN IF p = <<>> THEN l ELSE h[Last(p)].cdr
Circular(h, l) == IsPair(EndOf(h, l))
Proper(h, l) == EndOf(h, l) = NIL

\* New pairs, of which the last one has a given cdr.
Fresh(h, items, end, mutable) ==
  LET next(i) == IF i = Len(items) THEN end ELSE Len(h) + i + 1
  IN  Done(IF items = <<>> THEN end ELSE Len(h) + 1,
           h \o [i \in DOMAIN items |-> [car |-> items[i], cdr |-> next(i), mutable |-> mutable]])

\* A loop to the end of a list, after which the result is given.
ToTheEnd(h, l, outcome) ==
  CASE Circular(h, l) -> Endless(h)
    [] Proper(h, l) -> outcome
    [] OTHER -> Error(h)

Flat(seqs) == FlattenSeq(seqs)

-----------------------------------------------------------------------------
(* Functions of lists.                                                     *)

\* Variant: the pair before the end of a list of odd length is not counted.
RECURSIVE ChaseOnce(_, _, _, _, _)
ChaseOnce(h, through, i, j, n) ==
  LET i1 == h[i].cdr
  IN  IF i1 = j THEN [count |-> -1, end |-> i1]
      ELSE IF i1 \notin through THEN [count |-> n, end |-> i1]
      ELSE LET i2 == h[i1].cdr
           IN  IF i2 = h[j].cdr THEN [count |-> -1, end |-> i2]
               ELSE IF i2 \notin through THEN [count |-> n + 2, end |-> i2]
               ELSE ChaseOnce(h, through, i2, h[j].cdr, n + 2)

\* Two pointers go through some pairs of a list, one twice as fast, from the
\* pairs i and j: the number of pairs and what is behind them, or -1 when the
\* fast one meets the slow one.
RECURSIVE Chase(_, _, _, _, _)
Chase(h, through, i, j, n) ==
  LET i1 == h[i].cdr
      j1 == h[j].cdr
  IN  IF i1 = j THEN [count |-> -1, end |-> i1]
      ELSE IF i1 \notin through THEN [count |-> n + 1, end |-> i1]
      ELSE LET i2 == h[i1].cdr
           IN  IF i2 = j1 THEN [count |-> -1, end |-> i2]
               ELSE IF i2 \notin through THEN [count |-> n + 2, end |-> i2]
               ELSE Chase(h, through, i2, j1, n + 2)

\* The length and the end of a list: that there is an end is decided by the
\* caller, who may want to know or not.
list_length(h, l) ==
  IF l = NIL THEN [count |-> 0, end |-> NIL]
  ELSE IF ~IsPair(l) THEN [count |-> -1, end |-> l]
  ELSE Chase(h, DOMAIN h, l, l, 0)

ProperLength(h, l) ==
  LET n == list_length(h, l) IN IF n.end # NIL THEN -1 ELSE n.count

list_mutable_p(h, l) ==
  LET through == {c \in DOMAIN h : h[c].mutable}
  IN  l = NIL \/ /\ l \in through
                 /\ LET n == Chase(h, through, l, l, 0) IN n.count >= 0 /\ n.end = NIL

list_copy(h, l) == ToTheEnd(h, l, Fresh(h, Items(h, l), NIL, TRUE))

ensure_mutable_list(h, l) ==
  IF list_mutable_p(h, l) THEN Done(l, h)
  ELSE IF ProperLength(h, l) < 0 THEN Error(h)
  ELSE list_copy(h, l)

\* Variant: the end of the list is not asked for.
ProperCopyImmutable(h, l) ==
  IF ~IsPair(l) THEN Done(NIL, h)
  ELSE IF list_length(h, l).count < 0 THEN Wild(h)
  ELSE Fresh(h, Items(h, l), NIL, FALSE)

\* An array is allocated for as many items as the length says, and 4 more: a
\* length of -1 is a very large number when it bounds the loop.
list_copy_immutable(h, l) ==
  IF ~IsPair(l) THEN Done(NIL, h)
  ELSE IF list_length(h, l).count < 0 THEN Wild(h)
  ELSE Fresh(h, Items(h, l), EndOf(h, l), FALSE)

reverse(h, l) == ToTheEnd(h, l, Fresh(h, Reverse(Items(h, l)), NIL, TRUE))

\* The items of some lists one after the other; the first one that is circular,
\* or is none, ends it.
Collected(h, lists, outcome) ==
  LET bad == {i \in DOMAIN lists : ~Proper(h, lists[i])}
  IN  IF bad = {} THEN outcome
      ELSE IF Circular(h, lists[Min(bad)]) THEN Endless(h) ELSE Error(h)

AllItems(h, lists) == Flat([i \in DOMAIN lists |-> Items(h, lists[i])])

append(h, lists) ==
  IF lists = <<>> THEN Done(NIL, h)
  ELSE Collected(h, Front(lists), Fresh(h, AllItems(h, Front(lists)), Last(lists), TRUE))

append_immutable(h, lists) ==
  Collected(h, lists, Fresh(h, AllItems(h, lists), NIL, FALSE))

concatenate(h, lists) == Collected(h, lists, Fresh(h, AllItems(h, lists), NIL, TRUE))

\* The items but the last one, and a copy of the list that is the last one: the
\* first items are the lists themselves.
list_star(h, items) ==
  IF items = <<>> THEN Done(NIL, h)
  ELSE IF Len(items) = 1 THEN Wild(h)
  ELSE LET copy == list_copy(h, Last(items))
       IN  IF copy.is # "done" THEN copy ELSE Fresh(copy.heap, Front(items), copy.at, TRUE)

\* A list is joined to those before it, of which the last pair is given, by
\* writing into that pair: what the result is, the last pair then, and the heap.
Joined(s, l) ==
  IF s.last = NIL THEN [s EXCEPT !.at = l]
  ELSE IF ~s.heap[s.last].mutable THEN [s EXCEPT !.is = "error"]
  ELSE [s EXCEPT !.heap[s.last].cdr = l]

\* Variant: a list that is empty counts as the last one.
WalkedOrEmpty(s, l) ==
  IF s.is # "done" THEN s
  ELSE IF Circular(s.heap, l) THEN [s EXCEPT !.is = "endless"]
  ELSE IF ~Proper(s.heap, l) THEN [s EXCEPT !.is = "error"]
  ELSE [s EXCEPT !.last = IF l = NIL THEN NIL ELSE Last(Pairs(s.heap, l))]

\* ... and walked to its end.
Walked(s, l) ==
  IF s.is # "done" THEN s
  ELSE IF Circular(s.heap, l) THEN [s EXCEPT !.is = "endless"]
  ELSE IF ~Proper(s.heap, l) THEN [s EXCEPT !.is = "error"]
  ELSE [s EXCEPT !.last = IF l = NIL THEN @ ELSE Last(Pairs(s.heap, l))]

RECURSIVE JoinAll(_, _)
JoinAll(s, lists) ==
  IF s.is # "done" THEN s
  ELSE IF Len(lists) = 1 THEN Joined(s, Head(lists))
  ELSE JoinAll(Walked(Joined(s, Head(lists)), Head(lists)), Tail(lists))

nconc(h, lists) ==
  IF lists = <<>> THEN Wild(h)
  ELSE LET s == JoinAll([is |-> "done", at |-> NIL, last |-> NIL, heap |-> h], lists)
       IN  Outcome(s.is, s.at, s.heap)

\* The pair at an index.
list_item(h, l, k) ==
  LET p == Pairs(h, l)
  IN  IF k < Len(p) THEN Done(p[k + 1], h)
      ELSE IF Circular(h, l)
           THEN LET start == SelectInSeq(p, LAMBDA c : c = EndOf(h, l))
                IN  Done(p[start + ((k - Len(p)) % (Len(p) - start + 1))], h)
      ELSE Error(h)

\* The first pair with a key: the end of the list matters when none is met.
memq(h, l, key) ==
  LET p == Pairs(h, l)
      at == SelectInSeq(p, LAMBDA c : h[c].car = key)
  IN  IF at > 0 THEN Done(p[at], h) ELSE ToTheEnd(h, l, Done(NIL, h))

\* The first pair of a list of pairs that has a key.
assq(h, l, key) ==
  LET p == Pairs(h, l)
      at == SelectInSeq(p, LAMBDA c : ~IsPair(h[c].car) \/ h[h[c].car].car = key)
  IN  IF at = 0 THEN ToTheEnd(h, l, Done(NIL, h))
      ELSE IF IsPair(h[p[at]].car) THEN Done(h[p[at]].car, h) ELSE Error(h)

\* Keys and values in turn: the pair of the value of a key.
RECURSIVE plist_get(_, _, _, _)
plist_get(h, l, key, seen) ==
  IF ~IsPair(l) THEN Done(NIL, h)
  ELSE IF ~IsPair(h[l].cdr) THEN Error(h)
  ELSE IF h[l].car = key THEN Done(h[l].cdr, h)
  ELSE IF l \in seen THEN Endless(h)
  ELSE plist_get(h, h[h[l].cdr].cdr, key, seen \union {l})

\* The keys that are not to be removed, with their values.
RECURSIVE Kept(_, _, _)
Kept(items, keys, in) ==
  IF items = <<>> THEN <<>>
  ELSE (IF (items[1] \in keys) = in THEN SubSeq(items, 1, 2) ELSE <<>>)
         \o Kept(SubSeq(items, 3, Len(items)), keys, in)

PlistCopy(h, l, keys, in) ==
  LET items == Items(h, l)
  IN  IF Circular(h, l) THEN Endless(h)
      ELSE IF Len(items) % 2 = 1 THEN Error(h)
      ELSE Fresh(h, Kept(items, keys, in), NIL, TRUE)

plist_remove_keys(h, l, keys) == PlistCopy(h, l, keys, FALSE)
plist_filter_keys(h, l, keys) == PlistCopy(h, l, keys, TRUE)

Part(items, from, to) == SubSeq(items, from, Min({to, Len(items)}))

\* Variant: an item of the first run goes first if the comparison says so.
RECURSIVE MergeRunsFirst(_, _, _)
MergeRunsFirst(p, q, less) ==
  IF p = <<>> \/ q = <<>> THEN p \o q
  ELSE IF <<Head(p), Head(q)>> \in less
       THEN <<Head(p)>> \o MergeRunsFirst(Tail(p), q, less)
       ELSE <<Head(q)>> \o MergeRunsFirst(p, Tail(q), less)

\* The merge sort of a copy: runs of k items are merged by two, of which an item
\* of the second one goes first if the comparison says so, until one is left.
RECURSIVE MergeRuns(_, _, _)
MergeRuns(p, q, less) ==
  IF p = <<>> \/ q = <<>> THEN p \o q
  ELSE IF <<Head(q), Head(p)>> \in less
       THEN <<Head(q)>> \o MergeRuns(p, Tail(q), less)
       ELSE <<Head(p)>> \o MergeRuns(Tail(p), q, less)

RECURSIVE MergePass(_, _, _)
MergePass(items, k, less) ==
  IF items = <<>> THEN <<>>
  ELSE MergeRuns(Part(items, 1, k), Part(items, k + 1, 2 * k), less)
         \o MergePass(Part(items, 2 * k + 1, Len(items)), k, less)

RECURSIVE MergeSort(_, _, _)
MergeSort(items, k, less) ==
  LET merged == MergePass(items, k, less)
  IN  IF Len(items) <= 2 * k THEN merged ELSE MergeSort(merged, 2 * k, less)

sort_list(h, l, less) == ToTheEnd(h, l, Fresh(h, MergeSort(Items(h, l), 1, less), NIL, TRUE))

set_cdr(h, l, value) ==
  IF IsPair(l) /\ h[l].mutable THEN Done(l, [h EXCEPT ![l].cdr = value]) ELSE Error(h)

set_list_item(h, l, k, value) ==
  LET at == list_item(h, l, k)
  IN  IF at.is = "done" /\ h[at.at].mutable THEN Done(NIL, [h EXCEPT ![at.at].car = value])
      ELSE Error(h)

\* A function of one list, of a list and a key or an index, or of some lists.
OfOne(name, h, l) ==
  CASE name = "length" ->
         IF ProperLength(h, l) < 0 THEN Error(h) ELSE Done(ProperLength(h, l), h)
    [] name = "mutable" -> Done(IF list_mutable_p(h, l) THEN 1 ELSE NIL, h)
    [] name = "ensure-mutable" -> ensure_mutable_list(h, l)
    [] name = "copy-list" -> list_copy(h, l)
    [] name = "copy-list-immutable" -> list_copy_immutable(h, l)
    [] name = "reverse" -> reverse(h, l)

OfKey(name, h, l, key) ==
  CASE name = "list-ref" -> list_item(h, l, key)
    [] name = "memq" -> memq(h, l, key)
    [] name = "assq" -> assq(h, l, key)
    [] name = "plist-get" -> plist_get(h, l, key, {})
    [] name = "plist-remove-keys" -> plist_remove_keys(h, l, {key})
    [] name = "plist-filter-keys" -> plist_filter_keys(h, l, {key})
    [] name = "set-cdr" -> set_cdr(h, l, key)
    [] name = "seq-set" -> set_list_item(h, l, key, ATOM)

OfLists(name, h, lists) ==
  CASE name = "append" -> append(h, lists)
    [] name = "append-immutable" -> append_immutable(h, lists)
    [] name = "concatenate" -> concatenate(h, lists)
    [] name = "nconc" -> nconc(h, lists)
    [] name = "list*" -> list_star(h, lists)

OneList == {"length", "mutable", "ensure-mutable", "copy-list", "copy-list-immutable", "reverse"}
Keyed ==
  {"list-ref", "memq", "assq", "plist-get", "plist-remove-keys", "plist-filter-keys",
   "set-cdr", "seq-set"}
ManyLists == {"append", "append-immutable", "concatenate", "nconc", "list*"}

-----------------------------------------------------------------------------
(* Procedures that go through collections.  A collection is a list or a    *)
(* vector of some length; its iterator is the pair or the index it is at.  *)

\* Variant: the iterator of a vector goes one too far.
NextOfTooFar(h, it) ==
  [it EXCEPT !.at = IF it.len = 0 THEN h[it.at].cdr ELSE IF it.at <= it.len THEN it.at + 1 ELSE NIL]

This(h, it) == IF it.len > 0 THEN ATOM - it.at ELSE h[it.at].car
NextOf(h, it) ==
  [it EXCEPT !.at = IF it.len = 0 THEN h[it.at].cdr ELSE IF it.at < it.len THEN it.at + 1 ELSE NIL]

\* All that an iterator has in front of it.
Ahead(h, it) ==
  IF it.len > 0 THEN [i \in 1..(it.len - it.at + 1) |-> ATOM - (it.at + i - 1)]
  ELSE Items(h, it.at)

Calling ==
  {"for-each", "map", "map*", "mapcan", "every", "some", "count", "find-index", "filter",
   "partition", "find-if", "take-while", "drop-while", "span", "merge", "reduce"}
Counting == {"take", "drop", "split-at", "zip"}
Several == {"for-each", "map", "map*", "mapcan", "every", "some", "count", "find-index", "zip"}

\* The loop is left at an element, of which n have been met.
Stops(name, answer, n) ==
  \/ name \in {"every", "take-while"} /\ answer = NIL
  \/ name \in {"some", "find-index", "find-if"} /\ answer # NIL
  \/ name = "take" /\ n >= call.key

\* The element, and all behind it, are taken without calling the procedure.
Turns(name, answer, n) ==
  \/ name \in {"drop-while", "span"} /\ answer = NIL
  \/ name \in {"drop", "split-at"} /\ n > call.key

\* What is collected of an element, for the first collection and the second.
Firsts(name, this, answer) ==
  IF name = "map" \/ (name = "map*" /\ answer # NIL) THEN <<<<answer>>>>
  ELSE IF \/ name \in {"filter", "partition", "count", "take-while", "span"} /\ answer # NIL
          \/ name = "find-index" /\ answer = NIL
          \/ name \in {"take", "split-at", "zip"}
       THEN <<this>> ELSE <<>>
Seconds(name, this, answer) ==
  IF name = "partition" /\ answer = NIL THEN <<this>> ELSE <<>>

\* What is returned when the loop is left, and when there is no more.
LeftWith(name, this, answer) ==
  CASE name = "some" -> answer [] name = "find-if" -> this[1]
    [] name = "find-index" -> 1 [] OTHER -> NIL
EndedWith(name) == IF name = "every" THEN 1 ELSE NIL

Ended(is, at) == [is |-> is, at |-> at]
Finish(is, at) == result' = Ended(is, at) /\ phase' = "done"
Goes == UNCHANGED <<result, phase>>

Atoms(c) == \E i \in DOMAIN c : ~IsPair(c[i].at) /\ c[i].at # NIL
Empty(c) == \E i \in DOMAIN c : c[i].at = NIL

\* On to the next elements, in a heap.
Advance(h, at) ==
  LET next == [i \in DOMAIN its |-> NextOf(h, its[i])]
  IN  IF Empty(next) THEN Finish("done", at) /\ UNCHANGED its
      ELSE its' = next /\ Goes

\* One element is gone through, or one of each collection.
Meet(name, this, answer, h) ==
  LET n == Len(met) + 1
  IN  /\ met' = Append(met, [with |-> this, answer |-> answer])
      /\ IF Turns(name, answer, n) THEN phase' = "taking" /\ UNCHANGED <<its, got, result>>
         ELSE /\ got' = <<got[1] \o Firsts(name, this, answer),
                          got[2] \o Seconds(name, this, answer)>>
              /\ IF Stops(name, answer, n)
                 THEN Finish("done", LeftWith(name, this, answer)) /\ UNCHANGED its
                 ELSE Advance(h, EndedWith(name))

\* The value of the procedure is joined to the values before, by their pairs.
Splice(this, l, h) ==
  LET s == Walked(Joined([is |-> "done", at |-> res, last |-> last, heap |-> h], l), l)
  IN  /\ heap' = s.heap /\ res' = s.at /\ last' = s.last
      /\ met' = Append(met, [with |-> this, answer |-> l])
      /\ UNCHANGED got
      /\ IF s.is = "done" THEN Advance(s.heap, s.at)
         ELSE Finish(s.is, NIL) /\ UNCHANGED its

\* Variant: the other item is taken.
MergeOther(this, answer, h) ==
  LET i == IF answer # NIL THEN 1 ELSE 2
      next == NextOf(h, its[i])
  IN  /\ met' = Append(met, [with |-> this, answer |-> answer])
      /\ got' = <<Append(got[1], <<this[3 - i]>>), <<>>>>
      /\ IF next.at = NIL
         THEN its' = <<its[3 - i]>> /\ phase' = "taking" /\ UNCHANGED result
         ELSE its' = [its EXCEPT ![i] = next] /\ Goes

\* Two sequences are merged by a predicate, until one is at its end.
MergeOne(this, answer, h) ==
  LET i == IF answer # NIL THEN 1 ELSE 2
      next == NextOf(h, its[i])
  IN  /\ met' = Append(met, [with |-> this, answer |-> answer])
      /\ got' = <<Append(got[1], <<this[i]>>), <<>>>>
      /\ IF next.at = NIL
         THEN its' = <<its[3 - i]>> /\ phase' = "taking" /\ UNCHANGED result
         ELSE its' = [its EXCEPT ![i] = next] /\ Goes

\* The value so far and the next element give the next value.
Reduce(this, answer, h) ==
  /\ met' = Append(met, [with |-> <<got[1][1][1], this[1]>>, answer |-> answer])
  /\ got' = <<<<<<answer>>>>, <<>>>>
  /\ Advance(h, NIL)

-----------------------------------------------------------------------------

ListsInit ==
  /\ \/ heap \in Heap /\ phase = "function"
     \/ heap \in Visited /\ phase = "procedure"
  /\ old = heap /\ call = [name |-> "none", lists |-> <<>>, key |-> 0]
  /\ its = <<>> /\ got = <<<<>>, <<>>>> /\ res = NIL /\ last = NIL
  /\ result = Ended("pending", NIL) /\ met = <<>>

Returns(outcome, c) ==
  /\ call' = c /\ heap' = outcome.heap
  /\ Finish(outcome.is, outcome.at)
  /\ UNCHANGED <<old, its, got, res, last, met>>

Call(name, lists, key) == [name |-> name, lists |-> lists, key |-> key]

\* A function is called.
CallOfOne(name, l) ==
  /\ phase = "function"
  /\ Returns(OfOne(name, heap, l), Call(name, <<l>>, 0))

CallOfKey(name, l, key) ==
  /\ phase = "function"
  /\ Returns(OfKey(name, heap, l, key), Call(name, <<l>>, key))

CallOfLists(name, lists) ==
  /\ phase = "function"
  /\ Returns(OfLists(name, heap, lists), Call(name, lists, 0))

Sort(l, less) ==
  /\ phase = "procedure"
  /\ Returns(sort_list(heap, l, less), [name |-> "sort-list", lists |-> <<l>>, key |-> less])

\* The iterators are made, and the loop is entered if no collection is empty.
Begin(name, c, key) ==
  LET bad == {i \in DOMAIN c : ~IsPair(c[i].at)}
      first == c[Min(bad)]
  IN  /\ phase = "procedure"
      /\ call' = Call(name, c, key)
      /\ UNCHANGED <<heap, old, res, last, met>>
      /\ IF bad # {} /\ first.at = ATOM
         THEN Finish("error", NIL) /\ UNCHANGED <<its, got>>
         ELSE IF name = "merge" /\ bad # {}
         THEN IF Atoms(c) THEN Finish("error", NIL) /\ UNCHANGED <<its, got>>
              ELSE /\ its' = <<c[IF c[2].at # NIL THEN 2 ELSE 1]>>
                   /\ phase' = "taking" /\ UNCHANGED <<got, result>>
         ELSE IF (bad # {} /\ name # "reduce") \/ (c = <<>> /\ name # "zip")
         THEN Finish("done", EndedWith(name)) /\ UNCHANGED <<its, got>>
         ELSE IF bad = {} /\ name = "reduce"
         THEN /\ got' = <<<<<<This(heap, c[1])>>>>, <<>>>>
              /\ LET next == NextOf(heap, c[1])
                 IN  IF next.at = NIL THEN Finish("done", NIL) /\ UNCHANGED its
                     ELSE its' = <<next>> /\ phase' = "calling" /\ UNCHANGED result
         ELSE its' = c /\ phase' = "calling" /\ UNCHANGED <<got, result>>

\* What is behind the pairs of an improper list is no iterator.
Stray ==
  /\ phase = "calling" /\ Atoms(its)
  /\ Finish("error", NIL)
  /\ UNCHANGED <<heap, old, call, its, got, res, last, met>>

\* A procedure without elements is called with no argument.
ReduceNothing(answer) ==
  /\ phase = "calling" /\ call.name = "reduce" /\ its[1].at = NIL
  /\ got' = <<<<<<answer>>>>, <<>>>> /\ Finish("done", NIL)
  /\ UNCHANGED <<heap, old, call, its, res, last, met>>

\* The heap as the procedure leaves it: it may link one pair otherwise, to skip
\* the pair behind it or to end the list.
Changed(h) ==
  {h} \union
    (IF h # old THEN {}
     ELSE {[h EXCEPT ![p].cdr = to] :
             p \in {c \in DOMAIN h : h[c].mutable /\ IsPair(h[c].cdr)}, to \in {NIL}}
          \union {[h EXCEPT ![p].cdr = h[h[p].cdr].cdr] :
             p \in {c \in DOMAIN h : h[c].mutable /\ IsPair(h[c].cdr)}})

Ready == phase = "calling" /\ ~Atoms(its) /\ ~Empty(its) /\ Len(met) < MaxMet
Here == [i \in DOMAIN its |-> This(heap, its[i])]

CallProcedure(answer, h) ==
  /\ Ready /\ call.name \in Calling \ {"mapcan"} /\ h \in Changed(heap)
  /\ heap' = h
  /\ CASE call.name = "merge" -> MergeOne(Here, answer, h)
       [] call.name = "reduce" -> Reduce(Here, answer, h)
       [] OTHER -> Meet(call.name, Here, answer, h)
  /\ UNCHANGED <<old, call, res, last>>

CallForList(l) ==
  /\ Ready /\ call.name = "mapcan"
  /\ Splice(Here, l, heap)
  /\ UNCHANGED <<old, call>>

Count ==
  /\ Ready /\ call.name \in Counting
  /\ Meet(call.name, Here, NIL, heap)
  /\ UNCHANGED <<heap, old, call, res, last>>

\* What is left is taken.
TakeRest ==
  /\ phase = "taking"
  /\ LET it == its[1]
         ahead == Ahead(heap, it)
         rest == [i \in DOMAIN ahead |-> <<ahead[i]>>]
         ok == it.len > 0 \/ Proper(heap, it.at)
     IN  /\ Finish(IF ok THEN "done" ELSE IF Circular(heap, it.at) THEN "endless" ELSE "error", NIL)
         /\ got' = IF ~ok THEN got
                   ELSE IF call.name \in {"span", "split-at"} THEN <<got[1], rest>>
                   ELSE <<got[1] \o rest, <<>>>>
  /\ UNCHANGED <<heap, old, call, its, res, last, met>>

ListsNext ==
  \/ \E name \in OneList, lists \in Arguments :
       Len(lists) = 1 /\ CallOfOne(name, lists[1])
  \/ \E name \in Keyed, lists \in Arguments, key \in 0..2 :
       Len(lists) = 1 /\ CallOfKey(name, lists[1], key)
  \/ \E name \in ManyLists, lists \in Arguments : CallOfLists(name, lists)
  \/ \E less \in Comparisons : Sort(1, less)
  \/ \E name \in Calling \union Counting, c \in Collections, key \in 0..2 :
       /\ IF name \in Several THEN TRUE ELSE Len(c) = IF name = "merge" THEN 2 ELSE 1
       /\ name \notin Counting \ {"zip"} => key = 0
       /\ Begin(name, c, key)
  \/ Stray
  \/ \E answer \in {NIL, 1, 2} : ReduceNothing(answer)
  \/ \E answer \in {NIL, 1}, h \in Changed(heap) : CallProcedure(answer, h)
  \/ \E l \in Replies : CallForList(l)
  \/ Count
  \/ TakeRest

-----------------------------------------------------------------------------

Finished(names) == phase = "done" /\ call.name \in names /\ result.is = "done"

\* The length of a list is the number of its pairs, and that a list is circular,
\* or has pairs that are not mutable, is seen before the loop that asks for it
\* runs for ever (types.c, dfsch_list_length and dfsch_list_mutable_p).
MeasuredRight ==
  phase = "done" /\ call.name \in {"length", "mutable", "ensure-mutable"} =>
    LET l == call.lists[1]
    IN  CASE call.name = "length" ->
               /\ result.is = (IF Proper(old, l) THEN "done" ELSE "error")
               /\ Proper(old, l) => result.at = Len(Pairs(old, l))
          [] call.name = "mutable" ->
               result.at # NIL <=>
                 Proper(old, l) /\ \A c \in Range(Pairs(old, l)) : old[c].mutable
          [] OTHER ->
               result.is = "done" => /\ Items(heap, result.at) = Items(old, l)
                                     /\ \A c \in Range(Pairs(heap, result.at)) : heap[c].mutable

\* No function but nconc and mapcan writes into pairs that it was given, and
\* those write only into mutable ones, and into their cdr: also when they fail
\* in the midst no list loses an item (types.c, dfsch_nconc and dfsch_set_cdr;
\* primitives.c, mapcan).
NothingLost ==
  /\ call.name \in {"nconc", "mapcan"} =>
       \A c \in DOMAIN old :
         /\ heap[c].car = old[c].car
         /\ ~old[c].mutable => heap[c] = old[c]
         /\ IsPrefix(Items(old, c), Items(heap, c))
  /\ call.name \in (OneList \union ManyLists \union Keyed \union {"sort-list"})
                     \ {"nconc", "set-cdr", "seq-set"} =>
       IsPrefix(old, heap)

\* What a function of lists returns has the items it should have, in order, and
\* shares what it should share; and no improper list goes through unseen
\* (types.c, dfsch_append, dfsch_nconc, dfsch_list_copy and others).
ListsMean ==
  LET a == call.lists
      items == Items(heap, result.at)
      Disjoint == \A i, j \in DOMAIN a :
                    i < j => Range(Pairs(old, a[i])) \intersect Range(Pairs(old, a[j])) = {}
  IN  /\ Finished({"copy-list", "copy-list-immutable", "ensure-mutable"}) =>
           items = Items(old, a[1])
                     /\ (IsPair(a[1]) => EndOf(heap, result.at) = EndOf(old, a[1]))
      /\ Finished({"reverse"}) => items = Reverse(Items(old, a[1]))
      /\ Finished({"append"}) /\ a # <<>> /\ ~Circular(old, Last(a)) =>
           /\ items = AllItems(old, a) /\ EndOf(heap, result.at) = EndOf(old, Last(a))
           /\ IsSuffix(Pairs(old, Last(a)), Pairs(heap, result.at))
      /\ Finished({"append-immutable", "concatenate"}) =>
           items = AllItems(old, a) /\ Proper(heap, result.at)
      /\ phase = "done" /\ call.name = "nconc" /\ Disjoint =>
           /\ (\A i \in DOMAIN a : Proper(old, a[i]) /\ \A c \in Range(Pairs(old, a[i])) :
                                                          old[c].mutable)
                 /\ a # <<>> => result.is = "done"
           /\ result.is = "done" =>
                /\ Pairs(heap, result.at) = Flat([i \in DOMAIN a |-> Pairs(old, a[i])])
                /\ Len(heap) = Len(old)

\* A sorted list is a permutation of the list, whatever the comparison says, and
\* when it is a weak order no item is behind a greater one, and equal ones stay
\* in order (types.c, dfsch_sort_list).
WeakOrder(less, S) ==
  /\ \A x, y \in S : <<x, y>> \in less => <<y, x>> \notin less
  /\ \A x, y, z \in S : <<x, z>> \in less => <<x, y>> \in less \/ <<y, z>> \in less

SortedStable ==
  Finished({"sort-list"}) =>
    LET before == Items(old, call.lists[1])
        after == Items(heap, result.at)
        less == call.key
        At(s, x) == SelectInSeq(s, LAMBDA y : y = x)
    IN  /\ Len(after) = Len(before) /\ Range(after) = Range(before)
        /\ WeakOrder(less, Range(before)) =>
             \A i, j \in DOMAIN after : i < j =>
               /\ <<after[j], after[i]>> \notin less
               /\ <<after[i], after[j]>> \notin less => At(before, after[i]) < At(before, after[j])

\* Every element that is in its place before and after is met, once, by what
\* goes through all of a list, though the procedure unlinks pairs meanwhile; and
\* what goes through several collections meets as many as the shortest one has
\* (primitives.c, for_each and others; dfsch.c, dfsch_iterator_next).
EachMetOnce ==
  LET c == call.lists
      Met(i) == [k \in DOMAIN met |-> met[k].with[i]]
  IN  Finished(Several \union {"filter", "partition"}) /\ c # <<>> /\ heap = old =>
        /\ \A i \in DOMAIN c : IsPrefix(Met(i), Ahead(old, c[i])) \/ Circular(old, c[i].at)
        /\ call.name \in {"for-each", "map", "map*", "count", "zip", "filter", "partition"} =>
             \E i \in DOMAIN c : Met(i) = IF c[i].at = NIL THEN <<>> ELSE Ahead(old, c[i])

MetThoughUnlinked ==
  Finished({"for-each", "map", "map*", "count", "filter", "partition"}) /\ Len(call.lists) = 1
    /\ ~Circular(old, call.lists[1].at) =>
    LET c == call.lists[1]
        seen == [k \in DOMAIN met |-> met[k].with[1]]
    IN  /\ IsInjective(seen)
        /\ Range(Ahead(old, c)) \intersect Range(Ahead(heap, c)) \subseteq Range(seen)
        /\ Range(seen) \subseteq Range(Ahead(old, c))

\* What is returned follows from the answers of the procedure, and the parts
\* that a collection is split into are all of it, in order, or what the count
\* says; only taking no element at all takes one (primitives.c).
FollowsFromAnswers ==
  LET c == call.lists
      yes == {k \in DOMAIN met : met[k].answer # NIL}
      no == DOMAIN met \ yes
      one(k) == <<met[k].with[1]>>
      all == [k \in DOMAIN Ahead(old, c[1]) |-> <<Ahead(old, c[1])[k]>>]
      InOrder(S, part(_)) == [k \in 1..Cardinality(S) |-> part(SetToSortSeq(S, <)[k])]
  IN  /\ Finished({"every"}) => (result.at # NIL <=> no = {})
      /\ Finished({"some"}) => (result.at # NIL <=> yes # {})
      /\ Finished({"find-index"}) =>
           /\ result.at # NIL <=> yes # {}
           /\ yes # {} => Len(got[1]) = Min(yes) - 1
      /\ Finished({"count"}) => Len(got[1]) = Cardinality(yes)
      /\ Finished({"filter"}) => got[1] = InOrder(yes, one)
      /\ Finished({"partition"}) => got = <<InOrder(yes, one), InOrder(no, one)>>
      /\ heap = old /\ Finished({"take", "drop", "split-at", "take-while", "drop-while", "span"}) =>
           LET n == IF call.name \in {"take", "drop", "split-at"} THEN call.key
                    ELSE IF no = {} THEN Len(all) ELSE Min(no) - 1
               firsts == Part(all, 1, IF call.name = "take" /\ n = 0 THEN 1 ELSE n)
               rest == Part(all, n + 1, Len(all))
           IN  IF c[1].at = NIL THEN got = <<<<>>, <<>>>>
               ELSE CASE call.name \in {"take", "take-while"} ->
                           Circular(old, c[1].at) \/ got[1] = firsts
                      [] call.name \in {"drop", "drop-while"} -> got[1] = rest
                      [] OTHER -> got = <<firsts, rest>>
      /\ heap = old /\ Finished({"merge"}) =>
           \A i \in {1, 2} : c[i].at # NIL =>
             \E S \in SUBSET DOMAIN got[1] :
               [k \in 1..Cardinality(S) |-> got[1][SetToSortSeq(S, <)[k]]]
                 = [k \in DOMAIN Ahead(old, c[i]) |-> <<Ahead(old, c[i])[k]>>]
=============================================================================
