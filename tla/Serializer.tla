----------------------------- MODULE Serializer -----------------------------
(***************************************************************************)
(* The binary serialization of src/src/serdes.c with the handlers of pairs,*)
(* compact lists, vectors, hash tables and class instances of types.c,     *)
(* hash.c and object.c: objects are written to a stream and read back.     *)
(*                                                                         *)
(* Writer and reader number the objects as they meet them and never write  *)
(* the number of a new one: a back reference is right only if both count   *)
(* the same objects in the same order.                                     *)
(*                                                                         *)
(* An object is a number: NIL, an immediate object, or a cell of the heap. *)
(* A cell is a pair, a vector, a table with the keys and values of its     *)
(* entries, an instance with its class and a slot, a canonical object,     *)
(* which is written as its name, an opaque one, which has no handler, or a *)
(* cell of a compact list, "more" if the next cell follows it in memory    *)
(* and "last" if not.                                                      *)
(***************************************************************************)
EXTENDS Integers, Sequences, SequencesExt, FiniteSets

CONSTANTS
  Heaps,      \* the heaps whose objects are written
  Canonical,  \* the sets of immediate objects with a canonical name
  MapLength,  \* obj_map_len of a new deserializer
  MaxObjects  \* bound: the objects written to a stream

NIL == 0
IMMEDIATE == -1     \* a fixnum or a character
INVALID == -2       \* DFSCH_INVALID_OBJECT
UNSET == -3         \* memory that was not written
Named(c) == -10 - c \* the object of the canonical environment of cell c

VARIABLES
  heap,
  canonical,   \* the immediate objects that dfsch_env_revscan finds
  roots,       \* the objects written, in order
  ser,         \* the serializer: written (obj_map: the number of each cell,
               \* UNSET if it has none), idx (obj_idx), stream and failed
  des,         \* the deserializer
  results      \* the objects read, in order

vars == <<heap, canonical, roots, ser, des, results>>

Item(type, of) == [type |-> type, of |-> of]
IsCell(o) == o > 0
Kind(c) == heap[c].kind

-----------------------------------------------------------------------------
(* Writing.                                                                *)

NewSerializer ==
  [written |-> [c \in DOMAIN heap |-> UNSET], idx |-> 0, stream |-> <<>>, failed |-> FALSE]

Put(s, item) == [s EXCEPT !.stream = Append(@, item)]

\* dfsch_put_serialized_object
Numbered(s, c) == [s EXCEPT !.written[c] = s.idx, !.idx = @ + 1]

\* The cells of a compact list from one on.
RECURSIVE Cells(_)
Cells(c) == IF Kind(c) = "more" THEN <<c>> \o Cells(c + 1) ELSE <<c>>

Header(c) ==
  CASE Kind(c) \in {"more", "last"} -> Item("compact", Len(Cells(c)))
    [] Kind(c) = "vector" -> Item("vector", Len(heap[c].elems))
    [] OTHER -> Item(Kind(c), c)

RECURSIVE Serialized(_, _), SerializedAll(_, _), SerializedCells(_, _)

SerializedAll(s, objects) == FoldLeft(Serialized, s, objects)

\* The cars of a compact list, each further cell numbered before its car.
SerializedCells(s, cells) ==
  IF Len(cells) = 1 THEN Serialized(s, heap[cells[1]].elems[1])
  ELSE SerializedCells(Numbered(Serialized(s, heap[cells[1]].elems[1]), cells[2]), Tail(cells))

\* The handler of a cell, after its header; a compact list ends with its end
\* and its annotation, two objects.
Contents(s, c) ==
  CASE Kind(c) \in {"pair", "vector"} -> SerializedAll(s, heap[c].elems)
    [] Kind(c) = "table" -> Put(SerializedAll(s, heap[c].elems), Item("invalid", 0))
    [] Kind(c) = "instance" -> Put(SerializedAll(s, heap[c].elems), Item("slots-end", 0))
    [] Kind(c) = "canonical" -> s
    [] Kind(c) \in {"more", "last"} ->
         SerializedAll(SerializedCells(s, Cells(c)),
                       <<heap[Last(Cells(c))].elems[2], NIL, NIL>>)

NumberedFirst(s, c) == Contents(Put(Numbered(s, c), Header(c)), c)

\* dfsch_serialize_object.  An object without a handler has taken its number
\* when that is found.
Serialized(s, o) ==
  CASE s.failed -> s
    [] ~s.failed /\ ~IsCell(o) ->
         Put(s, Item(IF o \in canonical THEN "named" ELSE "immediate", o))
    [] ~s.failed /\ IsCell(o) ->
         IF s.written[o] # UNSET THEN Put(s, Item("back-reference", s.written[o]))
         ELSE IF Kind(o) = "opaque" THEN [Numbered(s, o) EXCEPT !.failed = TRUE]
         ELSE NumberedFirst(s, o)

-----------------------------------------------------------------------------
(* Reading.                                                                *)

\* map, length and idx are obj_map, obj_map_len and obj_idx; at is how much of
\* the stream has been read, made the objects the deserializer has made, open
\* those whose handler has not returned, value the object the last handler
\* returned.  Two are history: stale, a table was given an entry under a key of
\* which something was not read yet, and misplaced, an instance was put where
\* the map had been before it grew.
NewDeserializer ==
  [map |-> [i \in 1..MapLength |-> UNSET], length |-> MapLength, idx |-> 0, at |-> 0,
   made |-> <<>>, open |-> {}, value |-> UNSET, error |-> FALSE, stale |-> FALSE,
   misplaced |-> FALSE]

Returned(d, o) == [d EXCEPT !.value = o]

\* dfsch_deserializer__skip_object: the next place of a map that is twice as
\* long, in other memory, when it was full.
Skipped(d) ==
  LET grown == IF d.idx < d.length THEN d
               ELSE [d EXCEPT !.length = 2 * @, !.map = @ \o [i \in 1..d.length |-> UNSET]]
  IN  [grown EXCEPT !.idx = @ + 1]

PutPartial(d, o) == LET e == Skipped(d) IN [e EXCEPT !.map[e.idx] = o]

\* The objects made of some cells, at the end of those made before.
Made(d, cells) == [d EXCEPT !.made = @ \o cells]
Newest(d) == Len(d.made)
Blank(kind, n) == [kind |-> kind, elems |-> [i \in 1..n |-> UNSET]]

\* What an object that is hashed or compared by its elements is made of.
RECURSIVE Within(_, _, _)
Within(made, frontier, met) ==
  LET inside == UNION {Range(made[o].elems) :
                         o \in {p \in frontier : made[p].kind \notin {"table", "instance"}}}
      new == {o \in inside : IsCell(o)} \ met
  IN  IF new = {} THEN met ELSE Within(made, new, met \union new)

\* A table is set: the hash of the key is that of what is read of it.
Entered(d, table, key, value) ==
  [d EXCEPT !.made[table].elems = @ \o <<key, value>>,
            !.stale = @ \/ (IsCell(key) /\ \E o \in Within(d.made, {key}, {key}) :
                              o \in d.open /\ d.made[o].kind # "table")]

RECURSIVE Read(_), ReadElems(_, _, _), ReadCompact(_, _, _), ReadEntries(_, _), ReadSlots(_, _)

Next(d) == [d EXCEPT !.at = @ + 1]
Token(d) == ser.stream[d.at]

\* The elements of a cell from the i-th on.
ReadElems(d, c, i) ==
  IF d.error \/ i > Len(d.made[c].elems) THEN Returned(d, c)
  ELSE LET e == Read(d)
       IN  ReadElems([e EXCEPT !.made[c].elems[i] = e.value], c, i + 1)

\* The cells of a compact list from the i-th of n on: each is put in the map
\* before its car is read.  Then its end and its annotation.
ReadCompact(d, i, n) ==
  LET first == d.value
      e == Read(PutPartial(d, first + i - 1))
      end == Read(d)
      last == Read(Read(end))
  IN  IF d.error THEN d
      ELSE IF i <= n
      THEN ReadCompact([e EXCEPT !.made[first + i - 1].elems[1] = e.value, !.value = first],
                       i + 1, n)
      ELSE [last EXCEPT !.made[first + n - 1].elems[2] = end.value, !.value = first]

ReadEntries(d, table) ==
  LET key == Read(d)
      value == Read(key)
  IN  IF d.error \/ key.value = INVALID THEN Returned(key, table)
      ELSE ReadEntries(Entered(value, table, key.value, value.value), table)

ReadSlots(d, instance) ==
  LET slot == Read(d)
  IN  IF d.error \/ slot.value = INVALID THEN Returned(slot, instance)
      ELSE ReadSlots([slot EXCEPT !.made[instance].elems = Append(@, slot.value)], instance)

\* Variant: a vector is put in the map when it is complete.
PutComplete(d, c) == LET e == ReadElems(d, c, 1) IN Returned(PutPartial(e, c), c)

PutThenRead(d, c) == ReadElems(PutPartial(d, c), c, 1)

\* The instance is put in the place that was kept for it before its class was
\* read, which is no longer in the map if the map has grown.
Placed(d, place, length, o) ==
  IF d.length = length THEN [d EXCEPT !.map[place] = o] ELSE [d EXCEPT !.misplaced = TRUE]

Instance(d) ==
  LET kept == Skipped(d)
      class == Read(kept)
      made == Made(class, <<[kind |-> "instance", elems |-> <<class.value>>]>>)
  IN  ReadSlots(Placed(made, kept.idx, kept.length, Newest(made)), Newest(made))

Referred(d, ref) ==
  IF ref > d.idx THEN [d EXCEPT !.error = TRUE] ELSE Returned(d, d.map[ref + 1])

\* The handler of what a header says.
Handled(d) ==
  LET item == Token(d)
      c == Newest(d) + 1
      opened == [d EXCEPT !.open = @ \union {c}]
  IN  CASE item.type = "immediate" -> Returned(d, item.of)
        [] item.type = "named" -> PutPartial(Returned(d, item.of), item.of)
        [] item.type = "canonical" -> PutPartial(Returned(d, Named(item.of)), Named(item.of))
        [] item.type \in {"invalid", "slots-end"} -> Returned(d, INVALID)
        [] item.type = "back-reference" -> Referred(d, item.of)
        [] item.type \in {"pair", "vector"} ->
             LET n == IF item.type = "pair" THEN 2 ELSE item.of
             IN  PutThenRead(Made(opened, <<Blank(item.type, n)>>), c)
        [] item.type = "compact" ->
             LET cells == [i \in 1..item.of |->
                             [Blank(IF i < item.of THEN "more" ELSE "last", 2) EXCEPT
                                !.elems[2] = IF i < item.of THEN c + i ELSE UNSET]]
             IN  ReadCompact(Returned(Made(opened, cells), c), 1, item.of)
        [] item.type = "table" ->
             ReadEntries(PutPartial(Made(opened, <<Blank("table", 0)>>), c), c)
        [] item.type = "instance" -> Instance(d)

\* dfsch_deserialize_object
Read(d) ==
  IF d.error \/ d.at >= Len(ser.stream) THEN [d EXCEPT !.error = TRUE]
  ELSE LET e == Handled(Next(d)) IN [e EXCEPT !.open = d.open]

-----------------------------------------------------------------------------
(* A program that writes objects to a stream and one that reads it.        *)

Init ==
  /\ heap \in Heaps
  /\ canonical \in Canonical
  /\ roots = <<>>
  /\ ser = NewSerializer
  /\ des = NewDeserializer
  /\ results = <<>>

Serialize(o) ==
  /\ Len(roots) < MaxObjects /\ ~ser.failed
  /\ roots' = Append(roots, o)
  /\ ser' = Serialized(ser, o)
  /\ UNCHANGED <<heap, canonical, des, results>>

Deserialize ==
  /\ Len(results) < Len(roots) /\ ~ser.failed /\ ~des.error
  /\ des' = Read(des)
  /\ results' = Append(results, des'.value)
  /\ UNCHANGED <<heap, canonical, roots, ser>>

Step == (\E o \in DOMAIN heap : Serialize(o)) \/ Deserialize

Spec == Init /\ [][Step]_vars

-----------------------------------------------------------------------------
(* Properties.                                                             *)

\* The pairs of objects met by following both at once.
RECURSIVE Both(_, _)
Both(frontier, met) ==
  LET cells == {q \in frontier : IsCell(q[1]) /\ IsCell(q[2])}
      inside == UNION {{<<heap[q[1]].elems[i], des.made[q[2]].elems[i]>> :
                          i \in DOMAIN heap[q[1]].elems \intersect DOMAIN des.made[q[2]].elems} :
                       q \in cells}
  IN  IF inside \subseteq met THEN met ELSE Both(inside \ met, met \union inside)

Corresponding ==
  LET read == {<<roots[i], results[i]>> : i \in DOMAIN results} IN Both(read, read)

\* Two objects that correspond are the same object, or of one kind and size.
Agree(o, p) ==
  IF IsCell(o) /\ IsCell(p)
  THEN /\ heap[o].kind = des.made[p].kind
       /\ Len(heap[o].elems) = Len(des.made[p].elems)
  ELSE p = IF IsCell(o) /\ Kind(o) = "canonical" THEN Named(o) ELSE o

\* No immediate object that has a canonical name was written.
NoneNamed == \A i \in DOMAIN ser.stream : ser.stream[i].type # "named"

\* What is read is what was written, with everything shared and circular in it,
\* over all the objects of one stream; the cells of a compact list are alike,
\* but a cell met on its own before its list is read twice (serdes.c, types.c,
\* "There is slight issue with multiple references to different virtual cells"),
\* and where an immediate object has a canonical name, or the class of an
\* instance made the map grow, the two count differently.
RoundTrip ==
  NoneNamed /\ ~des.misplaced =>
    /\ ~des.error
    /\ \A q \in Corresponding : Agree(q[1], q[2])
    /\ \A q, r \in Corresponding :
         /\ IsCell(q[2]) /\ q[2] = r[2] => q[1] = r[1]
         /\ IsCell(q[1]) /\ q[1] = r[1] /\ Kind(q[1]) \notin {"more", "last"} => q[2] = r[2]

\* A table that is read finds its entries: the key of an entry is complete when
\* it is hashed, unless the key contains the table (hash.c, the deserialization
\* handler of hash tables).
RECURSIVE ReachedFrom(_, _)
ReachedFrom(frontier, met) ==
  LET inside == UNION {Range(heap[c].elems) : c \in frontier}
      new == {o \in inside : IsCell(o)} \ met
  IN  IF new = {} THEN met ELSE ReachedFrom(new, met \union new)

KeysComplete ==
  des.stale => \E t \in DOMAIN heap : /\ Kind(t) = "table"
                                      /\ IsCell(heap[t].elems[1])
                                      /\ t \in ReachedFrom({heap[t].elems[1]}, {})
=============================================================================
