-------------------------------- MODULE Weak --------------------------------
(***************************************************************************)
(* Parasites, src/src/weak.c: values attached under names to any objects,  *)
(* in identity hashes that hang on a weak table keyed by the addresses of  *)
(* the objects.  Threads attach, retrieve and detach them; the collector   *)
(* takes objects, marks what refers to them as dead and lets new objects   *)
(* have their addresses.                                                   *)
(*                                                                         *)
(* An operation on the weak table holds its lock and is one step, but      *)
(* attach_parasite looks the object up and enters a new table in two.  A   *)
(* chain of it is a sequence of its entries, the first one first.  Of the  *)
(* identity hash of an object, src/src/hash.c, there are its size, the     *)
(* names in it and which of them comes before which.                       *)
(***************************************************************************)
EXTENDS Integers, Sequences, SequencesExt, FiniteSets

CONSTANTS
  Object,    \* the objects that ever exist
  Address,   \* the address of each of them
  Chain,     \* the bucket of each address
  Worker,    \* the threads
  Parasite,  \* the names of values
  Varied,    \* bound: the objects given more than one name, and those detached
  First,     \* the name the others are given
  HASH,         \* the hash of a name, by which it is entered and looked up
  dfsch_hash,   \* the hash of a name, by which it is removed
  HASH_MASK,    \* INITIAL_MASK of hash.c, 7
  MIN_MASK,     \* the mask that is not halved, 0x3
  MARGIN,       \* the entries short of half the buckets at which a hash is halved, 16
  MaxMask       \* bound: the mask of no hash exceeds it

ASSUME HashAssumption == HASH_MASK \in Nat

VARIABLES
  alive,     \* the objects that exist
  buckets,   \* the chains of the table
  attaching, \* what a thread has not found and will enter: <<object, name>> or <<>>
  attached,  \* history: the parasites each object was given
  expected,  \* history: those of them not detached since, nor lost by a detach
  astray     \* history: objects that have lost a hash with parasites

weakVars == <<alive, buckets, attaching, attached, expected, astray>>

\* weak_key_entry_create; the collector clears live when object is taken.
Entry(object, t) == [key |-> Address[object], of |-> object, live |-> TRUE, value |-> t]

-----------------------------------------------------------------------------
(* The identity hash of an object.                                         *)

\* dfsch_make_idhash; before says which name precedes which in a chain.
NoNames == [mask |-> HASH_MASK, count |-> 0, names |-> {}, before |-> {}]

Place(h, t) == h % (t.mask + 1)

\* hash_change_size puts one entry after the other, bucket by bucket, before
\* those it has put already.
Resized(t, mask) ==
  LET earlier(m, n) == Place(HASH[m], t) < Place(HASH[n], t)
      beside(m, n) == Place(HASH[m], t) = Place(HASH[n], t)
  IN  [t EXCEPT !.mask = mask,
                !.before = {p \in t.names \X t.names :
                              \/ earlier(p[2], p[1])
                              \/ beside(p[2], p[1]) /\ <<p[2], p[1]>> \in t.before}]

\* dfsch_idhash_set
WithName(t, n) ==
  LET counted == [t EXCEPT !.count = @ + 1]
      sized == IF counted.count > t.mask + 1 THEN Resized(counted, (t.mask + 1) * 2 - 1)
               ELSE counted
  IN  IF n \in t.names THEN t
      ELSE [sized EXCEPT !.names = @ \union {n},
                         !.before = @ \union {<<n, m>> : m \in t.names}]

\* What dfsch_idhash_unset takes out: a name that is in the bucket of the other
\* hash, and with the first one of a chain those behind it.
TakenOut(t, n) ==
  LET chain == {m \in t.names : Place(HASH[m], t) = Place(dfsch_hash[n], t)}
  IN  IF n \notin chain THEN {}
      ELSE IF \E m \in chain : <<m, n>> \in t.before THEN {n}
      ELSE chain

\* dfsch_idhash_unset; count is of all entries but one, whatever is taken out.
WithoutName(t, n) ==
  LET left == [t EXCEPT !.count = @ - 1, !.names = @ \ TakenOut(t, n),
                        !.before = {p \in @ : {p[1], p[2]} \cap TakenOut(t, n) = {}}]
  IN  IF TakenOut(t, n) = {} THEN t
      ELSE IF left.count + MARGIN < (t.mask + 1) \div 2 /\ t.mask # MIN_MASK
      THEN Resized(left, ((t.mask + 1) \div 2) - 1)
      ELSE left

-----------------------------------------------------------------------------
(* find_entry.                                                             *)

Dead(chain) == {i \in DOMAIN chain : ~chain[i].live}

\* Dead entries are unlinked.  The first one that is live stays; the others
\* are all unlinked from that one, with every entry that is in between.
WithoutDead(chain) ==
  LET first == {i \in DOMAIN chain : chain[i].live}
      from == CHOOSE i \in first : \A j \in first : i <= j
      last == CHOOSE i \in Dead(chain) : \A j \in Dead(chain) : j <= i
  IN  IF first = {} THEN <<>>
      ELSE IF \A i \in Dead(chain) : i < from THEN SubSeq(chain, from, Len(chain))
      ELSE <<chain[from]>> \o SubSeq(chain, last + 1, Len(chain))

ChainOf(object) == buckets[Chain[Address[object]]]

\* Variant: the entry of an object that was taken is found for the next one.
PassedAny(object) == {i \in DOMAIN ChainOf(object) : ChainOf(object)[i].key = Address[object]}

\* The entries for an object that find_entry passes, the last of which it
\* returns: it may have unlinked it.
Passed(object) ==
  {i \in DOMAIN ChainOf(object) :
     ChainOf(object)[i].live /\ ChainOf(object)[i].key = Address[object]}
Finds(object) == Passed(object) # {}
LastPassed(object) == CHOOSE i \in Passed(object) : \A j \in Passed(object) : j <= i

\* The hash of an object, and what retrieve_parasite finds in it.
HashOf(o) == ChainOf(o)[LastPassed(o)].value
Parasites(o) == IF Finds(o) THEN HashOf(o).names ELSE {}

\* The objects whose live entries the search for one of them unlinks.
Unlinked(object) ==
  {e.of : e \in {e \in Range(ChainOf(object)) : e.live}}
    \ {e.of : e \in Range(WithoutDead(ChainOf(object)))}

\* The table after find_entry, in the chain of the object.
Searched(object) == [buckets EXCEPT ![Chain[Address[object]]] = WithoutDead(@)]

\* The hash of the object is t, in the entry it was found with.
Put(chain, object, t) ==
  [i \in DOMAIN chain |->
     IF chain[i].key = Address[object] THEN [chain[i] EXCEPT !.value = t] ELSE chain[i]]

-----------------------------------------------------------------------------
WeakInit ==
  /\ alive = {}
  /\ buckets = [b \in {Chain[Address[o]] : o \in Object} |-> <<>>]
  /\ attaching = [t \in Worker |-> <<>>]
  /\ attached = [o \in Object |-> {}]
  /\ expected = [o \in Object |-> {}]
  /\ astray = {}

\* An object is made at an address that is free.
Make(o) ==
  /\ \A p \in alive : Address[p] # Address[o]
  /\ alive' = alive \union {o}
  /\ UNCHANGED <<buckets, attaching, attached, expected, astray>>

\* The collector takes an object that no thread has in hand.
Collect(o) ==
  /\ o \in alive /\ \A t \in Worker : attaching[t] # <<>> => attaching[t][1] # o
  /\ alive' = alive \ {o}
  /\ buckets' = [b \in DOMAIN buckets |->
                   [i \in DOMAIN buckets[b] |->
                      IF buckets[b][i].of = o THEN [buckets[b][i] EXCEPT !.live = FALSE]
                      ELSE buckets[b][i]]]
  /\ attached' = [attached EXCEPT ![o] = {}]
  /\ expected' = [expected EXCEPT ![o] = {}]
  /\ astray' = astray \ {o}
  /\ UNCHANGED attaching

\* attach_parasite of an object that has a hash.
Attach(t, o, n) ==
  /\ attaching[t] = <<>> /\ Finds(o)
  /\ WithName(HashOf(o), n).mask <= MaxMask
  /\ buckets' = [Searched(o) EXCEPT ![Chain[Address[o]]] = Put(@, o, WithName(HashOf(o), n))]
  /\ attached' = [attached EXCEPT ![o] = @ \union {n}]
  /\ expected' = [expected EXCEPT ![o] = @ \union {n}]
  /\ astray' = astray \union Unlinked(o)
  /\ UNCHANGED <<alive, attaching>>

\* It has none: the thread makes one,
AttachFirst(t, o, n) ==
  /\ attaching[t] = <<>> /\ ~Finds(o)
  /\ buckets' = Searched(o)
  /\ attaching' = [attaching EXCEPT ![t] = <<o, n>>]
  /\ astray' = astray \union Unlinked(o)
  /\ UNCHANGED <<alive, attached, expected>>

\* and weak_key_hash_set enters it, over one that was entered meanwhile.
EnterTable(t) ==
  /\ attaching[t] # <<>>
  /\ LET o == attaching[t][1]
         n == attaching[t][2]
         new == WithName(NoNames, n)
     IN  /\ buckets' = [Searched(o) EXCEPT ![Chain[Address[o]]] =
                          IF Finds(o) THEN Put(@, o, new) ELSE <<Entry(o, new)>> \o @]
         /\ attached' = [attached EXCEPT ![o] = @ \union {n}]
         /\ expected' = [expected EXCEPT ![o] = @ \union {n}]
         /\ astray' = astray \union Unlinked(o) \union (IF Finds(o) THEN {o} ELSE {})
  /\ attaching' = [attaching EXCEPT ![t] = <<>>]
  /\ UNCHANGED alive

\* detach_parasite, which does not look whether the name was taken out.
Detach(o, n) ==
  /\ buckets' = [Searched(o) EXCEPT ![Chain[Address[o]]] =
                   IF Finds(o) THEN Put(@, o, WithoutName(HashOf(o), n)) ELSE @]
  /\ expected' = [expected EXCEPT ![o] =
                    @ \ ({n} \union (IF Finds(o) THEN TakenOut(HashOf(o), n) ELSE {}))]
  /\ astray' = astray \union Unlinked(o)
  /\ UNCHANGED <<alive, attaching, attached>>

\* retrieve_parasite changes the table also.
Retrieve(o) ==
  /\ buckets' = Searched(o)
  /\ astray' = astray \union Unlinked(o)
  /\ UNCHANGED <<alive, attaching, attached, expected>>

WeakNext ==
  \/ \E o \in Object : Make(o) \/ Collect(o)
  \/ \E o \in alive :
       \/ \E n \in Parasite :
            \/ /\ o \in Varied \/ n = First
               /\ \E t \in Worker : Attach(t, o, n) \/ AttachFirst(t, o, n)
            \/ o \in Varied /\ Detach(o, n)
       \/ Retrieve(o)
  \/ \E t \in Worker : EnterTable(t)

WeakSpec == WeakInit /\ [][WeakNext]_weakVars

-----------------------------------------------------------------------------
(* Correctness.                                                            *)

\* The names that are entered in one bucket and removed from another one.
Misplaced == {n \in Parasite : HASH[n] # dfsch_hash[n]}

\* An object never has parasites of an object that was at its address before; one
\* that was detached it has at most if its two hashes differ; and it has all that
\* were attached and not detached since, but for those which stood in a chain
\* behind one that was detached, and for objects whose entry was unlinked with a
\* dead one or entered by two threads at once (weak.c, hash.c, dfsch_idhash_unset).
OwnParasites ==
  \A o \in alive :
    /\ Parasites(o) \subseteq attached[o]
    /\ Parasites(o) \subseteq expected[o] \union Misplaced
    /\ o \notin astray => expected[o] \subseteq Parasites(o)
=============================================================================
