----------------------------- MODULE HashTable ------------------------------
(***************************************************************************)
(* The hash tables and sets of src/src/hash.c: buckets of chained entries, *)
(* doubled and halved as the number of entries changes, and the iterators  *)
(* that walk the buckets while the table is in use.                        *)
(*                                                                         *)
(* Each operation holds the lock of the table from beginning to end, so    *)
(* it is one action.  An iterator takes the lock for each of its steps and *)
(* keeps a pointer to an entry, and the number of a bucket, in between.    *)
(***************************************************************************)
EXTENDS Naturals, Sequences, SequencesExt, FiniteSets

CONSTANTS
  Key,
  HashValue,
  Varied,         \* bound: the keys given more than one value
  First,          \* the value of the other keys
  NoValue,        \* DFSCH_INVALID_OBJECT, none of HashValue
  NULL,           \* as an entry, an end of a chain and an iterator that has ended
  HASH_MASK,      \* INITIAL_MASK, 7
  MIN_MASK,       \* the mask that is not halved, 0x3
  MARGIN,         \* the entries short of half the buckets at which a table
                  \* is halved, 16
  MaxMask,        \* bound: the vector is not grown beyond it
  Hash,           \* the hash a key is set and looked up by
  dfsch_hash      \* the hash it is unset and conditionally set by, which in
                  \* identity tables is not the same

ASSUME HashTableAssumption ==
  /\ Hash \in [Key -> Nat] /\ dfsch_hash \in [Key -> Nat]
  /\ HASH_MASK \in Nat /\ MARGIN \in Nat
  /\ NoValue \notin HashValue
  /\ NULL \notin Key \X Nat /\ NULL \notin [bucket : Nat, entry : Key \X Nat]

VARIABLES
  table,    \* vector, mask, count and, under their names, the entries
  it,       \* the iterator: bucket and entry, or NULL
  map,      \* history: the value last given to each key, NoValue if unset
  lost,     \* history: keys that went with an entry in front of them
  due,      \* history: keys the iterator found at its start, in the table since
  seen,     \* history: keys it has yielded, in the table since
  resized   \* history: the table was resized since the iterator started

walk == <<it, due, seen, resized>>
hashTableVars == <<table, map, lost, walk>>

-----------------------------------------------------------------------------
(* Entries and chains.                                                     *)

Buckets(t) == 0..t.mask
Bucket(h, mask) == h % (mask + 1)

\* The entries from e on.
Chain(heap, e) ==
  LET from[n \in DOMAIN heap \union {NULL}] ==
        IF n = NULL THEN <<>> ELSE <<n>> \o from[heap[n].next]
  IN  from[e]

InBucket(t, b) == Chain(t.heap, t.vector[b])

\* The entry of key k in the bucket of hash h, NULL if there is none.
Find(t, h, k) ==
  LET chain == InBucket(t, Bucket(h, t.mask))
      at == SelectInSeq(chain, LAMBDA e : t.heap[e].key = k)
  IN  IF at = 0 THEN NULL ELSE chain[at]

\* dfsch_hash_ref, dfsch_idhash_ref
Ref(t, k) ==
  LET e == Find(t, Hash[k], k) IN IF e = NULL THEN NoValue ELSE t.heap[e].value

Linked(t) == UNION {ToSet(InBucket(t, b)) : b \in Buckets(t)}

\* The collector takes the entries that neither the table nor entry e of the
\* iterator leads to.
Collected(t, e) ==
  [t EXCEPT !.heap = [n \in Linked(t) \union ToSet(Chain(t.heap, e)) |-> @[n]]]

\* An entry in nobody's use.
Fresh(heap, k) == <<k, CHOOSE n \in 0..Cardinality(DOMAIN heap) : <<k, n>> \notin DOMAIN heap>>

\* alloc_entry, of an entry that becomes the first of its bucket.
Prepend(t, k, v) ==
  LET b == Bucket(Hash[k], t.mask)
      new == Fresh(t.heap, k)
      entry == [key |-> k, value |-> v, next |-> t.vector[b]]
  IN  [t EXCEPT !.vector[b] = new,
                !.heap = [e \in DOMAIN @ \union {new} |-> IF e = new THEN entry ELSE @[e]]]

\* An entry goes into the new vector as it is if what follows it is what the
\* bucket holds; otherwise a copy does.
Move(t, e) ==
  LET b == Bucket(Hash[t.heap[e].key], t.mask)
  IN  IF t.heap[e].next = t.vector[b] THEN [t EXCEPT !.vector[b] = e]
      ELSE Prepend(t, t.heap[e].key, t.heap[e].value)

Empty(mask) == [b \in 0..mask |-> NULL]

\* Entries go into the new vector one after the other.
MoveAll(t, entries) ==
  LET moved[n \in 0..Len(entries)] ==   \* when n of them are
        IF n = 0 THEN t ELSE Move(moved[n - 1], entries[n])
  IN  moved[Len(entries)]

\* hash_change_size
ChangeSize(t, new_mask) ==
  LET moved[b \in 0..(t.mask + 1)] ==   \* when the first b buckets are
        IF b = 0 THEN [t EXCEPT !.mask = new_mask, !.vector = Empty(new_mask)]
        ELSE MoveAll(moved[b - 1], InBucket(t, b - 1))
  IN  moved[t.mask + 1]

Full(t) == t.count > t.mask + 1

\* hash_put
Put(t, k, v) ==
  LET counted == [t EXCEPT !.count = @ + 1]
  IN  Prepend(IF Full(counted) THEN ChangeSize(counted, (t.mask + 1) * 2 - 1) ELSE counted,
              k, v)

\* Variant: an entry in a chain is not bypassed.
UnlinkNothing(t, e, b) ==
  [t EXCEPT !.vector[b] = IF @ = e THEN NULL ELSE @]

\* An entry in a chain is bypassed; the first one of a chain takes the whole
\* chain with it.
Unlink(t, e, b) ==
  IF t.vector[b] = e THEN [t EXCEPT !.vector[b] = NULL]
  ELSE LET before == CHOOSE n \in ToSet(InBucket(t, b)) : t.heap[n].next = e
       IN  [t EXCEPT !.heap[before].next = t.heap[e].next]

Sparse(t) == t.count + MARGIN < (t.mask + 1) \div 2 /\ t.mask # MIN_MASK

\* dfsch_hash_unset and dfsch_idhash_unset, of the entry found.
Delete(t, e, b) ==
  LET unlinked == [Unlink(t, e, b) EXCEPT !.count = @ - 1]
  IN  IF Sparse(unlinked) THEN ChangeSize(unlinked, ((t.mask + 1) \div 2) - 1) ELSE unlinked

-----------------------------------------------------------------------------
(* The operations of the table.                                            *)

\* make_hash
HashTableInit ==
  /\ table = [vector |-> Empty(HASH_MASK), mask |-> HASH_MASK, count |-> 0,
              heap |-> <<>>]
  /\ it = NULL
  /\ map = [k \in Key |-> NoValue]
  /\ lost = {} /\ due = {} /\ seen = {} /\ resized = FALSE

Present == {k \in Key : map[k] # NoValue} \ lost

\* The iterator keeps its place while the keys gone leave the table t.
Meanwhile(t, gone) ==
  /\ table' = Collected(t, IF it = NULL THEN NULL ELSE it.entry)
  /\ due' = due \ gone
  /\ seen' = seen \ gone
  /\ resized' = (it # NULL /\ (resized \/ t.mask # table.mask))
  /\ UNCHANGED it

\* dfsch_hash_set, dfsch_idhash_set
Set(k, v) ==
  LET e == Find(table, Hash[k], k)
      t == IF e = NULL THEN Put(table, k, v) ELSE [table EXCEPT !.heap[e].value = v]
  IN  /\ t.mask <= MaxMask
      /\ Meanwhile(t, {})
      /\ map' = [map EXCEPT ![k] = v]
      /\ lost' = lost \ {k}

\* dfsch_hash_set_if_exists, dfsch_idhash_set_if_exists: the caller believes
\* the answer.
SetIfExists(k, v) ==
  LET e == Find(table, dfsch_hash[k], k)
  IN  /\ e # NULL
      /\ Meanwhile([table EXCEPT !.heap[e].value = v], {})
      /\ map' = [map EXCEPT ![k] = v]
      /\ UNCHANGED lost

\* dfsch_hash_unset, dfsch_idhash_unset: the same, and the keys behind the
\* first entry of a chain are lost.
Unset(k) ==
  LET b == Bucket(dfsch_hash[k], table.mask)
      e == Find(table, dfsch_hash[k], k)
      gone == {table.heap[n].key : n \in IF table.vector[b] = e THEN ToSet(InBucket(table, b))
                                         ELSE {e}}
  IN  /\ e # NULL
      /\ Meanwhile(Delete(table, e, b), gone)
      /\ map' = [map EXCEPT ![k] = NoValue]
      /\ lost' = (lost \union gone) \ {k}

-----------------------------------------------------------------------------
(* The iterator.                                                           *)

\* The first bucket from b on that is not empty, beyond the vector if there
\* is none.
NextBucket(t, b) ==
  LET full == {n \in b..t.mask : t.vector[n] # NULL}
  IN  IF full = {} THEN t.mask + 1 ELSE CHOOSE n \in full : \A m \in full : n <= m

\* Variant: the bucket is not left behind.
IteratorStaying(t, i) ==
  IF i.entry # NULL /\ t.heap[i.entry].next # NULL
  THEN [i EXCEPT !.entry = t.heap[@].next]
  ELSE LET b == NextBucket(t, i.bucket)
       IN  IF b > t.mask THEN NULL ELSE [bucket |-> b, entry |-> t.vector[b]]

\* hash_iterator_next
IteratorNext(t, i) ==
  IF i.entry # NULL /\ t.heap[i.entry].next # NULL
  THEN [i EXCEPT !.entry = t.heap[@].next]
  ELSE LET b == NextBucket(t, IF i.entry = NULL THEN i.bucket ELSE i.bucket + 1)
       IN  IF b > t.mask THEN NULL ELSE [bucket |-> b, entry |-> t.vector[b]]

\* The iterator goes to i, and yields its key unless it has ended.
Walk(i) ==
  /\ it' = i
  /\ table' = Collected(table, IF i = NULL THEN NULL ELSE i.entry)
  /\ UNCHANGED <<map, lost>>

\* get_hash_iterator
Start ==
  LET i == IteratorNext(table, [bucket |-> 0, entry |-> NULL])
  IN  /\ it = NULL /\ i # NULL
      /\ Walk(i)
      /\ due' = Present
      /\ seen' = {table.heap[i.entry].key}
      /\ resized' = FALSE

NextItem ==
  LET i == IteratorNext(table, it)
  IN  /\ it # NULL
      /\ Walk(i)
      /\ IF i = NULL THEN due' = {} /\ seen' = {} /\ resized' = FALSE
         ELSE seen' = seen \union {table.heap[i.entry].key} /\ UNCHANGED <<due, resized>>

HashTableNext ==
  \/ \E k \in Key, v \in HashValue :
       /\ k \in Varied \/ v = First
       /\ Set(k, v) \/ SetIfExists(k, v)
  \/ \E k \in Key : Unset(k)
  \/ Start
  \/ NextItem

HashTableSpec == HashTableInit /\ [][HashTableNext]_hashTableVars

-----------------------------------------------------------------------------
(* Correctness.                                                            *)

\* No key has two entries, and each entry is in the bucket where its key is
\* looked for, also after hash_change_size has moved some of the entries of a
\* chain and copied the others; and there are as many buckets as entries at
\* least: count, which chains that are dropped whole leave too high, is never
\* too low (hash.c, hash_change_size, dfsch_idhash_set and dfsch_idhash_unset).
WellFormed ==
  /\ \A b \in Buckets(table) : \A e \in ToSet(InBucket(table, b)) :
       Bucket(Hash[table.heap[e].key], table.mask) = b
  /\ \A d, e \in Linked(table) : table.heap[d].key = table.heap[e].key => d = e
  /\ Cardinality(Linked(table)) <= table.count
  /\ table.count <= table.mask + 1

\* A table keeps its shape; and lookups agree with what the callers were told,
\* through growing, shrinking and unsetting, except for the keys that stood
\* behind one that was unset (hash.c).
MapButForLost ==
  /\ WellFormed
  /\ \A k \in Key : Ref(table, k) = IF k \in lost THEN NoValue ELSE map[k]

IteratedOnce ==
  it # NULL /\ ~resized /\ it' # it =>
    IF it' = NULL THEN due \subseteq seen
    ELSE table.heap[it'.entry].key \notin seen

\* An iteration over a table that is not resized meanwhile yields no key
\* twice unless it was unset in between, and all that were there throughout,
\* although entries come and go and the one it stands at may be unset (hash.c,
\* hash_iterator_next).
IteratesOnce == [][IteratedOnce]_hashTableVars
=============================================================================
