------------------------------- MODULE EqHash -------------------------------
(***************************************************************************)
(* The identity hash table of src/src/eqhash.c, which holds the variables  *)
(* of every environment frame, the breakpoints and traced functions, and   *)
(* the objects met by the printer, the parser and the serializer.          *)
(*                                                                         *)
(* A table starts as an array of SMALL_SIZE entries and turns into a       *)
(* vector of buckets when it is full.  The first entry of a bucket lies in *)
(* the vector itself; the others are allocated and chained.  A cache of    *)
(* pointers to entries is consulted before the buckets.                    *)
(*                                                                         *)
(* One operation is one action: a table is used by one thread at a time,   *)
(* which is the business of the lock of the environments.                  *)
(***************************************************************************)
EXTENDS Naturals, Sequences, SequencesExt, FiniteSets

CONSTANTS
  Key,            \* the objects used as keys
  HashValue,
  Varied,         \* bound: the keys given flags and more than one value
  First,          \* the value of the other keys
  Removed,        \* bound: the keys that are unset
  NoKey,          \* DFSCH_INVALID_OBJECT as a key, which is none of Key
  NoValue,        \* DFSCH_INVALID_OBJECT as a value, none of HashValue
  NoEntry,        \* NULL as an entry: what is not found, an empty place of
                  \* the cache
  SMALL_SIZE,     \* DFSCH_EQHASH_SMALL_SIZE
  CACHE_SIZE,     \* DFSCH_EQHASH_CACHE_SIZE
  INITIAL_MASK,
  Hash            \* fast_ptr_hash: for each key and NoKey the low bits, the
                  \* bits from 10 on and the bits from 16 on

ASSUME EqHashAssumption ==
  /\ Hash \in [Key \union {NoKey} -> [low : Nat, mid : Nat, high : Nat]]
  /\ INITIAL_MASK \in Nat \ {0} /\ CACHE_SIZE \in Nat \ {0}
  /\ SMALL_SIZE \in 1..INITIAL_MASK   \* 4 and 15
  /\ NoKey \notin Key /\ NoValue \notin HashValue /\ NoEntry \notin Nat \X Nat
  /\ Removed \subseteq Key /\ Varied \subseteq Key

VARIABLES
  table,      \* the dfsch_eqhash_t
  map,        \* history: the value last given to each key, NoValue if unset
  rewritten   \* history: keys given a new value or unset since the table grew

hashVars == <<table, map, rewritten>>

-----------------------------------------------------------------------------
(* Entries.  An entry of the vector is named by the mask of its vector,    *)
(* which no other vector of the table has, and its bucket; an allocated    *)
(* entry by 0 and a number.                                                *)

Entry(k, v, f) == [key |-> k, value |-> v, flags |-> f]
FreeEntry == Entry(NoKey, NoValue, 0)

Buckets(mask) == 0..mask
Bucket(k, mask) == Hash[k].low % (mask + 1)
InPlace(b, mask) == <<mask, b>>

\* alloc_vector: buckets with a free entry and no chain, beside the entries
\* that exist already.
AllocVector(mask, heap) ==
  [ mask  |-> mask,
    chain |-> [b \in Buckets(mask) |-> <<InPlace(b, mask)>>],
    heap  |-> [e \in DOMAIN heap \union {InPlace(b, mask) : b \in Buckets(mask)} |->
                 IF e \in DOMAIN heap THEN heap[e] ELSE FreeEntry] ]

\* alloc_entry: an entry that is in nobody's use.
Unused(heap) == <<0, Min({n \in 0..Cardinality(DOMAIN heap) : <<0, n>> \notin DOMAIN heap})>>

\* eqhash_large_put_low: a second key of a bucket goes behind the first; a
\* key that finds the first entry free takes it and ends the chain there.
PutLow(vec, entry) ==
  LET b == Bucket(entry.key, vec.mask)
      first == Head(vec.chain[b])
      new == Unused(vec.heap)
  IN  IF vec.heap[first].key # NoKey
      THEN [vec EXCEPT
             !.chain[b] = <<first, new>> \o Tail(@),
             !.heap = [e \in DOMAIN @ \union {new} |-> IF e = new THEN entry ELSE @[e]]]
      ELSE [vec EXCEPT !.chain[b] = <<first>>, !.heap[first] = entry]

-----------------------------------------------------------------------------
(* The whole table.                                                        *)

NoVector == AllocVector(0, <<>>)
EmptyCache == [c \in 0..(CACHE_SIZE - 1) |-> NoEntry]
NoSmall == [i \in 1..SMALL_SIZE |-> FreeEntry]

Small(entries) ==
  [is_large |-> FALSE, small |-> entries, vec |-> NoVector, count |-> 0,
   cache |-> EmptyCache]

Large(vec, count, cache) ==
  [is_large |-> TRUE, small |-> NoSmall, vec |-> vec, count |-> count,
   cache |-> cache]

\* The entries in the buckets, and those the table still points to.
Linked(t) == UNION {ToSet(t.vec.chain[b]) : b \in Buckets(t.vec.mask)}
Reachable(t) == Linked(t) \union {t.cache[c] : c \in {c \in DOMAIN t.cache : t.cache[c] # NoEntry}}

\* The collector takes the entries nothing points to.
Kept(t) ==
  [t EXCEPT !.vec.heap = [e \in (DOMAIN @) \intersect Reachable(t) |-> @[e]]]

\* dfsch_eqhash_init
NewTable(start_large) ==
  IF start_large
  THEN Large(AllocVector(INITIAL_MASK, <<>>), 0, EmptyCache)
  ELSE Small(NoSmall)

\* Entries are put into a vector one after the other.
PutAll(vec, entries) ==
  LET put[n \in 0..Len(entries)] ==   \* when n of them are
        IF n = 0 THEN vec ELSE PutLow(put[n - 1], entries[n])
  IN  put[Len(entries)]

\* convert_to_large, called when no small entry is free
ConvertToLarge(t) ==
  Large(PutAll(AllocVector(INITIAL_MASK, <<>>), t.small), SMALL_SIZE, EmptyCache)

\* grow_hash: the entries of all buckets, free ones included, are put into a
\* vector of twice the size.  The cache is left alone.
Grow(t) ==
  LET mask == (t.vec.mask + 1) * 2 - 1
      entries(b) == [i \in 1..Len(t.vec.chain[b]) |-> t.vec.heap[t.vec.chain[b][i]]]
      moved[b \in 0..(t.vec.mask + 1)] ==   \* when the first b buckets are
        IF b = 0 THEN AllocVector(mask, t.vec.heap) ELSE PutAll(moved[b - 1], entries(b - 1))
  IN  [t EXCEPT !.vec = moved[t.vec.mask + 1]]

\* dfsch_eqhash_put, of a table that is large
PutLarge(t, k, v) ==
  LET counted == [t EXCEPT !.count = @ + 1]
      grown == IF counted.count > t.vec.mask THEN Grow(counted) ELSE counted
  IN  [grown EXCEPT !.vec = PutLow(@, Entry(k, v, 0))]

\* dfsch_eqhash_put.  The flags of a small entry are not assigned.
Put(t, k, v) ==
  LET free == SelectInSeq(t.small, LAMBDA e : e.key = NoKey)
  IN  IF t.is_large THEN PutLarge(t, k, v)
      ELSE IF free = 0 THEN PutLarge(ConvertToLarge(t), k, v)
      ELSE [t EXCEPT !.small[free] = Entry(k, v, @.flags)]

CacheIndex(k) == Hash[k].high % CACHE_SIZE

\* find_entry: what it returns, NoEntry or an entry, and the cache it leaves.
ChainOf(t, k) == t.vec.chain[Bucket(k, t.vec.mask)]
PlaceOf(t, k) == SelectInSeq(ChainOf(t, k), LAMBDA e : t.vec.heap[e].key = k)
InBucket(t, k) == IF PlaceOf(t, k) = 0 THEN NoEntry ELSE ChainOf(t, k)[PlaceOf(t, k)]

\* Variant: a cached entry is not compared with the key.
CacheHitUnchecked(t, k) == t.cache[CacheIndex(k)] # NoEntry

CacheHit(t, k) ==
  LET c == t.cache[CacheIndex(k)] IN c # NoEntry /\ t.vec.heap[c].key = k

FindEntry(t, k) == IF CacheHit(t, k) THEN t.cache[CacheIndex(k)] ELSE InBucket(t, k)

Cached(t, k) ==
  IF FindEntry(t, k) = NoEntry THEN t
  ELSE [t EXCEPT !.cache[CacheIndex(k)] = FindEntry(t, k)]

\* delete_entry.  An allocated entry is unlinked; the first one of a bucket
\* takes over its successor, or is marked free.  The cache is cleared at
\* another index than the one find_entry fills.
DeleteEntry(t, k) ==
  LET b == Bucket(k, t.vec.mask)
      chain == ChainOf(t, k)
      at == PlaceOf(t, k)
      index == Hash[k].mid % CACHE_SIZE
      vec == IF at > 1 THEN [t.vec EXCEPT !.chain[b] = RemoveAt(@, at)]
             ELSE IF Len(chain) > 1
             THEN [t.vec EXCEPT !.chain[b] = RemoveAt(@, 2), !.heap[chain[1]] = t.vec.heap[chain[2]]]
             ELSE [t.vec EXCEPT !.heap[chain[1]] = Entry(NoKey, NoValue, @.flags)]
  IN  IF at = 0 THEN t
      ELSE Large(vec, t.count - 1,
                 [t.cache EXCEPT ![index] = IF @ = chain[at] THEN NoEntry ELSE @])

SmallIndex(t, k) == SelectInSeq(t.small, LAMBDA e : e.key = k)

\* Whether the table finds the key: the result of dfsch_eqhash_set_if_exists
\* and of dfsch_eqhash_ref_ex.
Has(t, k) == IF t.is_large THEN FindEntry(t, k) # NoEntry ELSE SmallIndex(t, k) # 0

\* The value dfsch_eqhash_ref returns.
Ref(t, k) ==
  IF ~Has(t, k) THEN NoValue
  ELSE IF t.is_large THEN t.vec.heap[FindEntry(t, k)].value
  ELSE t.small[SmallIndex(t, k)].value

-----------------------------------------------------------------------------
HashInit ==
  /\ \E start_large \in BOOLEAN : table = NewTable(start_large)
  /\ map = [k \in Key |-> NoValue]
  /\ rewritten = {}

Grown == table.is_large /\ table.vec.mask > INITIAL_MASK

Note(k) == rewritten' = IF Grown THEN rewritten \union {k} ELSE rewritten

\* The found entry is given value v; dfsch_eqhash_set and set_if_exists.
Assign(k, v) ==
  /\ Has(table, k)
  /\ table' = IF table.is_large
              THEN Kept([Cached(table, k) EXCEPT !.vec.heap[FindEntry(table, k)].value = v])
              ELSE [table EXCEPT !.small[SmallIndex(table, k)].value = v]

\* dfsch_eqhash_set
Set(k, v) ==
  /\ \/ Assign(k, v) /\ Note(k)
     \/ /\ ~Has(table, k)
        /\ table' = Kept(Put(table, k, v))
        /\ UNCHANGED rewritten
  /\ map' = [map EXCEPT ![k] = v]

\* dfsch_eqhash_set_if_exists: the caller believes the answer.
SetIfExists(k, v) ==
  \/ /\ Assign(k, v)
     /\ Note(k)
     /\ map' = [map EXCEPT ![k] = v]
  \/ ~Has(table, k) /\ UNCHANGED hashVars

\* dfsch_eqhash_set_flags
SetFlags(k, f) ==
  /\ table' = IF ~Has(table, k) THEN table
              ELSE IF table.is_large
              THEN Kept([Cached(table, k) EXCEPT !.vec.heap[FindEntry(table, k)].flags = f])
              ELSE [table EXCEPT !.small[SmallIndex(table, k)].flags = f]
  /\ UNCHANGED <<map, rewritten>>

\* dfsch_eqhash_unset
Unset(k) ==
  /\ table' = IF table.is_large THEN Kept(DeleteEntry(table, k))
              ELSE IF SmallIndex(table, k) = 0 THEN table
              ELSE [table EXCEPT !.small[SmallIndex(table, k)] = Entry(NoKey, NoValue, @.flags)]
  /\ map' = [map EXCEPT ![k] = NoValue]
  /\ rewritten' = IF table.is_large THEN rewritten \union {k} ELSE rewritten

\* dfsch_eqhash_ref and dfsch_eqhash_ref_ex: the cache remembers the entry.
Lookup(k) ==
  /\ table' = IF table.is_large THEN Kept(Cached(table, k)) ELSE table
  /\ UNCHANGED <<map, rewritten>>

HashNext ==
  \/ \E k \in Key : Lookup(k)
  \/ \E k \in Removed : Unset(k)
  \/ \E k \in Key, v \in HashValue :
       /\ k \in Varied \/ v = First
       /\ Set(k, v) \/ SetIfExists(k, v)
  \/ \E k \in Varied, f \in {0, 1} : SetFlags(k, f)

HashSpec == HashInit /\ [][HashNext]_hashVars

-----------------------------------------------------------------------------
(* Correctness.                                                            *)

\* The entries of the table that hold a key.
Used == {e \in Linked(table) : table.vec.heap[e].key # NoKey}

\* No key has two entries.
EachKeyOnce ==
  /\ \A i, j \in 1..SMALL_SIZE :
       i # j /\ table.small[i].key = table.small[j].key => table.small[i].key = NoKey
  /\ \A d, e \in Used :
       table.vec.heap[d].key = table.vec.heap[e].key => d = e

\* Every chain begins with the entry of its bucket, and every entry is in the
\* bucket it is looked for in.
InItsBucket ==
  \A b \in Buckets(table.vec.mask) :
    /\ Head(table.vec.chain[b]) = InPlace(b, table.vec.mask)
    /\ \A e \in ToSet(table.vec.chain[b]) \intersect Used :
         Bucket(table.vec.heap[e].key, table.vec.mask) = b

\* count never falls behind the entries in use, so the table grows before it
\* holds more entries than buckets.
CountCoversEntries ==
  table.is_large => /\ DOMAIN table.vec.heap = Reachable(table)
                    /\ Cardinality(Used) <= table.count
                    /\ table.count <= table.vec.mask

\* No operation, not the conversion to a large table, not its growth with
\* entries moved between chains, and not the deletion that copies the second
\* entry of a chain over the first, leaves two entries for a key, an entry where
\* it is not looked for or a table with more entries than buckets (eqhash.c,
\* convert_to_large, grow_hash, put_entry and delete_entry).
WellFormed == EachKeyOnce /\ InItsBucket /\ CountCoversEntries

\* A table keeps its shape; and one in which nothing was unset since it became
\* large, and no key set again since it has grown, is a map: a lookup returns
\* the last value set.
MapUntilRewritten ==
  WellFormed /\ (rewritten = {} => \A k \in Key : Ref(table, k) = map[k])

\* What dfsch_eqhash_set, unset and ref are for.
LastSetWins == \A k \in Key : Ref(table, k) = map[k]
=============================================================================
