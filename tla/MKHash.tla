------------------------------- MODULE MKHash -------------------------------
(***************************************************************************)
(* The multiple-key hash table of src/src/mkhash.c, open addressing with   *)
(* linear probing: the cache of generic functions, and a mapping of the    *)
(* language.  A tuple of keys is one key here: it is hashed and compared   *)
(* as a whole.                                                             *)
(***************************************************************************)
EXTENDS Integers, FiniteSets, FiniteSetsExt

CONSTANTS
  Tuple,            \* tuples of keys
  cum_hash,         \* of each
  Value,
  NoKey,            \* keys is NULL
  INVALID_OBJECT,   \* DFSCH_INVALID_OBJECT
  INITIAL_MASK      \* 7: direct_entries are eight

ASSUME MKAssumption ==
  /\ cum_hash \in [Tuple -> Nat] /\ INITIAL_MASK \in Nat
  /\ NoKey \notin Tuple /\ INVALID_OBJECT \notin Value

VARIABLES
  entries,   \* a function from 0..mask
  count,
  aborted,   \* the process was aborted by an assertion
  content,   \* history: what was last set
  unsets     \* history: something was unset since the table was reset

mkVars == <<entries, count, aborted, content, unsets>>

FreeEntry == [key |-> NoKey, value |-> INVALID_OBJECT]
FreeTuples(mask) == [i \in 0..mask |-> FreeEntry]
TupleMask(e) == Cardinality(DOMAIN e) - 1

\* The place an entry is looked for at the n-th time.
TuplePlace(e, key, n) == (cum_hash[key] + n) % (TupleMask(e) + 1)

\* The first place with one of some keys, -1 if there is none.
FirstWith(e, key, keys) ==
  LET found == {n \in DOMAIN e : e[TuplePlace(e, key, n)].key \in keys}
  IN  IF found = {} THEN -1 ELSE TuplePlace(e, key, Min(found))

\* Variant: a place whose entry was unset ends the search.
FindFreed(e, key) ==
  LET found == {n \in DOMAIN e : \/ e[TuplePlace(e, key, n)].key = key
                                 \/ e[TuplePlace(e, key, n)].value = INVALID_OBJECT}
  IN  IF found = {} THEN -1 ELSE TuplePlace(e, key, Min(found))

FindEntry(e, key) == FirstWith(e, key, {key, NoKey})

RefTuple(key) ==
  LET i == FindEntry(entries, key) IN IF i = -1 THEN INVALID_OBJECT ELSE entries[i].value

\* The first free place for an entry gets it.
PutTuple(e, entry) == [e EXCEPT ![FirstWith(e, entry.key, {NoKey})] = entry]

\* resize_hash: what was unset is left behind.
ResizeHash(e, mask) ==
  LET moved[n \in 0..(TupleMask(e) + 1)] ==   \* when n entries are
        IF n = 0 THEN FreeTuples(mask)
        ELSE IF e[n - 1].value = INVALID_OBJECT THEN moved[n - 1]
        ELSE PutTuple(moved[n - 1], e[n - 1])
  IN  moved[TupleMask(e) + 1]

Resized(e, n) ==
  LET mask == TupleMask(e)
  IN  IF 3 * n > 2 * mask THEN ResizeHash(e, 2 * mask + 1)
      ELSE IF 3 * n < mask /\ mask # INITIAL_MASK THEN ResizeHash(e, (mask - 1) \div 2)
      ELSE e

-----------------------------------------------------------------------------

MKInit ==
  /\ entries = FreeTuples(INITIAL_MASK)
  /\ count = 0
  /\ aborted = FALSE
  /\ content = [k \in Tuple |-> INVALID_OBJECT]
  /\ unsets = FALSE

\* dfsch_mkhash_set, which unsets if the value is INVALID_OBJECT.  When there
\* is no place the table is resized to the size it has, and then e, which is
\* still NULL, is asserted.
SetTuple(key, value) ==
  LET i == FindEntry(entries, key)
      n == CASE i = -1 \/ entries[i].value = value -> count
             [] entries[i].value = INVALID_OBJECT -> count + 1
             [] value = INVALID_OBJECT -> count - 1
             [] OTHER -> count
  IN  /\ ~aborted
      /\ aborted' = (i = -1)
      /\ content' = [content EXCEPT ![key] = value]
      /\ unsets' = (unsets \/ value = INVALID_OBJECT)
      /\ count' = n
      /\ entries' = IF i = -1 THEN ResizeHash(entries, TupleMask(entries))
                    ELSE Resized([entries EXCEPT ![i] = [key |-> key, value |-> value]], n)

\* dfsch_mkhash_reset
ResetTuples ==
  /\ ~aborted
  /\ entries' = FreeTuples(INITIAL_MASK)
  /\ count' = 0
  /\ content' = [k \in Tuple |-> INVALID_OBJECT]
  /\ unsets' = FALSE
  /\ UNCHANGED aborted

MKNext ==
  \/ ResetTuples
  \/ \E key \in Tuple, value \in Value \union {INVALID_OBJECT} : SetTuple(key, value)

MKSpec == MKInit /\ [][MKNext]_mkVars

-----------------------------------------------------------------------------

\* A table is a map: whatever was set, unset, moved to a larger or smaller
\* table and probed past, a lookup finds what was last set, the count is that of
\* the entries that count; and where nothing is unset, as in the cache of a
\* generic function, no table fills up and every search ends at a free place
\* (mkhash.c, find_entry, resize_hash and dfsch_mkhash_set).
IsMap ==
  /\ ~aborted =>
       /\ \A key \in Tuple : RefTuple(key) = content[key]
       /\ count = Cardinality({i \in DOMAIN entries : entries[i].value # INVALID_OBJECT})
  /\ ~unsets => ~aborted /\ \E i \in DOMAIN entries : entries[i].key = NoKey
=============================================================================
