---------------------------- MODULE HashingProofs ----------------------------
(***************************************************************************)
(* Proofs about the tables of symbols, of tuples of keys and of hash.c,    *)
(* for any names or keys, hashes, values and initial sizes.  SymbolTable   *)
(* and MKHash, with open addressing: what is in a table is found, what is  *)
(* not is not, and no table is filled by what a program does, but for keys *)
(* that are unset.  HashTable, with chains: lookups agree with what was    *)
(* set but for the keys that were lost, also after a resizing has moved    *)
(* and copied entries; and iterators meet every key once.                  *)
(***************************************************************************)
EXTENDS SymbolTable, MKHash, HashTable, FiniteSetTheorems, WellFoundedInduction, TLAPS

-----------------------------------------------------------------------------
(* Numbers.                                                                *)

\* A set of natural numbers has a least element.
LEMMA LeastOf ==
  ASSUME NEW some \in SUBSET Nat, some # {}
  PROVE  \E i \in some : \A j \in some : i <= j
<1>1. OpToRel(<, Nat) = {ss \in Nat \X Nat : ss[1] < ss[2]}
  BY DEF OpToRel
<1>2. PICK k \in some : \A j \in some : ~(<<j, k>> \in OpToRel(<, Nat))
  BY NatLessThanWellFounded, WFMin, Zenon
<1>3. \A j \in some : k <= j
  <2>1. SUFFICES ASSUME NEW j \in some, ~(k <= j)
                 PROVE  FALSE
    OBVIOUS
  <2>2. j \in Nat /\ k \in Nat /\ j < k
    BY <2>1
  <2>3. <<j, k>> \in {ss \in Nat \X Nat : ss[1] < ss[2]}
    BY <2>2
  <2>. QED  BY <1>1, <1>2, <2>3
<1>. QED  BY <1>3

LEMMA MinOf ==
  ASSUME NEW some \in SUBSET Nat, some # {}
  PROVE  Min(some) \in some /\ \A j \in some : Min(some) <= j
<1>1. \E i \in some : \A j \in some : i <= j
  BY LeastOf
<1>. QED  BY <1>1, Zenon DEF Min

\* What holds of 0, and of the next number whenever it holds of one, holds up
\* to any number.
LEMMA Upward ==
  ASSUME NEW N \in Nat, NEW S, 0 \in S, \A n \in 0..(N - 1) : n \in S => n + 1 \in S
  PROVE  \A n \in 0..N : n \in S
<1>. DEFINE rest == {n \in 0..N : n \notin S}
<1>1. SUFFICES ASSUME rest # {}
               PROVE  FALSE
  OBVIOUS
<1>2. PICK i \in rest : \A j \in rest : i <= j
  <2>. rest \in SUBSET Nat
    OBVIOUS
  <2>. HIDE DEF rest
  <2>. QED  BY <1>1, LeastOf
<1>3. i # 0 /\ i \in 0..N /\ i \notin S
  OBVIOUS
<1>4. i - 1 \in 0..(N - 1) /\ i - 1 \notin rest
  BY <1>2, <1>3
<1>5. i - 1 \in S
  BY <1>4
<1>6. (i - 1) + 1 \in S
  BY <1>4, <1>5
<1>. QED  BY <1>3, <1>6

\* A recursive function exists.
Follows(f, N, base, step) == f[0] = base /\ \A k \in 1..N : f[k] = step[<<k, f[k - 1]>>]

LEMMA Recursion ==
  ASSUME NEW N \in Nat, NEW X, NEW base \in X, NEW step \in [(1..N) \X X -> X]
  PROVE  \E f \in [0..N -> X] : Follows(f, N, base, step)
<1>. DEFINE Upto(n, f) == f[0] = base /\ \A k \in 1..n : f[k] = step[<<k, f[k - 1]>>]
            S == {n \in 0..N : \E f \in [0..n -> X] : Upto(n, f)}
<1>1. 0 \in S
  <2>. DEFINE g == [i \in 0..0 |-> base]
  <2>1. g \in [0..0 -> X]
    OBVIOUS
  <2>2. Upto(0, g)
    OBVIOUS
  <2>. HIDE DEF g, Upto
  <2>. QED  BY <2>1, <2>2
<1>2. ASSUME NEW n \in 0..(N - 1), n \in S
      PROVE  n + 1 \in S
  <2>1. PICK f \in [0..n -> X] : Upto(n, f)
    BY <1>2
  <2>. DEFINE next == step[<<n + 1, f[n]>>]
              g == [i \in 0..(n + 1) |-> IF i = n + 1 THEN next ELSE f[i]]
  <2>2. n + 1 \in 1..N /\ f[n] \in X
    OBVIOUS
  <2>3. next \in X
    BY <2>2
  <2>4. g \in [0..(n + 1) -> X]
    <3>1. ASSUME NEW i \in 0..(n + 1), i # n + 1  PROVE f[i] \in X
      <4>. i \in 0..n
        BY <3>1
      <4>. QED  OBVIOUS
    <3>. HIDE DEF next
    <3>. QED  BY <2>3, <3>1
  <2>5. g[0] = base
    BY <2>1
  <2>6. ASSUME NEW k \in 1..(n + 1)
        PROVE  g[k] = step[<<k, g[k - 1]>>]
    <3>1. CASE k = n + 1
      <4>. g[k] = next /\ g[k - 1] = f[n]
        BY <3>1
      <4>. QED  BY <3>1
    <3>2. CASE k # n + 1
      <4>1. k \in 1..n /\ k - 1 \in 0..n
        BY <3>2
      <4>2. g[k] = f[k] /\ g[k - 1] = f[k - 1]
        BY <4>1
      <4>. QED  BY <2>1, <4>1, <4>2
    <3>. QED  BY <3>1, <3>2
  <2>7. Upto(n + 1, g)
    BY <2>5, <2>6
  <2>8. n + 1 \in 0..N
    OBVIOUS
  <2>. HIDE DEF g, Upto
  <2>. QED  BY <2>4, <2>7, <2>8
<1>3. \A n \in 0..N : n \in S
  <2>. HIDE DEF S
  <2>. QED  BY <1>1, <1>2, Upward
<1>4. PICK f \in [0..N -> X] : Upto(N, f)
  BY <1>3
<1>. QED  BY <1>4 DEF Follows

\* The places of a search are all places.
LEMMA Remainder ==
  ASSUME NEW q \in Nat, NEW s \in Nat, s > 0, NEW r \in 0..(s - 1)
  PROVE  (s * q + r) % s = r
BY SMTT(30)

LEMMA PlaceIn ==
  ASSUME NEW h \in Nat, NEW s \in Nat, s > 0
  PROVE  /\ h % s \in 0..(s - 1)
         /\ \A p \in 0..(s - 1) : \E n \in 0..(s - 1) : (h + n) % s = p
<1>1. h % s \in 0..(s - 1) /\ h \div s \in Nat /\ h = s * (h \div s) + (h % s)
  OBVIOUS
<1>2. SUFFICES ASSUME NEW p \in 0..(s - 1)
               PROVE  \E n \in 0..(s - 1) : (h + n) % s = p
  BY <1>1
<1>. DEFINE q == h \div s
            r == h % s
<1>3. q \in Nat /\ r \in 0..(s - 1) /\ h = s * q + r
  BY <1>1
<1>. HIDE DEF q, r
<1>4. CASE r <= p
  <2>1. p - r \in 0..(s - 1) /\ h + (p - r) = s * q + p
    BY <1>3, <1>4
  <2>2. (s * q + p) % s = p
    BY <1>3, Remainder
  <2>. QED  BY <2>1, <2>2
<1>5. CASE ~(r <= p)
  <2>1. (p + s) - r \in 0..(s - 1)
    BY <1>3, <1>5
  <2>2. h + ((p + s) - r) = s * (q + 1) + p
    <3>1. s * (q + 1) = s * q + s
      BY <1>3
    <3>2. s * q \in Nat
      BY <1>3
    <3>. QED  BY <1>3, <3>1, <3>2
  <2>3. (s * (q + 1) + p) % s = p
    BY <1>3, Remainder
  <2>. QED  BY <2>1, <2>2, <2>3
<1>. QED  BY <1>4, <1>5

-----------------------------------------------------------------------------
(* MKHash: what a table is.                                                *)

Entry == [key : Tuple \union {NoKey}, value : Value \union {INVALID_OBJECT}]
Occupied(e) == {i \in DOMAIN e : e[i].key # NoKey}
Valued(e) == {i \in DOMAIN e : e[i].value # INVALID_OBJECT}

\* A search for a key comes to a place, past keys only.
Reached(e, key, i) ==
  \E n \in DOMAIN e : /\ TuplePlace(e, key, n) = i
                      /\ \A m \in 0..(n - 1) : e[TuplePlace(e, key, m)].key # NoKey

\* A free place has no value, a key is in one place, and a search comes to it.
Sound(e) ==
  /\ \A i \in DOMAIN e : e[i].key = NoKey => e[i].value = INVALID_OBJECT
  /\ \A i \in Occupied(e), j \in Occupied(e) : e[i].key = e[j].key => i = j
  /\ \A i \in Occupied(e) : Reached(e, e[i].key, i)

Holds(e, key, value) == \E i \in DOMAIN e : e[i].key = key /\ e[i].value = value
Matches(e, m) ==
  \A key \in Tuple, value \in Value : Holds(e, key, value) <=> m[key] = value

-----------------------------------------------------------------------------
(* MKHash: searches.                                                       *)

LEMMA TupleMaskIs ==
  ASSUME NEW mask \in Nat, NEW e, DOMAIN e = 0..mask
  PROVE  /\ TupleMask(e) = mask
         /\ IsFiniteSet(DOMAIN e) /\ Cardinality(DOMAIN e) = mask + 1
<1>1. IsFiniteSet(0..mask) /\ Cardinality(0..mask) = mask + 1
  BY FS_Interval
<1>. QED  BY <1>1 DEF TupleMask

LEMMA TuplePlaceIs ==
  ASSUME NEW mask \in Nat, NEW e, DOMAIN e = 0..mask, NEW key \in Tuple
  PROVE  /\ \A n \in 0..mask : TuplePlace(e, key, n) \in 0..mask
         /\ \A p \in 0..mask : \E n \in 0..mask : TuplePlace(e, key, n) = p
<1>1. TupleMask(e) = mask
  BY TupleMaskIs
<1>2. cum_hash[key] \in Nat
  BY MKAssumption
<1>3. \A n : TuplePlace(e, key, n) = (cum_hash[key] + n) % (mask + 1)
  BY <1>1 DEF TuplePlace
<1>4. mask + 1 \in Nat /\ mask + 1 > 0 /\ (mask + 1) - 1 = mask
  OBVIOUS
<1>5. \A p \in 0..mask : \E n \in 0..mask : (cum_hash[key] + n) % (mask + 1) = p
  <2>. DEFINE h == cum_hash[key]
              s == mask + 1
  <2>1. \A p \in 0..(s - 1) : \E n \in 0..(s - 1) : (h + n) % s = p
    <3>. h \in Nat /\ s \in Nat /\ s > 0
      BY <1>2, <1>4
    <3>. HIDE DEF h, s
    <3>. QED  BY PlaceIn
  <2>. QED  BY <1>4, <2>1
<1>6. ASSUME NEW n \in 0..mask
      PROVE  TuplePlace(e, key, n) \in 0..mask
  <2>1. cum_hash[key] + n \in Nat
    BY <1>2
  <2>. DEFINE h == cum_hash[key] + n
              s == mask + 1
  <2>2. h % s \in 0..(s - 1)
    <3>. h \in Nat /\ s \in Nat /\ s > 0
      BY <1>4, <2>1
    <3>. HIDE DEF h, s
    <3>. QED  BY PlaceIn
  <2>. QED  BY <1>3, <1>4, <2>2
<1>. QED  BY <1>3, <1>5, <1>6

\* What the first place is that has one of some keys.
LEMMA FirstWithIs ==
  ASSUME NEW mask \in Nat, NEW e, DOMAIN e = 0..mask, NEW key \in Tuple, NEW keys
  PROVE  \/ /\ FirstWith(e, key, keys) = -1
            /\ \A j \in 0..mask : e[j].key \notin keys
         \/ \E n \in 0..mask :
              /\ FirstWith(e, key, keys) = TuplePlace(e, key, n)
              /\ e[TuplePlace(e, key, n)].key \in keys
              /\ \A m \in 0..(n - 1) : e[TuplePlace(e, key, m)].key \notin keys
<1>. DEFINE found == {n \in DOMAIN e : e[TuplePlace(e, key, n)].key \in keys}
<1>1. CASE found = {}
  <2>1. FirstWith(e, key, keys) = -1
    BY <1>1 DEF FirstWith
  <2>2. ASSUME NEW j \in 0..mask
        PROVE  e[j].key \notin keys
    <3>1. PICK n \in 0..mask : TuplePlace(e, key, n) = j
      BY TuplePlaceIs
    <3>. QED  BY <1>1, <3>1
  <2>. QED  BY <2>1, <2>2
<1>2. CASE found # {}
  <2>1. FirstWith(e, key, keys) = TuplePlace(e, key, Min(found))
    BY <1>2 DEF FirstWith
  <2>2. found \in SUBSET Nat
    OBVIOUS
  <2>3. Min(found) \in found /\ \A j \in found : Min(found) <= j
    <3>. HIDE DEF found
    <3>. QED  BY <1>2, <2>2, MinOf
  <2>4. PICK n \in found : n = Min(found)
    BY <2>3
  <2>5. ASSUME NEW m \in 0..(n - 1)
        PROVE  e[TuplePlace(e, key, m)].key \notin keys
    <3>1. m \in 0..mask /\ ~(n <= m)
      OBVIOUS
    <3>2. m \notin found
      BY <2>3, <2>4, <3>1
    <3>. QED  BY <3>1, <3>2
  <2>6. n \in 0..mask /\ e[TuplePlace(e, key, n)].key \in keys
    OBVIOUS
  <2>. QED  BY <2>1, <2>4, <2>5, <2>6
<1>. QED  BY <1>1, <1>2

\* find_entry comes to the entry of a key, or to a free place if there is none,
\* or goes round.
LEMMA FindEntryIs ==
  ASSUME NEW mask \in Nat, NEW e \in [0..mask -> Entry], Sound(e), NEW key \in Tuple
  PROVE  \/ /\ FindEntry(e, key) \in 0..mask
            /\ e[FindEntry(e, key)].key = key
         \/ /\ FindEntry(e, key) \in 0..mask
            /\ e[FindEntry(e, key)].key = NoKey /\ Reached(e, key, FindEntry(e, key))
            /\ \A j \in 0..mask : e[j].key # key
         \/ /\ FindEntry(e, key) = -1
            /\ \A j \in 0..mask : e[j].key # key /\ e[j].key # NoKey
<1>. DEFINE i == FindEntry(e, key)
<1>1. i = FirstWith(e, key, {key, NoKey}) /\ DOMAIN e = 0..mask
  BY DEF FindEntry
<1>. HIDE DEF i
<1>2. CASE i = -1 /\ \A j \in 0..mask : e[j].key \notin {key, NoKey}
  BY <1>2 DEF i
<1>3. ASSUME NEW n \in 0..mask, i = TuplePlace(e, key, n),
             e[TuplePlace(e, key, n)].key \in {key, NoKey},
             \A m \in 0..(n - 1) : e[TuplePlace(e, key, m)].key \notin {key, NoKey}
      PROVE  /\ i \in 0..mask
             /\ \/ e[i].key = key
                \/ /\ e[i].key = NoKey /\ Reached(e, key, i)
                   /\ \A j \in 0..mask : e[j].key # key
  <2>1. i \in 0..mask
    BY <1>1, <1>3, TuplePlaceIs
  <2>2. CASE e[i].key = NoKey
    <3>1. Reached(e, key, i)
      BY <1>1, <1>3 DEF Reached
    <3>2. ASSUME NEW j \in 0..mask, e[j].key = key
          PROVE  FALSE
      <4>1. j \in Occupied(e)
        BY <1>1, <3>2, MKAssumption DEF Occupied
      <4>2. Reached(e, key, j)
        BY <3>2, <4>1 DEF Sound
      <4>3. PICK k \in 0..mask : /\ TuplePlace(e, key, k) = j
                                 /\ \A m \in 0..(k - 1) : e[TuplePlace(e, key, m)].key # NoKey
        BY <1>1, <4>2 DEF Reached
      <4>4. CASE n <= k
        <5>1. n # k
          BY <1>3, <2>2, <3>2, <4>3, MKAssumption
        <5>2. n \in 0..(k - 1)
          BY <4>4, <5>1
        <5>. QED  BY <1>3, <2>2, <4>3, <5>2
      <4>5. CASE k < n
        <5>1. k \in 0..(n - 1)
          BY <4>5
        <5>. QED  BY <1>3, <3>2, <4>3, <5>1
      <4>. QED  BY <4>4, <4>5
    <3>. QED  BY <2>1, <2>2, <3>1, <3>2
  <2>. QED  BY <1>3, <2>1, <2>2
<1>4. \/ i = -1 /\ \A j \in 0..mask : e[j].key \notin {key, NoKey}
      \/ \E n \in 0..mask :
           /\ i = TuplePlace(e, key, n) /\ e[TuplePlace(e, key, n)].key \in {key, NoKey}
           /\ \A m \in 0..(n - 1) : e[TuplePlace(e, key, m)].key \notin {key, NoKey}
  BY <1>1, FirstWithIs
<1>. QED  BY <1>2, <1>3, <1>4 DEF i

-----------------------------------------------------------------------------
(* MKHash: a store.                                                        *)

\* To store in the place of a key, or in the free place a search for it came to.
PlaceFor(e, mask, key, i) ==
  /\ i \in 0..mask
  /\ \/ e[i].key = key
     \/ /\ e[i].key = NoKey /\ Reached(e, key, i)
        /\ \A j \in 0..mask : e[j].key # key
Stored(d, e, mask, key, value, i) ==
  /\ d \in [0..mask -> Entry] /\ Sound(d)
  /\ Occupied(d) = Occupied(e) \union {i}
  /\ Valued(d) = IF value = INVALID_OBJECT THEN Valued(e) \ {i} ELSE Valued(e) \union {i}
  /\ \A k \in Tuple, v \in Value :
       Holds(d, k, v) <=> IF k = key THEN v = value ELSE Holds(e, k, v)

LEMMA StoreIs ==
  ASSUME NEW mask \in Nat, NEW e \in [0..mask -> Entry], Sound(e), NEW key \in Tuple,
         NEW value \in Value \union {INVALID_OBJECT}, NEW i, PlaceFor(e, mask, key, i),
         NEW d, d = [e EXCEPT ![i] = [key |-> key, value |-> value]]
  PROVE  Stored(d, e, mask, key, value, i)
<1>0. /\ i \in 0..mask
      /\ \/ e[i].key = key
         \/ /\ e[i].key = NoKey /\ Reached(e, key, i)
            /\ \A j \in 0..mask : e[j].key # key
  BY DEF PlaceFor
<1>1. [key |-> key, value |-> value] \in Entry
  BY DEF Entry
<1>2. d \in [0..mask -> Entry] /\ DOMAIN d = 0..mask /\ DOMAIN e = 0..mask
  BY <1>0, <1>1
<1>3. /\ d[i].key = key /\ d[i].value = value
      /\ \A j \in 0..mask : j # i => d[j] = e[j]
  BY <1>0, <1>1
<1>4. key # NoKey
  BY MKAssumption
<1>5. \A j \in 0..mask : e[j].key # NoKey => d[j].key = e[j].key
  BY <1>0, <1>3, <1>4
<1>6. \A k, n : TuplePlace(d, k, n) = TuplePlace(e, k, n)
  BY <1>2 DEF TuplePlace, TupleMask
<1>7. ASSUME NEW k \in Tuple, NEW j \in 0..mask, Reached(e, k, j)
      PROVE  Reached(d, k, j)
  <2>1. PICK n \in 0..mask : /\ TuplePlace(e, k, n) = j
                             /\ \A m \in 0..(n - 1) : e[TuplePlace(e, k, m)].key # NoKey
    BY <1>2, <1>7 DEF Reached
  <2>2. ASSUME NEW m \in 0..(n - 1)
        PROVE  d[TuplePlace(d, k, m)].key # NoKey
    <3>1. m \in 0..mask
      OBVIOUS
    <3>2. TuplePlace(e, k, m) \in 0..mask
      BY <1>2, <3>1, TuplePlaceIs
    <3>3. e[TuplePlace(e, k, m)].key # NoKey
      BY <2>1
    <3>. QED  BY <1>5, <1>6, <3>2, <3>3
  <2>. QED  BY <1>2, <1>6, <2>1, <2>2 DEF Reached
<1>8. Sound(d)
  <2>1. \A j \in DOMAIN d : d[j].key = NoKey => d[j].value = INVALID_OBJECT
    BY <1>0, <1>2, <1>3, <1>4 DEF Sound
  <2>2. ASSUME NEW a \in Occupied(d), NEW b \in Occupied(d), d[a].key = d[b].key
        PROVE  a = b
    <3>1. a \in 0..mask /\ b \in 0..mask /\ d[a].key # NoKey /\ d[b].key # NoKey
      BY <1>2 DEF Occupied
    <3>2. CASE a # i /\ b # i
      BY <1>2, <1>3, <2>2, <3>1, <3>2 DEF Occupied, Sound
    <3>3. ASSUME NEW c \in 0..mask, c # i, d[c].key = key
          PROVE  FALSE
      <4>1. e[c].key = key
        BY <1>3, <3>3
      <4>2. e[i].key = key
        BY <1>0, <4>1
      <4>3. c \in Occupied(e) /\ i \in Occupied(e)
        BY <1>0, <1>2, <1>4, <4>1, <4>2 DEF Occupied
      <4>. QED  BY <3>3, <4>1, <4>2, <4>3 DEF Sound
    <3>. QED  BY <1>3, <2>2, <3>1, <3>2, <3>3
  <2>3. ASSUME NEW a \in Occupied(d)
        PROVE  Reached(d, d[a].key, a)
    <3>1. a \in 0..mask /\ d[a].key # NoKey
      BY <1>2 DEF Occupied
    <3>2. d[a].key \in Tuple
      BY <1>2, <3>1 DEF Entry
    <3>3. CASE a # i
      <4>1. e[a].key = d[a].key /\ a \in Occupied(e)
        BY <1>2, <1>3, <3>1, <3>3 DEF Occupied
      <4>2. Reached(e, d[a].key, a)
        BY <4>1 DEF Sound
      <4>. QED  BY <1>7, <3>1, <3>2, <4>2
    <3>4. CASE a = i
      <4>1. CASE e[i].key = key
        <5>1. i \in Occupied(e)
          BY <1>0, <1>2, <1>4, <4>1 DEF Occupied
        <5>2. Reached(e, key, i)
          BY <4>1, <5>1 DEF Sound
        <5>. QED  BY <1>3, <1>7, <3>4, <5>2
      <4>2. CASE e[i].key # key
        <5>1. Reached(e, key, i)
          BY <1>0, <4>2
        <5>. QED  BY <1>3, <1>7, <3>4, <5>1
      <4>. QED  BY <4>1, <4>2
    <3>. QED  BY <3>3, <3>4
  <2>. QED  BY <2>1, <2>2, <2>3 DEF Sound
<1>9. Occupied(d) = Occupied(e) \union {i}
  BY <1>0, <1>2, <1>3, <1>4 DEF Occupied
<1>10. Valued(d) = IF value = INVALID_OBJECT THEN Valued(e) \ {i} ELSE Valued(e) \union {i}
  BY <1>0, <1>2, <1>3 DEF Valued
<1>11. ASSUME NEW k \in Tuple, NEW v \in Value
       PROVE  Holds(d, k, v) <=> IF k = key THEN v = value ELSE Holds(e, k, v)
  <2>1. CASE k # key
    <3>1. e[i].key # k
      BY <1>0, <2>1, MKAssumption
    <3>. QED  BY <1>2, <1>3, <1>0, <2>1, <3>1 DEF Holds
  <2>2. CASE k = key
    <3>1. \A j \in 0..mask : d[j].key = key => j = i
      <4>1. i \in Occupied(d)
        BY <1>9
      <4>2. \A j \in 0..mask : d[j].key = key => j \in Occupied(d)
        BY <1>2, <1>4 DEF Occupied
      <4>. QED  BY <1>3, <1>0, <1>8, <4>1, <4>2 DEF Sound
    <3>. QED  BY <1>2, <1>3, <1>0, <2>2, <3>1 DEF Holds
  <2>. QED  BY <2>1, <2>2
<1>. QED  BY <1>2, <1>8, <1>9, <1>10, <1>11 DEF Stored

-----------------------------------------------------------------------------
(* MKHash: resizing.                                                       *)

\* An entry is put into a table that does not have its key and is not full.
LEMMA PutTupleIs ==
  ASSUME NEW mask \in Nat, NEW e \in [0..mask -> Entry], Sound(e), NEW x \in Entry,
         x.key # NoKey, x.value # INVALID_OBJECT, \A j \in 0..mask : e[j].key # x.key,
         \E j \in 0..mask : e[j].key = NoKey,
         NEW d, d = PutTuple(e, x)
  PROVE  /\ d \in [0..mask -> Entry] /\ Sound(d)
         /\ \E i \in 0..mask \ Occupied(e) : Occupied(d) = Occupied(e) \union {i}
                                          /\ Valued(d) = Valued(e) \union {i}
         /\ \A k \in Tuple, v \in Value :
              Holds(d, k, v) <=> IF k = x.key THEN v = x.value ELSE Holds(e, k, v)
<1>. DEFINE i == FirstWith(e, x.key, {NoKey})
<1>1. x.key \in Tuple /\ x.value \in Value /\ x = [key |-> x.key, value |-> x.value]
  BY DEF Entry
<1>2. DOMAIN e = 0..mask
  OBVIOUS
<1>3. PICK n \in 0..mask :
        /\ i = TuplePlace(e, x.key, n) /\ e[TuplePlace(e, x.key, n)].key \in {NoKey}
        /\ \A m \in 0..(n - 1) : e[TuplePlace(e, x.key, m)].key \notin {NoKey}
  <2>1. \/ i = -1 /\ \A j \in 0..mask : e[j].key \notin {NoKey}
        \/ \E n \in 0..mask :
             /\ i = TuplePlace(e, x.key, n) /\ e[TuplePlace(e, x.key, n)].key \in {NoKey}
             /\ \A m \in 0..(n - 1) : e[TuplePlace(e, x.key, m)].key \notin {NoKey}
    BY <1>1, <1>2, FirstWithIs
  <2>. QED  BY <2>1
<1>. HIDE DEF i
<1>4. i \in 0..mask
  BY <1>1, <1>2, <1>3, TuplePlaceIs
<1>5. e[i].key = NoKey /\ Reached(e, x.key, i)
  BY <1>2, <1>3 DEF Reached
<1>6. d = [e EXCEPT ![i] = [key |-> x.key, value |-> x.value]]
  BY <1>1 DEF PutTuple, i
<1>7. i \in 0..mask \ Occupied(e)
  BY <1>4, <1>5 DEF Occupied
<1>8. PlaceFor(e, mask, x.key, i)
  BY <1>4, <1>5 DEF PlaceFor
<1>9. Stored(d, e, mask, x.key, x.value, i)
  BY <1>1, <1>6, <1>8, StoreIs
<1>. QED  BY <1>1, <1>7, <1>9 DEF Stored

\* What the new table is when the entries before n have been moved.
Moved(r, mask, e, n) ==
  /\ r \in [0..mask -> Entry] /\ Sound(r) /\ Occupied(r) \subseteq Valued(r)
  /\ Cardinality(Valued(r)) = Cardinality(Valued(e) \intersect 0..(n - 1))
  /\ \A k \in Tuple, v \in Value :
       Holds(r, k, v) <=> \E j \in 0..(n - 1) : e[j].key = k /\ e[j].value = v

LEMMA ValuedFinite ==
  ASSUME NEW mask \in Nat, NEW e, DOMAIN e = 0..mask
  PROVE  IsFiniteSet(Valued(e)) /\ Cardinality(Valued(e)) \in 0..(mask + 1)
<1>1. IsFiniteSet(0..mask) /\ Cardinality(0..mask) = mask + 1
  BY FS_Interval
<1>2. Valued(e) \in SUBSET (0..mask)
  BY DEF Valued
<1>3. IsFiniteSet(Valued(e)) /\ Cardinality(Valued(e)) <= mask + 1
  BY <1>1, <1>2, FS_Subset
<1>4. Cardinality(Valued(e)) \in Nat
  BY <1>3, FS_CardinalityType
<1>. QED  BY <1>3, <1>4

\* There is a free place where there are fewer values than places.
LEMMA NotFull ==
  ASSUME NEW mask \in Nat, NEW e \in [0..mask -> Entry], Occupied(e) \subseteq Valued(e),
         Cardinality(Valued(e)) < mask + 1
  PROVE  \E i \in 0..mask : e[i].key = NoKey
<1>1. SUFFICES ASSUME \A i \in 0..mask : e[i].key # NoKey
               PROVE  FALSE
  OBVIOUS
<1>2. Valued(e) = 0..mask
  BY <1>1 DEF Valued, Occupied
<1>3. Cardinality(0..mask) = mask + 1
  BY FS_Interval
<1>. QED  BY <1>2, <1>3

LEMMA MoveIs ==
  ASSUME NEW mask \in Nat, NEW e \in [0..mask -> Entry], Sound(e),
         NEW new \in Nat, Cardinality(Valued(e)) <= new + 1,
         NEW n \in 0..mask, NEW r, Moved(r, new, e, n),
         NEW d, d = IF e[n].value = INVALID_OBJECT THEN r ELSE PutTuple(r, e[n])
  PROVE  Moved(d, new, e, n + 1)
<1>. DEFINE before == Valued(e) \intersect 0..(n - 1)
            upto == Valued(e) \intersect 0..n
<1>0. (n + 1) - 1 = n /\ \A j \in 0..n : j \in 0..(n - 1) \/ j = n
  OBVIOUS
<1>1. DOMAIN e = 0..mask /\ 0..(n - 1) \subseteq 0..n /\ 0..n \subseteq 0..mask /\ n \notin 0..(n - 1)
  OBVIOUS
<1>2. CASE e[n].value = INVALID_OBJECT
  <2>1. n \notin Valued(e)
    BY <1>2 DEF Valued
  <2>2. upto = before
    BY <1>0, <1>1, <2>1
  <2>3. ASSUME NEW k \in Tuple, NEW v \in Value
        PROVE  Holds(r, k, v) <=> \E j \in 0..n : e[j].key = k /\ e[j].value = v
    <3>1. e[n].value # v
      BY <1>2, MKAssumption
    <3>2. Holds(r, k, v) <=> \E j \in 0..(n - 1) : e[j].key = k /\ e[j].value = v
      BY DEF Moved
    <3>. QED  BY <1>0, <1>1, <3>1, <3>2
  <2>4. d = r
    BY <1>2
  <2>5. /\ r \in [0..new -> Entry] /\ Sound(r) /\ Occupied(r) \subseteq Valued(r)
        /\ Cardinality(Valued(r)) = Cardinality(upto)
    BY <2>2 DEF Moved
  <2>. HIDE DEF before, upto
  <2>. QED  BY <1>0, <2>3, <2>4, <2>5 DEF Moved, upto
<1>3. CASE e[n].value # INVALID_OBJECT
  <2>1. n \in Valued(e) /\ e[n] \in Entry
    BY <1>1, <1>3 DEF Valued
  <2>2. e[n].key # NoKey /\ e[n].key \in Tuple /\ n \in Occupied(e)
    BY <1>1, <1>3, <2>1 DEF Sound, Entry, Occupied
  <2>3. /\ r \in [0..new -> Entry] /\ Sound(r) /\ Occupied(r) \subseteq Valued(r)
        /\ Cardinality(Valued(r)) = Cardinality(before)
    BY DEF Moved
  <2>4. ASSUME NEW i \in 0..new, r[i].key = e[n].key
        PROVE  FALSE
    <3>1. i \in Occupied(r) /\ DOMAIN r = 0..new
      BY <2>2, <2>3, <2>4 DEF Occupied
    <3>2. r[i].value \in Value
      <4>1. r[i] \in Entry /\ r[i].value # INVALID_OBJECT
        BY <2>3, <3>1 DEF Valued
      <4>. QED  BY <4>1 DEF Entry
    <3>3. Holds(r, e[n].key, r[i].value)
      BY <2>4, <3>1 DEF Holds
    <3>4. PICK j \in 0..(n - 1) : e[j].key = e[n].key
      BY <2>2, <3>2, <3>3 DEF Moved
    <3>5. j \in Occupied(e)
      BY <1>1, <2>2, <3>4 DEF Occupied
    <3>. QED  BY <1>1, <2>2, <3>4, <3>5 DEF Sound
  <2>5. /\ IsFiniteSet(Valued(e)) /\ IsFiniteSet(before) /\ Cardinality(before) \in Nat
        /\ upto = before \union {n} /\ n \notin before
        /\ Cardinality(upto) = Cardinality(before) + 1
        /\ Cardinality(upto) <= Cardinality(Valued(e)) /\ Cardinality(Valued(e)) \in Nat
    <3>1. IsFiniteSet(Valued(e)) /\ Cardinality(Valued(e)) \in Nat
      BY <1>1, ValuedFinite
    <3>2. before \in SUBSET Valued(e) /\ upto \in SUBSET Valued(e)
      OBVIOUS
    <3>3. upto = before \union {n} /\ n \notin before
      BY <1>0, <1>1, <2>1
    <3>. HIDE DEF before, upto
    <3>4. IsFiniteSet(before) /\ Cardinality(upto) <= Cardinality(Valued(e))
      BY <3>1, <3>2, FS_Subset
    <3>5. Cardinality(before) \in Nat
      BY <3>4, FS_CardinalityType
    <3>6. Cardinality(before \union {n}) = Cardinality(before) + 1
      BY <3>3, <3>4, FS_AddElement
    <3>. QED  BY <3>1, <3>3, <3>4, <3>5, <3>6
  <2>6. \E i \in 0..new : r[i].key = NoKey
    <3>1. Cardinality(Valued(r)) < new + 1
      BY <2>3, <2>5
    <3>. QED  BY <2>3, <3>1, NotFull
  <2>7. d = PutTuple(r, e[n])
    BY <1>3
  <2>8. /\ d \in [0..new -> Entry] /\ Sound(d)
        /\ \E i \in 0..new \ Occupied(r) : Occupied(d) = Occupied(r) \union {i}
                                        /\ Valued(d) = Valued(r) \union {i}
        /\ \A k \in Tuple, v \in Value :
             Holds(d, k, v) <=> IF k = e[n].key THEN v = e[n].value ELSE Holds(r, k, v)
    BY <1>3, <2>1, <2>2, <2>3, <2>4, <2>6, <2>7, PutTupleIs
  <2>9. PICK i \in 0..new \ Occupied(r) : /\ Occupied(d) = Occupied(r) \union {i}
                                          /\ Valued(d) = Valued(r) \union {i}
    BY <2>8
  <2>10. Occupied(d) \subseteq Valued(d)
    BY <2>3, <2>9
  <2>11. Cardinality(Valued(d)) = Cardinality(upto)
    <3>1. i \notin Valued(r)
      BY <2>3, <2>9 DEF Occupied, Valued, Sound
    <3>2. IsFiniteSet(Valued(r))
      BY <2>3, ValuedFinite
    <3>3. Cardinality(Valued(r) \union {i}) = Cardinality(Valued(r)) + 1
      BY <3>1, <3>2, FS_AddElement
    <3>. QED  BY <2>3, <2>5, <2>9, <3>3
  <2>12. ASSUME NEW k \in Tuple, NEW v \in Value
         PROVE  Holds(d, k, v) <=> \E j \in 0..n : e[j].key = k /\ e[j].value = v
    <3>1. Holds(r, k, v) <=> \E j \in 0..(n - 1) : e[j].key = k /\ e[j].value = v
      BY DEF Moved
    <3>2. CASE k # e[n].key
      BY <1>0, <1>1, <2>8, <3>1, <3>2
    <3>3. CASE k = e[n].key
      <4>1. \A j \in 0..(n - 1) : e[j].key # k
        <5>1. ASSUME NEW j \in 0..(n - 1), e[j].key = k  PROVE FALSE
          <6>1. j \in Occupied(e)
            BY <1>1, <2>2, <3>3, <5>1 DEF Occupied
          <6>. QED  BY <1>1, <2>2, <3>3, <5>1, <6>1 DEF Sound
        <5>. QED  BY <5>1
      <4>. QED  BY <1>0, <1>1, <2>8, <3>3, <4>1
    <3>. QED  BY <3>2, <3>3
  <2>. HIDE DEF before, upto
  <2>. QED  BY <1>0, <2>8, <2>10, <2>11, <2>12 DEF Moved, upto
<1>. QED  BY <1>2, <1>3

\* resize_hash keeps what has a value, if there is room for it, and nothing else.
LEMMA ResizeIs ==
  ASSUME NEW mask \in Nat, NEW e \in [0..mask -> Entry], Sound(e),
         NEW new \in Nat, Cardinality(Valued(e)) <= new + 1,
         NEW d, d = ResizeHash(e, new)
  PROVE  /\ d \in [0..new -> Entry] /\ Sound(d) /\ Occupied(d) \subseteq Valued(d)
         /\ Cardinality(Valued(d)) = Cardinality(Valued(e))
         /\ \A k \in Tuple, v \in Value : Holds(d, k, v) <=> Holds(e, k, v)
<1>. DEFINE X == [0..new -> Entry]
            N == mask + 1
            base == FreeTuples(new)
            After(n, r) == IF e[n - 1].value = INVALID_OBJECT THEN r ELSE PutTuple(r, e[n - 1])
            step == [p \in (1..N) \X X |-> After(p[1], p[2])]
            IsRun(f) == f = [n \in 0..N |-> IF n = 0 THEN base ELSE After(n, f[n - 1])]
            run == CHOOSE f : IsRun(f)
<1>1. d = run[N]
  <2>1. TupleMask(e) = mask
    BY TupleMaskIs
  <2>2. ResizeHash(e, new) =
          (CHOOSE f : f = [n \in 0..(TupleMask(e) + 1) |->
             IF n = 0 THEN FreeTuples(new)
             ELSE IF e[n - 1].value = INVALID_OBJECT THEN f[n - 1]
             ELSE PutTuple(f[n - 1], e[n - 1])])[TupleMask(e) + 1]
    BY DEF ResizeHash
  <2>. QED  BY <2>1, <2>2
<1>2. base \in X
  BY DEF FreeTuples, FreeEntry, Entry
<1>3. step \in [(1..N) \X X -> X]
  <2>1. ASSUME NEW n \in 1..N, NEW r \in X
        PROVE  After(n, r) \in X
    <3>1. n - 1 \in 0..mask
      OBVIOUS
    <3>2. e[n - 1] \in Entry
      BY <3>1
    <3>. QED  BY <3>2 DEF PutTuple
  <2>. HIDE DEF After, X
  <2>. QED  BY <2>1
<1>4. \E f : IsRun(f)
  <2>1. N \in Nat
    OBVIOUS
  <2>. HIDE DEF base, step, X, N
  <2>2. PICK f \in [0..N -> X] : Follows(f, N, base, step)
    BY <1>2, <1>3, <2>1, Recursion
  <2>3. ASSUME NEW n \in 1..N
        PROVE  f[n] = After(n, f[n - 1])
    <3>1. n - 1 \in 0..N
      BY <2>1
    <3>2. f[n - 1] \in X
      BY <3>1
    <3>. HIDE DEF After
    <3>. QED  BY <2>2, <3>2 DEF step, Follows
  <2>4. \A n \in 0..N : f[n] = IF n = 0 THEN base ELSE After(n, f[n - 1])
    <3>. HIDE DEF After
    <3>1. \A n \in 0..N : n # 0 => n \in 1..N
      BY <2>1
    <3>. QED  BY <2>2, <2>3, <3>1 DEF Follows
  <2>5. f = [n \in 0..N |-> IF n = 0 THEN base ELSE After(n, f[n - 1])]
    <3>. HIDE DEF After
    <3>. QED  BY <2>4
  <2>. QED  BY <2>5
<1>5. IsRun(run)
  <2>. HIDE DEF IsRun
  <2>. QED  BY <1>4
<1>6. run[0] = base /\ \A n \in 1..N : run[n] = After(n, run[n - 1])
  <2>. HIDE DEF run, After, base
  <2>1. 0 \in 0..N /\ \A n \in 1..N : n \in 0..N /\ n # 0
    OBVIOUS
  <2>. QED  BY <1>5, <2>1
<1>. DEFINE S == {n \in 0..N : Moved(run[n], new, e, n)}
<1>7. 0 \in S
  <2>1. base = FreeTuples(new) /\ DOMAIN base = 0..new
        /\ \A i \in 0..new : base[i].key = NoKey /\ base[i].value = INVALID_OBJECT
    BY DEF FreeTuples, FreeEntry
  <2>. HIDE DEF base
  <2>2. Occupied(base) = {} /\ Valued(base) = {} /\ Sound(base)
    BY <2>1 DEF Occupied, Valued, Sound
  <2>3. 0..(0 - 1) = {}
    OBVIOUS
  <2>4. Cardinality(Valued(base)) = Cardinality(Valued(e) \intersect 0..(0 - 1))
    BY <2>2, <2>3
  <2>5. \A k \in Tuple, v \in Value : ~Holds(base, k, v)
    BY <2>1, MKAssumption DEF Holds
  <2>6. Moved(base, new, e, 0)
    BY <1>2, <2>2, <2>3, <2>4, <2>5 DEF Moved
  <2>. QED  BY <1>6, <2>6
<1>8. ASSUME NEW n \in 0..(N - 1), n \in S
      PROVE  n + 1 \in S
  <2>1. n \in 0..mask /\ n + 1 \in 1..N /\ (n + 1) - 1 = n
    OBVIOUS
  <2>2. run[n + 1] = IF e[n].value = INVALID_OBJECT THEN run[n] ELSE PutTuple(run[n], e[n])
    <3>1. run[n + 1] = After(n + 1, run[n])
      <4>. HIDE DEF run, After, N
      <4>. QED  BY <1>6, <2>1
    <3>. HIDE DEF run
    <3>. QED  BY <2>1, <3>1
  <2>. HIDE DEF run
  <2>3. Moved(run[n], new, e, n)
    BY <1>8
  <2>4. Moved(run[n + 1], new, e, n + 1)
    BY <2>1, <2>2, <2>3, MoveIs
  <2>. QED  BY <2>1, <2>4
<1>9. N \in S
  <2>1. N \in Nat /\ N \in 0..N
    OBVIOUS
  <2>. HIDE DEF S, N
  <2>. QED  BY <1>7, <1>8, <2>1, Upward
<1>10. Moved(d, new, e, N) /\ N - 1 = mask
  BY <1>1, <1>9
<1>11. Valued(e) \intersect 0..mask = Valued(e)
  BY DEF Valued
<1>12. Moved(d, new, e, mask + 1) /\ (mask + 1) - 1 = mask
  BY <1>10
<1>13. /\ d \in [0..new -> Entry] /\ Sound(d) /\ Occupied(d) \subseteq Valued(d)
       /\ Cardinality(Valued(d)) = Cardinality(Valued(e))
  BY ONLY <1>11, <1>12 DEF Moved
<1>14. ASSUME NEW k \in Tuple, NEW v \in Value
       PROVE  Holds(d, k, v) <=> Holds(e, k, v)
  <2>1. Holds(d, k, v) <=> \E j \in 0..mask : e[j].key = k /\ e[j].value = v
    BY ONLY <1>12, k \in Tuple, v \in Value DEF Moved
  <2>. QED  BY ONLY <2>1, e \in [0..mask -> Entry] DEF Holds
<1>. QED  BY <1>13, <1>14

\* A table is made as large or as small as the number of its values asks for.
LEMMA ResizedIs ==
  ASSUME NEW mask \in Nat, NEW e \in [0..mask -> Entry], Sound(e),
         NEW d, d = Resized(e, Cardinality(Valued(e)))
  PROVE  \E new \in Nat :
           /\ d \in [0..new -> Entry] /\ Sound(d)
           /\ Cardinality(Valued(d)) = Cardinality(Valued(e))
           /\ Occupied(e) \subseteq Valued(e) => Occupied(d) \subseteq Valued(d)
           /\ 3 * Cardinality(Valued(e)) <= 2 * mask + 5 =>
                3 * Cardinality(Valued(d)) <= 2 * new + 2
           /\ \A k \in Tuple, v \in Value : Holds(d, k, v) <=> Holds(e, k, v)
<1>. DEFINE n == Cardinality(Valued(e))
<1>1. n \in Nat /\ n <= mask + 1 /\ TupleMask(e) = mask
  <2>1. DOMAIN e = 0..mask
    OBVIOUS
  <2>. QED  BY <2>1, ValuedFinite, TupleMaskIs
<1>2. d = IF 3 * n > 2 * mask THEN ResizeHash(e, 2 * mask + 1)
          ELSE IF 3 * n < mask /\ mask # INITIAL_MASK THEN ResizeHash(e, (mask - 1) \div 2)
          ELSE e
  BY <1>1 DEF Resized
<1>. HIDE DEF n
<1>3. ASSUME NEW new \in Nat, n <= new + 1, d = ResizeHash(e, new),
             3 * n <= 2 * mask + 5 => 3 * n <= 2 * new + 2
      PROVE  \E m \in Nat :
               /\ d \in [0..m -> Entry] /\ Sound(d) /\ Cardinality(Valued(d)) = n
               /\ Occupied(e) \subseteq Valued(e) => Occupied(d) \subseteq Valued(d)
               /\ 3 * n <= 2 * mask + 5 => 3 * Cardinality(Valued(d)) <= 2 * m + 2
               /\ \A k \in Tuple, v \in Value : Holds(d, k, v) <=> Holds(e, k, v)
  <2>1. Cardinality(Valued(e)) <= new + 1
    BY <1>3 DEF n
  <2>2. /\ d \in [0..new -> Entry] /\ Sound(d) /\ Occupied(d) \subseteq Valued(d)
        /\ Cardinality(Valued(d)) = Cardinality(Valued(e))
        /\ \A k \in Tuple, v \in Value : Holds(d, k, v) <=> Holds(e, k, v)
    BY <1>3, <2>1, ResizeIs
  <2>3. Cardinality(Valued(d)) = n
    BY <2>2 DEF n
  <2>. QED  BY <1>3, <2>2, <2>3
<1>4. CASE 3 * n > 2 * mask
  <2>. DEFINE new == 2 * mask + 1
  <2>1. new \in Nat /\ n <= new + 1 /\ (3 * n <= 2 * mask + 5 => 3 * n <= 2 * new + 2)
    BY <1>1
  <2>2. d = ResizeHash(e, new)
    BY <1>2, <1>4
  <2>. HIDE DEF new
  <2>. QED  BY <1>3, <2>1, <2>2 DEF n
<1>5. CASE ~(3 * n > 2 * mask) /\ 3 * n < mask /\ mask # INITIAL_MASK
  <2>. DEFINE new == (mask - 1) \div 2
  <2>1. new \in Nat /\ n <= new + 1 /\ 3 * n <= 2 * new + 2
    BY <1>1, <1>5
  <2>2. d = ResizeHash(e, new)
    BY <1>2, <1>5
  <2>. HIDE DEF new
  <2>. QED  BY <1>3, <2>1, <2>2 DEF n
<1>6. CASE ~(3 * n > 2 * mask) /\ ~(3 * n < mask /\ mask # INITIAL_MASK)
  <2>1. d = e
    BY <1>2, <1>6
  <2>2. 3 * Cardinality(Valued(d)) <= 2 * mask + 2
    BY <1>1, <1>6, <2>1 DEF n
  <2>. QED  BY <2>1, <2>2
<1>. QED  BY <1>4, <1>5, <1>6

-----------------------------------------------------------------------------
(* MKHash: the invariant.                                                  *)

TableFits(mask) ==
  /\ entries \in [0..mask -> Entry] /\ Sound(entries) /\ Matches(entries, content)
  /\ count = Cardinality(Valued(entries))
  /\ ~unsets => Occupied(entries) \subseteq Valued(entries) /\ 3 * count <= 2 * mask + 2

MapInv ==
  /\ content \in [Tuple -> Value \union {INVALID_OBJECT}]
  /\ aborted \in BOOLEAN /\ unsets \in BOOLEAN /\ (aborted => unsets)
  /\ ~aborted => \E mask \in Nat : TableFits(mask)

LEMMA FreeFits ==
  ASSUME NEW mask \in Nat
  PROVE  /\ FreeTuples(mask) \in [0..mask -> Entry] /\ Sound(FreeTuples(mask))
         /\ Occupied(FreeTuples(mask)) = {} /\ Cardinality(Valued(FreeTuples(mask))) = 0
         /\ \A k \in Tuple, v \in Value : ~Holds(FreeTuples(mask), k, v)
<1>. DEFINE e == FreeTuples(mask)
<1>1. e \in [0..mask -> Entry]
  BY DEF FreeTuples, FreeEntry, Entry
<1>2. DOMAIN e = 0..mask /\ \A i \in 0..mask : e[i].key = NoKey /\ e[i].value = INVALID_OBJECT
  BY DEF FreeTuples, FreeEntry
<1>. HIDE DEF e
<1>3. Occupied(e) = {} /\ Valued(e) = {} /\ Sound(e)
  BY <1>2 DEF Occupied, Valued, Sound
<1>4. Cardinality(Valued(e)) = 0
  BY <1>3, FS_EmptySet
<1>5. \A k \in Tuple, v \in Value : ~Holds(e, k, v)
  BY <1>2, MKAssumption DEF Holds
<1>. QED  BY <1>1, <1>3, <1>4, <1>5 DEF e

LEMMA MKInitInv ==
  ASSUME MKInit
  PROVE  MapInv
<1>1. /\ entries = FreeTuples(INITIAL_MASK) /\ count = 0 /\ aborted = FALSE
      /\ content = [k \in Tuple |-> INVALID_OBJECT] /\ unsets = FALSE
  BY DEF MKInit
<1>2. INITIAL_MASK \in Nat /\ INVALID_OBJECT \notin Value
  BY MKAssumption
<1>3. Matches(entries, content)
  BY <1>1, <1>2, FreeFits DEF Matches
<1>4. TableFits(INITIAL_MASK)
  BY <1>1, <1>2, <1>3, FreeFits DEF TableFits
<1>. QED  BY <1>1, <1>2, <1>4 DEF MapInv

LEMMA ResetKeeps ==
  ASSUME MapInv, ResetTuples
  PROVE  MapInv'
<1>1. /\ entries' = FreeTuples(INITIAL_MASK) /\ count' = 0 /\ aborted' = FALSE
      /\ content' = [k \in Tuple |-> INVALID_OBJECT] /\ unsets' = FALSE
  BY DEF ResetTuples, MapInv
<1>2. INITIAL_MASK \in Nat /\ INVALID_OBJECT \notin Value
  BY MKAssumption
<1>3. Matches(entries', content')
  BY <1>1, <1>2, FreeFits DEF Matches
<1>4. TableFits(INITIAL_MASK)'
  BY <1>1, <1>2, <1>3, FreeFits DEF TableFits
<1>. QED  BY <1>1, <1>2, <1>4 DEF MapInv

\* The count that dfsch_mkhash_set keeps is that of the values.
LEMMA CountIs ==
  ASSUME NEW mask \in Nat, NEW e \in [0..mask -> Entry], NEW key \in Tuple,
         NEW value \in Value \union {INVALID_OBJECT}, NEW i \in 0..mask,
         NEW d, Stored(d, e, mask, key, value, i)
  PROVE  Cardinality(Valued(d)) =
           CASE e[i].value = value -> Cardinality(Valued(e))
             [] e[i].value # value /\ e[i].value = INVALID_OBJECT -> Cardinality(Valued(e)) + 1
             [] e[i].value # value /\ e[i].value # INVALID_OBJECT /\ value = INVALID_OBJECT ->
                  Cardinality(Valued(e)) - 1
             [] OTHER -> Cardinality(Valued(e))
<1>1. IsFiniteSet(Valued(e)) /\ DOMAIN e = 0..mask
  BY ValuedFinite
<1>2. i \in Valued(e) <=> e[i].value # INVALID_OBJECT
  BY <1>1 DEF Valued
<1>3. CASE value = INVALID_OBJECT
  <2>1. Valued(d) = Valued(e) \ {i}
    BY <1>3 DEF Stored
  <2>2. Cardinality(Valued(e) \ {i}) =
          IF i \in Valued(e) THEN Cardinality(Valued(e)) - 1 ELSE Cardinality(Valued(e))
    BY <1>1, FS_RemoveElement
  <2>. QED  BY <1>2, <1>3, <2>1, <2>2
<1>4. CASE value # INVALID_OBJECT
  <2>1. Valued(d) = Valued(e) \union {i}
    BY <1>4 DEF Stored
  <2>2. Cardinality(Valued(e) \union {i}) =
          IF i \in Valued(e) THEN Cardinality(Valued(e)) ELSE Cardinality(Valued(e)) + 1
    BY <1>1, FS_AddElement
  <2>. QED  BY <1>2, <1>4, <2>1, <2>2
<1>. QED  BY <1>3, <1>4

LEMMA SetKeeps ==
  ASSUME MapInv, NEW key \in Tuple, NEW value \in Value \union {INVALID_OBJECT},
         SetTuple(key, value)
  PROVE  MapInv'
<1>. DEFINE i == FindEntry(entries, key)
<1>1. PICK mask \in Nat : TableFits(mask)
  BY DEF MapInv, SetTuple
<1>2. /\ entries \in [0..mask -> Entry] /\ Sound(entries) /\ Matches(entries, content)
      /\ count = Cardinality(Valued(entries)) /\ DOMAIN entries = 0..mask
      /\ ~unsets => Occupied(entries) \subseteq Valued(entries) /\ 3 * count <= 2 * mask + 2
  BY <1>1 DEF TableFits
<1>3. /\ aborted' = (i = -1) /\ unsets' = (unsets \/ value = INVALID_OBJECT)
      /\ content' = [content EXCEPT ![key] = value]
  BY DEF SetTuple
<1>4. /\ content' \in [Tuple -> Value \union {INVALID_OBJECT}]
      /\ \A k \in Tuple : content'[k] = IF k = key THEN value ELSE content[k]
  BY <1>3 DEF MapInv
<1>5. aborted' \in BOOLEAN /\ unsets' \in BOOLEAN
  BY <1>3 DEF MapInv
<1>6. \/ PlaceFor(entries, mask, key, i)
      \/ i = -1 /\ \A j \in 0..mask : entries[j].key # NoKey
  BY <1>2, FindEntryIs DEF PlaceFor
<1>7. CASE i = -1
  <2>1. ~PlaceFor(entries, mask, key, i)
    BY <1>7 DEF PlaceFor
  <2>2. \A j \in 0..mask : entries[j].key # NoKey
    BY <1>6, <2>1
  <2>3. unsets
    <3>1. SUFFICES ASSUME ~unsets
                   PROVE  FALSE
      BY DEF MapInv
    <3>2. count \in Nat
      BY <1>2, ValuedFinite
    <3>3. Cardinality(Valued(entries)) < mask + 1
      BY <1>2, <3>1, <3>2
    <3>4. \E j \in 0..mask : entries[j].key = NoKey
      BY <1>2, <3>1, <3>3, NotFull
    <3>. QED  BY <2>2, <3>4
  <2>. QED  BY <1>3, <1>4, <1>5, <1>7, <2>3 DEF MapInv
<1>8. CASE i # -1
  <2>1. PlaceFor(entries, mask, key, i) /\ i \in 0..mask
    BY <1>6, <1>8 DEF PlaceFor
  <2>. DEFINE d == [entries EXCEPT ![i] = [key |-> key, value |-> value]]
  <2>2. /\ entries' = Resized(d, count')
        /\ count' = CASE entries[i].value = value -> count
                      [] entries[i].value # value /\ entries[i].value = INVALID_OBJECT -> count + 1
                      [] entries[i].value # value /\ entries[i].value # INVALID_OBJECT
                           /\ value = INVALID_OBJECT -> count - 1
                      [] OTHER -> count
    <3>1. entries' = Resized(d, count')
      BY <1>8 DEF SetTuple
    <3>2. CASE entries[i].value = value
      BY <1>8, <3>2 DEF SetTuple
    <3>3. CASE entries[i].value # value /\ entries[i].value = INVALID_OBJECT
      BY <1>8, <3>3 DEF SetTuple
    <3>4. CASE entries[i].value # value /\ entries[i].value # INVALID_OBJECT
      BY <1>8, <3>4 DEF SetTuple
    <3>. QED  BY <3>1, <3>2, <3>3, <3>4
  <2>. HIDE DEF i
  <2>3. Stored(d, entries, mask, key, value, i)
    BY <1>2, <2>1, StoreIs
  <2>. HIDE DEF d
  <2>4. d \in [0..mask -> Entry] /\ Sound(d) /\ count' = Cardinality(Valued(d))
    <3>1. d \in [0..mask -> Entry] /\ Sound(d)
      BY <2>3 DEF Stored
    <3>. QED  BY <1>2, <2>1, <2>2, <2>3, <3>1, CountIs
  <2>5. PICK new \in Nat :
          /\ entries' \in [0..new -> Entry] /\ Sound(entries')
          /\ Cardinality(Valued(entries')) = count'
          /\ Occupied(d) \subseteq Valued(d) => Occupied(entries') \subseteq Valued(entries')
          /\ 3 * count' <= 2 * mask + 5 => 3 * count' <= 2 * new + 2
          /\ \A k \in Tuple, v \in Value : Holds(entries', k, v) <=> Holds(d, k, v)
    <3>1. entries' = Resized(d, Cardinality(Valued(d)))
      BY <2>2, <2>4
    <3>2. \E new \in Nat :
            /\ entries' \in [0..new -> Entry] /\ Sound(entries')
            /\ Cardinality(Valued(entries')) = Cardinality(Valued(d))
            /\ Occupied(d) \subseteq Valued(d) => Occupied(entries') \subseteq Valued(entries')
            /\ 3 * Cardinality(Valued(d)) <= 2 * mask + 5 =>
                 3 * Cardinality(Valued(entries')) <= 2 * new + 2
            /\ \A k \in Tuple, v \in Value : Holds(entries', k, v) <=> Holds(d, k, v)
      BY <2>4, <3>1, ResizedIs
    <3>. QED  BY <2>4, <3>2
  <2>6. Matches(entries', content')
    <3>1. SUFFICES ASSUME NEW k \in Tuple, NEW v \in Value
                   PROVE  Holds(entries', k, v) <=> content'[k] = v
      BY DEF Matches
    <3>2. Holds(entries', k, v) <=> IF k = key THEN v = value ELSE Holds(entries, k, v)
      BY <2>3, <2>5 DEF Stored
    <3>3. Holds(entries, k, v) <=> content[k] = v
      BY <1>2 DEF Matches
    <3>. QED  BY <1>4, <3>2, <3>3
  <2>7. ASSUME ~unsets'
        PROVE  Occupied(entries') \subseteq Valued(entries') /\ 3 * count' <= 2 * new + 2
    <3>1. ~unsets /\ value # INVALID_OBJECT
      BY <1>3, <2>7
    <3>2. Occupied(d) \subseteq Valued(d)
      BY <1>2, <2>3, <3>1 DEF Stored
    <3>3. count \in Nat /\ 3 * count <= 2 * mask + 2
      BY <1>2, <3>1, ValuedFinite
    <3>4. count' = count \/ count' = count + 1
      BY <2>2, <3>1
    <3>5. 3 * count' <= 2 * mask + 5
      BY <3>3, <3>4
    <3>. QED  BY <2>5, <3>2, <3>5
  <2>8. TableFits(new)'
    BY <2>5, <2>6, <2>7 DEF TableFits
  <2>9. ~aborted'
    BY <1>3, <1>8 DEF i
  <2>. QED  BY <1>4, <1>5, <2>8, <2>9 DEF MapInv
<1>. QED  BY <1>7, <1>8

LEMMA MapInvIsMap ==
  ASSUME MapInv
  PROVE  IsMap
<1>1. ASSUME ~aborted
      PROVE  /\ \A key \in Tuple : RefTuple(key) = content[key]
             /\ count = Cardinality({i \in DOMAIN entries : entries[i].value # INVALID_OBJECT})
             /\ ~unsets => \E i \in DOMAIN entries : entries[i].key = NoKey
  <2>1. PICK mask \in Nat : TableFits(mask)
    BY <1>1 DEF MapInv
  <2>2. /\ entries \in [0..mask -> Entry] /\ Sound(entries) /\ Matches(entries, content)
        /\ count = Cardinality(Valued(entries)) /\ DOMAIN entries = 0..mask
        /\ ~unsets => Occupied(entries) \subseteq Valued(entries) /\ 3 * count <= 2 * mask + 2
    BY <2>1 DEF TableFits
  <2>3. ASSUME NEW key \in Tuple
        PROVE  RefTuple(key) = content[key]
    <3>. DEFINE i == FindEntry(entries, key)
    <3>1. RefTuple(key) = IF i = -1 THEN INVALID_OBJECT ELSE entries[i].value
      BY DEF RefTuple
    <3>2. content[key] \in Value \union {INVALID_OBJECT}
      BY DEF MapInv
    <3>3. \A v \in Value : Holds(entries, key, v) <=> content[key] = v
      BY <2>2 DEF Matches
    <3>4. \/ i \in 0..mask /\ entries[i].key = key
          \/ i \in 0..mask /\ entries[i].key = NoKey /\ \A j \in 0..mask : entries[j].key # key
          \/ i = -1 /\ \A j \in 0..mask : entries[j].key # key
      BY <2>2, FindEntryIs
    <3>. HIDE DEF i
    <3>5. CASE i \in 0..mask /\ entries[i].key = key
      <4>1. RefTuple(key) = entries[i].value /\ entries[i].value \in Value \union {INVALID_OBJECT}
        BY <2>2, <3>1, <3>5 DEF Entry
      <4>2. CASE entries[i].value \in Value
        BY <2>2, <3>3, <3>5, <4>1, <4>2 DEF Holds
      <4>3. CASE entries[i].value = INVALID_OBJECT
        <5>1. \A j \in 0..mask : entries[j].key = key => j = i
          BY <2>2, <3>5, MKAssumption DEF Sound, Occupied
        <5>2. \A v \in Value : ~Holds(entries, key, v)
          BY <2>2, <4>3, <5>1, MKAssumption DEF Holds
        <5>. QED  BY <3>2, <3>3, <4>1, <4>3, <5>2
      <4>. QED  BY <4>1, <4>2, <4>3
    <3>6. CASE \A j \in 0..mask : entries[j].key # key
      <4>1. RefTuple(key) = INVALID_OBJECT
        BY <2>2, <3>1, <3>4, <3>6 DEF Sound
      <4>2. \A v \in Value : ~Holds(entries, key, v)
        BY <2>2, <3>6 DEF Holds
      <4>. QED  BY <3>2, <3>3, <4>1, <4>2
    <3>. QED  BY <3>4, <3>5, <3>6
  <2>4. ASSUME ~unsets
        PROVE  \E i \in DOMAIN entries : entries[i].key = NoKey
    <3>1. count \in Nat
      BY <2>2, ValuedFinite
    <3>2. Cardinality(Valued(entries)) < mask + 1
      BY <2>2, <2>4, <3>1
    <3>. QED  BY <2>2, <2>4, <3>2, NotFull
  <2>. QED  BY <2>2, <2>3, <2>4 DEF Valued
<1>2. ~unsets => ~aborted
  BY DEF MapInv
<1>. QED  BY <1>1, <1>2 DEF IsMap

\* A table of tuples of keys is a map that is never full unless something was
\* unset, for any keys, hashes and values (dfsch_mkhash_set and dfsch_mkhash_ref,
\* src/src/mkhash.c).
THEOREM TuplesMapped == MKSpec => []IsMap
<1>1. MKInit => MapInv
  BY MKInitInv
<1>2. MapInv /\ [MKNext]_mkVars => MapInv'
  <2>1. SUFFICES ASSUME MapInv, [MKNext]_mkVars
                 PROVE  MapInv'
    OBVIOUS
  <2>2. CASE UNCHANGED mkVars
    BY <2>1, <2>2 DEF mkVars, MapInv, TableFits, Matches
  <2>3. CASE ResetTuples
    BY <2>1, <2>3, ResetKeeps
  <2>4. ASSUME NEW key \in Tuple, NEW value \in Value \union {INVALID_OBJECT},
               SetTuple(key, value)
        PROVE  MapInv'
    BY <2>1, <2>4, SetKeeps
  <2>. QED  BY <2>1, <2>2, <2>3, <2>4 DEF MKNext
<1>3. MapInv => IsMap
  BY MapInvIsMap
<1>. QED  BY <1>1, <1>2, <1>3, PTL DEF MKSpec

-----------------------------------------------------------------------------
(* SymbolTable: what a table is.                                           *)

Names(e) == {e[i] : i \in Alive(e)}
Taken(e) == {i \in DOMAIN e : e[i] # FREE}
NameOrNone == SymbolName \union {FREE, DEAD}

\* A search for a name comes to a place, past no free one.
NameReached(e, name, i) ==
  \E n \in DOMAIN e : /\ SymbolPlace(e, name, n) = i
                      /\ \A m \in 0..(n - 1) : e[SymbolPlace(e, name, m)] # FREE

\* A name is in one place, and a search comes to it.
NamesSound(e) ==
  /\ \A i \in Alive(e), j \in Alive(e) : e[i] = e[j] => i = j
  /\ \A i \in Alive(e) : NameReached(e, e[i], i)

LEMMA SymbolMaskIs ==
  ASSUME NEW mask \in Nat, NEW e, DOMAIN e = 0..mask
  PROVE  SymbolMask(e) = mask
<1>1. Cardinality(0..mask) = mask + 1
  BY FS_Interval
<1>. QED  BY <1>1 DEF SymbolMask

LEMMA SymbolPlaceIs ==
  ASSUME NEW mask \in Nat, NEW e, DOMAIN e = 0..mask, NEW name \in SymbolName
  PROVE  /\ \A n \in 0..mask : SymbolPlace(e, name, n) \in 0..mask
         /\ \A p \in 0..mask : \E n \in 0..mask : SymbolPlace(e, name, n) = p
<1>1. SymbolMask(e) = mask
  BY SymbolMaskIs
<1>2. symbol_hash[name] \in Nat
  BY SymbolAssumption
<1>3. \A n : SymbolPlace(e, name, n) = (symbol_hash[name] + n) % (mask + 1)
  BY <1>1 DEF SymbolPlace
<1>4. mask + 1 \in Nat /\ mask + 1 > 0 /\ (mask + 1) - 1 = mask
  OBVIOUS
<1>5. \A p \in 0..mask : \E n \in 0..mask : (symbol_hash[name] + n) % (mask + 1) = p
  <2>. DEFINE h == symbol_hash[name]
              s == mask + 1
  <2>1. \A p \in 0..(s - 1) : \E n \in 0..(s - 1) : (h + n) % s = p
    <3>. h \in Nat /\ s \in Nat /\ s > 0
      BY <1>2, <1>4
    <3>. HIDE DEF h, s
    <3>. QED  BY PlaceIn
  <2>. QED  BY <1>4, <2>1
<1>6. ASSUME NEW n \in 0..mask
      PROVE  SymbolPlace(e, name, n) \in 0..mask
  <2>. DEFINE h == symbol_hash[name] + n
              s == mask + 1
  <2>1. h % s \in 0..(s - 1)
    <3>. h \in Nat /\ s \in Nat /\ s > 0
      BY <1>2, <1>4
    <3>. HIDE DEF h, s
    <3>. QED  BY PlaceIn
  <2>. QED  BY <1>3, <1>4, <2>1
<1>. QED  BY <1>3, <1>5, <1>6

LEMMA TakenFinite ==
  ASSUME NEW mask \in Nat, NEW e, DOMAIN e = 0..mask
  PROVE  /\ IsFiniteSet(Taken(e)) /\ Cardinality(Taken(e)) \in Nat
         /\ IsFiniteSet(Alive(e)) /\ Cardinality(Alive(e)) \in Nat
         /\ Cardinality(Alive(e)) <= Cardinality(Taken(e))
         /\ Cardinality(Taken(e)) < mask + 1 => \E i \in 0..mask : e[i] = FREE
<1>1. IsFiniteSet(0..mask) /\ Cardinality(0..mask) = mask + 1
  BY FS_Interval
<1>2. Taken(e) \in SUBSET (0..mask) /\ Alive(e) \in SUBSET Taken(e)
  BY SymbolAssumption DEF Taken, Alive
<1>3. IsFiniteSet(Taken(e))
  BY <1>1, <1>2, FS_Subset
<1>4. IsFiniteSet(Alive(e)) /\ Cardinality(Alive(e)) <= Cardinality(Taken(e))
  BY <1>2, <1>3, FS_Subset
<1>5. Cardinality(Taken(e)) \in Nat /\ Cardinality(Alive(e)) \in Nat
  BY <1>3, <1>4, FS_CardinalityType
<1>6. (\A i \in 0..mask : e[i] # FREE) => Taken(e) = 0..mask
  BY DEF Taken
<1>. QED  BY <1>1, <1>3, <1>4, <1>5, <1>6

\* pkg_find_symbol finds the names that are there.
LEMMA FindsIs ==
  ASSUME NEW mask \in Nat, NEW e \in [0..mask -> NameOrNone], NamesSound(e),
         NEW name \in SymbolName
  PROVE  Finds(e, name) <=> name \in Names(e)
<1>1. ASSUME Finds(e, name)
      PROVE  name \in Names(e)
  <2>1. PICK n \in 0..mask : e[SymbolPlace(e, name, n)] = name
    BY <1>1 DEF Finds
  <2>2. SymbolPlace(e, name, n) \in 0..mask
    BY SymbolPlaceIs
  <2>. QED  BY <2>1, <2>2 DEF Names, Alive
<1>2. ASSUME name \in Names(e)
      PROVE  Finds(e, name)
  <2>1. PICK i \in Alive(e) : e[i] = name
    BY <1>2 DEF Names
  <2>2. NameReached(e, name, i)
    BY <2>1 DEF NamesSound
  <2>. QED  BY <2>1, <2>2 DEF NameReached, Finds
<1>. QED  BY <1>1, <1>2

-----------------------------------------------------------------------------
(* SymbolTable: a put.                                                     *)

Has(d, mask, e, name) ==
  /\ d \in [0..mask -> NameOrNone] /\ NamesSound(d) /\ Names(d) = Names(e) \union {name}
  /\ Cardinality(Alive(d)) = Cardinality(Alive(e)) + 1
  /\ Cardinality(Taken(d)) <= Cardinality(Taken(e)) + 1
  /\ Taken(e) \subseteq Alive(e) => Taken(d) \subseteq Alive(d)

LEMMA LowPutIs ==
  ASSUME NEW mask \in Nat, NEW e \in [0..mask -> NameOrNone], NamesSound(e),
         NEW name \in SymbolName, name \notin Names(e), Cardinality(Taken(e)) < mask + 1,
         NEW d, d = LowPut(e, name)
  PROVE  Has(d, mask, e, name)
<1>. DEFINE open == {n \in DOMAIN e : e[SymbolPlace(e, name, n)] \in {FREE, DEAD}}
            i == SymbolPlace(e, name, Min(open))
<1>1. DOMAIN e = 0..mask
  OBVIOUS
<1>2. open # {} /\ open \in SUBSET Nat
  <2>1. PICK j \in 0..mask : e[j] = FREE
    BY <1>1, TakenFinite
  <2>2. PICK n \in 0..mask : SymbolPlace(e, name, n) = j
    BY <1>1, SymbolPlaceIs
  <2>. QED  BY <1>1, <2>1, <2>2
<1>3. Min(open) \in open /\ \A n \in open : Min(open) <= n
  <2>. HIDE DEF open
  <2>. QED  BY <1>2, MinOf
<1>4. PICK n \in 0..mask : n = Min(open)
  BY <1>1, <1>3
<1>5. /\ i = SymbolPlace(e, name, n) /\ e[i] \in {FREE, DEAD}
      /\ \A m \in 0..(n - 1) : e[SymbolPlace(e, name, m)] # FREE
  <2>1. ASSUME NEW m \in 0..(n - 1)
        PROVE  e[SymbolPlace(e, name, m)] # FREE
    <3>1. m \in 0..mask /\ ~(n <= m)
      OBVIOUS
    <3>2. m \notin open
      BY <1>3, <1>4, <3>1
    <3>. QED  BY <1>1, <3>1, <3>2
  <2>. QED  BY <1>3, <1>4, <2>1
<1>6. d = [e EXCEPT ![i] = name]
  BY DEF LowPut
<1>. HIDE DEF i, open
<1>7. i \in 0..mask
  BY <1>1, <1>5, SymbolPlaceIs
<1>8. /\ d \in [0..mask -> NameOrNone] /\ DOMAIN d = 0..mask /\ d[i] = name
      /\ \A j \in 0..mask : j # i => d[j] = e[j]
  BY <1>6, <1>7 DEF NameOrNone
<1>9. FREE \notin SymbolName /\ DEAD \notin SymbolName /\ FREE # DEAD
  BY SymbolAssumption
<1>10. \A k, m : SymbolPlace(d, k, m) = SymbolPlace(e, k, m)
  BY <1>1, <1>8 DEF SymbolPlace, SymbolMask
<1>11. i \notin Alive(e) /\ Alive(d) = Alive(e) \union {i}
  BY <1>1, <1>5, <1>7, <1>8, <1>9 DEF Alive
<1>12. Taken(d) = Taken(e) \union {i}
  BY <1>1, <1>7, <1>8, <1>9 DEF Taken
<1>13. \A j \in Alive(e) : d[j] = e[j] /\ e[j] # name /\ j \in 0..mask
  BY <1>1, <1>8, <1>11 DEF Alive, Names
<1>14. ASSUME NEW k \in SymbolName, NEW j, NameReached(e, k, j)
       PROVE  NameReached(d, k, j)
  <2>1. PICK p \in 0..mask : /\ SymbolPlace(e, k, p) = j
                             /\ \A m \in 0..(p - 1) : e[SymbolPlace(e, k, m)] # FREE
    BY <1>1, <1>14 DEF NameReached
  <2>2. ASSUME NEW m \in 0..(p - 1)
        PROVE  d[SymbolPlace(d, k, m)] # FREE
    <3>1. m \in 0..mask
      OBVIOUS
    <3>2. SymbolPlace(e, k, m) \in 0..mask
      BY <1>1, <3>1, SymbolPlaceIs
    <3>. QED  BY <1>8, <1>9, <1>10, <2>1, <3>2
  <2>. QED  BY <1>8, <1>10, <2>1, <2>2 DEF NameReached
<1>15. NameReached(e, name, i)
  BY <1>1, <1>5 DEF NameReached
<1>16. NamesSound(d)
  <2>1. \A a \in Alive(d), b \in Alive(d) : d[a] = d[b] => a = b
    BY <1>8, <1>11, <1>13 DEF NamesSound
  <2>2. ASSUME NEW a \in Alive(d)
        PROVE  NameReached(d, d[a], a)
    <3>1. CASE a = i
      BY <1>8, <1>14, <1>15, <3>1
    <3>2. CASE a \in Alive(e)
      <4>1. NameReached(e, e[a], a) /\ e[a] \in SymbolName
        BY <3>2 DEF NamesSound, Alive
      <4>. QED  BY <1>13, <1>14, <3>2, <4>1
    <3>. QED  BY <1>11, <3>1, <3>2
  <2>. QED  BY <2>1, <2>2 DEF NamesSound
<1>17. Names(d) = Names(e) \union {name}
  BY <1>8, <1>11, <1>13 DEF Names
<1>18. Cardinality(Alive(d)) = Cardinality(Alive(e)) + 1
  BY <1>1, <1>11, TakenFinite, FS_AddElement
<1>19. Cardinality(Taken(d)) <= Cardinality(Taken(e)) + 1
  <2>1. IsFiniteSet(Taken(e)) /\ Cardinality(Taken(e)) \in Nat
    BY <1>1, TakenFinite
  <2>2. Cardinality(Taken(e) \union {i}) =
          IF i \in Taken(e) THEN Cardinality(Taken(e)) ELSE Cardinality(Taken(e)) + 1
    BY <2>1, FS_AddElement
  <2>. QED  BY <1>12, <2>1, <2>2
<1>20. Taken(e) \subseteq Alive(e) => Taken(d) \subseteq Alive(d)
  BY <1>11, <1>12
<1>. QED  BY <1>8, <1>16, <1>17, <1>18, <1>19, <1>20 DEF Has

-----------------------------------------------------------------------------
(* SymbolTable: growing.                                                   *)

\* The mask is at least twice the number it is for.
LEMMA MaskForIs ==
  ASSUME NEW n \in Nat
  PROVE  MaskFor(n) \in Nat /\ MaskFor(n) >= 7 /\ MaskFor(n) \div 2 >= n
<1>. DEFINE After(i, m) == IF m \div 2 < n THEN 2 * m + 1 ELSE m
            step == [p \in (1..n) \X Nat |-> After(p[1], p[2])]
            IsRun(f) == f = [i \in 0..n |-> IF i = 0 THEN 7 ELSE After(i, f[i - 1])]
            run == CHOOSE f : IsRun(f)
<1>1. MaskFor(n) = run[n]
  BY DEF MaskFor
<1>2. step \in [(1..n) \X Nat -> Nat]
  OBVIOUS
<1>3. \E f : IsRun(f)
  <2>. HIDE DEF step
  <2>1. PICK f \in [0..n -> Nat] : Follows(f, n, 7, step)
    BY <1>2, Recursion
  <2>2. ASSUME NEW i \in 1..n
        PROVE  f[i] = After(i, f[i - 1])
    <3>1. f[i - 1] \in Nat
      OBVIOUS
    <3>. HIDE DEF After
    <3>. QED  BY <2>1, <3>1 DEF step, Follows
  <2>3. \A i \in 0..n : f[i] = IF i = 0 THEN 7 ELSE After(i, f[i - 1])
    <3>. HIDE DEF After
    <3>1. \A i \in 0..n : i # 0 => i \in 1..n
      OBVIOUS
    <3>. QED  BY <2>1, <2>2, <3>1 DEF Follows
  <2>4. f = [i \in 0..n |-> IF i = 0 THEN 7 ELSE After(i, f[i - 1])]
    <3>. HIDE DEF After
    <3>. QED  BY <2>3
  <2>. QED  BY <2>4
<1>4. IsRun(run)
  <2>. HIDE DEF IsRun
  <2>. QED  BY <1>3
<1>5. run[0] = 7 /\ \A i \in 1..n : run[i] = After(i, run[i - 1])
  <2>. HIDE DEF run, After
  <2>1. 0 \in 0..n /\ \A i \in 1..n : i \in 0..n /\ i # 0
    OBVIOUS
  <2>. QED  BY <1>4, <2>1
<1>. HIDE DEF run
<1>. DEFINE Large(m, i) == m \in Nat /\ m >= 7 /\ (m \div 2 >= n \/ m >= 7 + 2 * i)
            S == {i \in 0..n : Large(run[i], i)}
<1>6. 0 \in S
  BY <1>5
<1>7. ASSUME NEW i \in 0..(n - 1), i \in S
      PROVE  i + 1 \in S
  <2>1. i + 1 \in 1..n /\ (i + 1) - 1 = i
    OBVIOUS
  <2>2. run[i + 1] = After(i + 1, run[i])
    <3>. HIDE DEF After
    <3>. QED  BY <1>5, <2>1
  <2>3. PICK m \in Nat : m = run[i]
    BY <1>7
  <2>4. Large(m, i)
    BY <1>7, <2>3
  <2>5. Large(After(i + 1, m), i + 1)
    BY <2>4
  <2>. QED  BY <2>1, <2>2, <2>3, <2>5
<1>8. n \in S
  <2>1. n \in 0..n
    OBVIOUS
  <2>. HIDE DEF S
  <2>. QED  BY <1>6, <1>7, <2>1, Upward
<1>9. Large(run[n], n)
  BY <1>8
<1>. QED  BY <1>1, <1>9

\* What the new table is when the entries before n have been moved.
MovedNames(r, mask, e, n) ==
  /\ r \in [0..mask -> NameOrNone] /\ NamesSound(r) /\ Taken(r) \subseteq Alive(r)
  /\ Cardinality(Alive(r)) = Cardinality(Alive(e) \intersect 0..(n - 1))
  /\ Names(r) = {e[j] : j \in Alive(e) \intersect 0..(n - 1)}

LEMMA MoveNameIs ==
  ASSUME NEW mask \in Nat, NEW e \in [0..mask -> NameOrNone], NamesSound(e),
         NEW new \in Nat, Cardinality(Alive(e)) <= new + 1,
         NEW n \in 0..mask, NEW r, MovedNames(r, new, e, n),
         NEW d, d = IF e[n] \in SymbolName THEN LowPut(r, e[n]) ELSE r
  PROVE  MovedNames(d, new, e, n + 1)
<1>. DEFINE before == Alive(e) \intersect 0..(n - 1)
            upto == Alive(e) \intersect 0..n
<1>0. (n + 1) - 1 = n /\ \A j \in 0..n : j \in 0..(n - 1) \/ j = n
  OBVIOUS
<1>1. DOMAIN e = 0..mask /\ 0..(n - 1) \subseteq 0..n /\ 0..n \subseteq 0..mask /\ n \notin 0..(n - 1)
  OBVIOUS
<1>2. /\ r \in [0..new -> NameOrNone] /\ NamesSound(r) /\ Taken(r) \subseteq Alive(r)
      /\ Cardinality(Alive(r)) = Cardinality(before) /\ Names(r) = {e[j] : j \in before}
  BY DEF MovedNames
<1>3. SUFFICES /\ d \in [0..new -> NameOrNone] /\ NamesSound(d) /\ Taken(d) \subseteq Alive(d)
               /\ Cardinality(Alive(d)) = Cardinality(upto) /\ Names(d) = {e[j] : j \in upto}
  BY <1>0 DEF MovedNames
<1>4. CASE e[n] \notin SymbolName
  <2>1. upto = before
    BY <1>0, <1>1, <1>4 DEF Alive
  <2>. HIDE DEF before, upto
  <2>. QED  BY <1>2, <1>4, <2>1
<1>5. CASE e[n] \in SymbolName
  <2>1. n \in Alive(e)
    BY <1>1, <1>5 DEF Alive
  <2>2. upto = before \union {n} /\ n \notin before /\ before \in SUBSET Alive(e)
        /\ upto \in SUBSET Alive(e)
    BY <1>0, <1>1, <2>1
  <2>3. e[n] \notin Names(r)
    BY <1>2, <2>1, <2>2 DEF NamesSound
  <2>. HIDE DEF before, upto
  <2>4. IsFiniteSet(Alive(e)) /\ Cardinality(Alive(e)) \in Nat
    BY <1>1, TakenFinite
  <2>5. IsFiniteSet(before) /\ Cardinality(upto) <= Cardinality(Alive(e))
    BY <2>2, <2>4, FS_Subset
  <2>6. Cardinality(before) \in Nat /\ Cardinality(upto) = Cardinality(before) + 1
    BY <2>2, <2>5, FS_AddElement, FS_CardinalityType
  <2>7. Cardinality(Taken(r)) < new + 1
    <3>1. Taken(r) = Alive(r)
      <4>1. Alive(r) \subseteq Taken(r)
        BY SymbolAssumption DEF Alive, Taken
      <4>. QED  BY <1>2, <4>1
    <3>. QED  BY <1>2, <2>4, <2>5, <2>6, <3>1
  <2>8. Has(d, new, r, e[n])
    <3>1. d = LowPut(r, e[n])
      BY <1>5
    <3>. QED  BY <1>2, <1>5, <2>3, <2>7, <3>1, LowPutIs
  <2>9. /\ d \in [0..new -> NameOrNone] /\ NamesSound(d) /\ Taken(d) \subseteq Alive(d)
        /\ Names(d) = Names(r) \union {e[n]}
        /\ Cardinality(Alive(d)) = Cardinality(Alive(r)) + 1
    BY <1>2, <2>8 DEF Has
  <2>10. Names(d) = {e[j] : j \in upto}
    BY <1>2, <2>2, <2>9
  <2>. QED  BY <1>2, <2>6, <2>9, <2>10
<1>. QED  BY <1>4, <1>5

\* pkg_grow keeps the symbols that are alive, and has room for more.
LEMMA GrowIs ==
  ASSUME NEW mask \in Nat, NEW e \in [0..mask -> NameOrNone], NamesSound(e),
         NEW d, d = Grow(e)
  PROVE  \E new \in Nat :
           /\ new >= 7 /\ new \div 2 >= Cardinality(Alive(e))
           /\ d \in [0..new -> NameOrNone] /\ NamesSound(d) /\ Taken(d) \subseteq Alive(d)
           /\ Cardinality(Alive(d)) = Cardinality(Alive(e)) /\ Names(d) = Names(e)
<1>0. DOMAIN e = 0..mask /\ Cardinality(Alive(e)) \in Nat
  BY TakenFinite
<1>1. PICK new \in Nat : /\ new = MaskFor(Cardinality(Alive(e)))
                         /\ new >= 7 /\ new \div 2 >= Cardinality(Alive(e))
  BY <1>0, MaskForIs
<1>2. Cardinality(Alive(e)) <= new + 1
  BY <1>0, <1>1
<1>. DEFINE X == [0..new -> NameOrNone]
            N == mask + 1
            base == FreeSymbols(new)
            After(n, r) == IF e[n - 1] \in SymbolName THEN LowPut(r, e[n - 1]) ELSE r
            step == [p \in (1..N) \X X |-> After(p[1], p[2])]
            IsRun(f) == f = [n \in 0..N |-> IF n = 0 THEN base ELSE After(n, f[n - 1])]
            run == CHOOSE f : IsRun(f)
<1>3. d = run[N]
  <2>1. SymbolMask(e) = mask
    BY <1>0, SymbolMaskIs
  <2>2. Grow(e) =
          (CHOOSE f : f = [n \in 0..(SymbolMask(e) + 1) |->
             IF n = 0 THEN FreeSymbols(MaskFor(Cardinality(Alive(e))))
             ELSE IF e[n - 1] \in SymbolName THEN LowPut(f[n - 1], e[n - 1])
             ELSE f[n - 1]])[SymbolMask(e) + 1]
    BY DEF Grow
  <2>. QED  BY <1>1, <2>1, <2>2
<1>4. base \in X
  BY DEF FreeSymbols, NameOrNone
<1>5. step \in [(1..N) \X X -> X]
  <2>1. ASSUME NEW n \in 1..N, NEW r \in X
        PROVE  After(n, r) \in X
    <3>1. CASE e[n - 1] \in SymbolName
      <4>1. e[n - 1] \in NameOrNone
        BY <3>1 DEF NameOrNone
      <4>. QED  BY <3>1, <4>1 DEF LowPut
    <3>2. CASE e[n - 1] \notin SymbolName
      BY <3>2
    <3>. QED  BY <3>1, <3>2
  <2>. HIDE DEF After, X
  <2>. QED  BY <2>1
<1>6. \E f : IsRun(f)
  <2>1. N \in Nat
    OBVIOUS
  <2>. HIDE DEF base, step, X, N
  <2>2. PICK f \in [0..N -> X] : Follows(f, N, base, step)
    BY <1>4, <1>5, <2>1, Recursion
  <2>3. ASSUME NEW n \in 1..N
        PROVE  f[n] = After(n, f[n - 1])
    <3>1. n - 1 \in 0..N
      BY <2>1
    <3>2. f[n - 1] \in X
      BY <3>1
    <3>. HIDE DEF After
    <3>. QED  BY <2>2, <3>2 DEF step, Follows
  <2>4. \A n \in 0..N : f[n] = IF n = 0 THEN base ELSE After(n, f[n - 1])
    <3>. HIDE DEF After
    <3>1. \A n \in 0..N : n # 0 => n \in 1..N
      BY <2>1
    <3>. QED  BY <2>2, <2>3, <3>1 DEF Follows
  <2>5. f = [n \in 0..N |-> IF n = 0 THEN base ELSE After(n, f[n - 1])]
    <3>. HIDE DEF After
    <3>. QED  BY <2>4
  <2>. QED  BY <2>5
<1>7. IsRun(run)
  <2>. HIDE DEF IsRun
  <2>. QED  BY <1>6
<1>8. run[0] = base /\ \A n \in 1..N : run[n] = After(n, run[n - 1])
  <2>. HIDE DEF run, After, base
  <2>1. 0 \in 0..N /\ \A n \in 1..N : n \in 0..N /\ n # 0
    OBVIOUS
  <2>. QED  BY <1>7, <2>1
<1>. DEFINE S == {n \in 0..N : MovedNames(run[n], new, e, n)}
<1>9. 0 \in S
  <2>1. DOMAIN base = 0..new /\ \A i \in 0..new : base[i] = FREE
    BY DEF FreeSymbols
  <2>. HIDE DEF base
  <2>2. Taken(base) = {} /\ Alive(base) = {}
    BY <2>1, SymbolAssumption DEF Taken, Alive
  <2>3. NamesSound(base) /\ Names(base) = {}
    BY <2>2 DEF NamesSound, Names
  <2>4. 0..(0 - 1) = {}
    OBVIOUS
  <2>5. MovedNames(base, new, e, 0)
    BY <1>4, <2>2, <2>3, <2>4 DEF MovedNames
  <2>. QED  BY <1>8, <2>5
<1>10. ASSUME NEW n \in 0..(N - 1), n \in S
       PROVE  n + 1 \in S
  <2>1. n \in 0..mask /\ n + 1 \in 1..N /\ (n + 1) - 1 = n
    OBVIOUS
  <2>2. run[n + 1] = IF e[n] \in SymbolName THEN LowPut(run[n], e[n]) ELSE run[n]
    <3>1. run[n + 1] = After(n + 1, run[n])
      <4>. HIDE DEF run, After, N
      <4>. QED  BY <1>8, <2>1
    <3>. HIDE DEF run
    <3>. QED  BY <2>1, <3>1
  <2>. HIDE DEF run
  <2>3. MovedNames(run[n], new, e, n)
    BY <1>10
  <2>4. MovedNames(run[n + 1], new, e, n + 1)
    BY <1>2, <2>1, <2>2, <2>3, MoveNameIs
  <2>. QED  BY <2>1, <2>4
<1>11. N \in S
  <2>1. N \in Nat /\ N \in 0..N
    OBVIOUS
  <2>. HIDE DEF S, N
  <2>. QED  BY <1>9, <1>10, <2>1, Upward
<1>12. MovedNames(d, new, e, mask + 1) /\ (mask + 1) - 1 = mask
  BY <1>3, <1>11
<1>13. Alive(e) \intersect 0..mask = Alive(e)
  BY DEF Alive
<1>14. /\ d \in [0..new -> NameOrNone] /\ NamesSound(d) /\ Taken(d) \subseteq Alive(d)
       /\ Cardinality(Alive(d)) = Cardinality(Alive(e)) /\ Names(d) = Names(e)
  BY ONLY <1>12, <1>13 DEF MovedNames, Names
<1>. QED  BY <1>1, <1>14

-----------------------------------------------------------------------------
(* SymbolTable: the invariant.                                             *)

\* Some entry is free, and what is not is counted but for the symbol that was
\* put after the table had grown.
SymbolsFit(mask) ==
  /\ mask > 3 /\ symbol_entries \in [0..mask -> NameOrNone] /\ NamesSound(symbol_entries)
  /\ Names(symbol_entries) = interned
  /\ Cardinality(Alive(symbol_entries)) = Cardinality(interned)
  /\ Cardinality(Taken(symbol_entries)) <= sym_count + 1
  /\ Cardinality(Taken(symbol_entries)) <= mask

SymbolInv ==
  /\ sym_count \in Nat /\ interned \in SUBSET SymbolName /\ IsFiniteSet(interned)
  /\ \E mask \in Nat : SymbolsFit(mask)

LEMMA SymbolInitInv ==
  ASSUME SymbolInit
  PROVE  SymbolInv
<1>. DEFINE e == FreeSymbols(INITIAL_PACKAGE_MASK)
            mask == INITIAL_PACKAGE_MASK
<1>1. symbol_entries = e /\ sym_count = 0 /\ interned = {}
  BY DEF SymbolInit
<1>2. mask \in Nat /\ mask > 3 /\ FREE \notin SymbolName
  BY SymbolAssumption
<1>3. e \in [0..mask -> NameOrNone] /\ DOMAIN e = 0..mask /\ \A i \in 0..mask : e[i] = FREE
  BY DEF FreeSymbols, NameOrNone
<1>. HIDE DEF e, mask
<1>4. Taken(e) = {} /\ Alive(e) = {}
  BY <1>2, <1>3 DEF Taken, Alive
<1>5. NamesSound(e) /\ Names(e) = {}
  BY <1>4 DEF NamesSound, Names
<1>6. Cardinality({}) = 0 /\ IsFiniteSet({})
  BY FS_EmptySet
<1>7. SymbolsFit(mask)
  BY <1>1, <1>2, <1>3, <1>4, <1>5, <1>6 DEF SymbolsFit
<1>. QED  BY <1>1, <1>2, <1>6, <1>7 DEF SymbolInv

LEMMA InternKeeps ==
  ASSUME SymbolInv, NEW name \in SymbolName, InternSymbol(name)
  PROVE  SymbolInv'
<1>. DEFINE e == symbol_entries
<1>1. PICK mask \in Nat : SymbolsFit(mask)
  BY DEF SymbolInv
<1>2. /\ mask > 3 /\ e \in [0..mask -> NameOrNone] /\ NamesSound(e) /\ Names(e) = interned
      /\ Cardinality(Alive(e)) = Cardinality(interned) /\ DOMAIN e = 0..mask
      /\ Cardinality(Taken(e)) <= sym_count + 1 /\ Cardinality(Taken(e)) <= mask
  BY <1>1 DEF SymbolsFit
<1>3. /\ sym_count \in Nat /\ interned \in SUBSET SymbolName /\ IsFiniteSet(interned)
      /\ interned' = interned \union {name}
  BY DEF SymbolInv, InternSymbol
<1>4. /\ interned' \in SUBSET SymbolName /\ IsFiniteSet(interned')
      /\ name \notin interned => Cardinality(interned') = Cardinality(interned) + 1
  BY <1>3, FS_AddElement
<1>5. Finds(e, name) <=> name \in interned
  BY <1>2, FindsIs
<1>6. /\ Cardinality(Taken(e)) \in Nat /\ Cardinality(Alive(e)) \in Nat
      /\ Cardinality(Alive(e)) <= Cardinality(Taken(e))
  BY <1>2, TakenFinite
<1>7. CASE Finds(e, name)
  <2>1. symbol_entries' = e /\ sym_count' = sym_count /\ interned' = interned
    BY <1>3, <1>5, <1>7 DEF InternSymbol
  <2>2. SymbolsFit(mask)'
    BY <1>2, <2>1 DEF SymbolsFit
  <2>. QED  BY <1>3, <2>1, <2>2 DEF SymbolInv
<1>8. ASSUME ~Finds(e, name), NEW old, NEW new \in Nat, new > 3,
             old \in [0..new -> NameOrNone], NamesSound(old), Names(old) = interned,
             Cardinality(Alive(old)) = Cardinality(interned),
             symbol_entries' = LowPut(old, name), sym_count' \in Nat,
             Cardinality(Taken(old)) \in Nat,
             Cardinality(Taken(old)) + 1 <= sym_count' + 1, Cardinality(Taken(old)) + 1 <= new
      PROVE  SymbolInv'
  <2>1. name \notin Names(old) /\ Cardinality(Taken(old)) < new + 1
    BY <1>5, <1>8
  <2>2. Has(symbol_entries', new, old, name)
    BY <1>8, <2>1, LowPutIs
  <2>3. /\ symbol_entries' \in [0..new -> NameOrNone] /\ NamesSound(symbol_entries')
        /\ Names(symbol_entries') = interned'
        /\ Cardinality(Alive(symbol_entries')) = Cardinality(interned')
        /\ Cardinality(Taken(symbol_entries')) <= Cardinality(Taken(old)) + 1
    BY <1>3, <1>4, <1>5, <1>8, <2>2 DEF Has
  <2>4. Cardinality(Taken(symbol_entries')) \in Nat
    <3>1. DOMAIN (symbol_entries') = 0..new
      BY <2>3
    <3>. QED  BY <3>1, TakenFinite
  <2>5. SymbolsFit(new)'
    BY <1>8, <2>3, <2>4 DEF SymbolsFit
  <2>. QED  BY <1>4, <1>8, <2>5 DEF SymbolInv
<1>9. CASE ~Finds(e, name) /\ Crowded(e, sym_count + 1)
  <2>1. symbol_entries' = LowPut(Grow(e), name) /\ sym_count' = Cardinality(Alive(e))
    BY <1>9 DEF InternSymbol
  <2>2. PICK old : old = Grow(e)
    OBVIOUS
  <2>3. PICK new \in Nat :
          /\ new >= 7 /\ new \div 2 >= Cardinality(Alive(e))
          /\ old \in [0..new -> NameOrNone] /\ NamesSound(old) /\ Taken(old) \subseteq Alive(old)
          /\ Cardinality(Alive(old)) = Cardinality(Alive(e)) /\ Names(old) = Names(e)
    BY <1>2, <2>2, GrowIs
  <2>4. Cardinality(Taken(old)) = Cardinality(Alive(e))
    <3>1. Taken(old) = Alive(old)
      <4>1. Alive(old) \subseteq Taken(old)
        BY SymbolAssumption DEF Alive, Taken
      <4>. QED  BY <2>3, <4>1
    <3>. QED  BY <2>3, <3>1
  <2>5. /\ new > 3 /\ sym_count' \in Nat /\ Cardinality(Taken(old)) \in Nat
        /\ Cardinality(Taken(old)) + 1 <= sym_count' + 1 /\ Cardinality(Taken(old)) + 1 <= new
    BY <1>6, <2>1, <2>3, <2>4
  <2>6. symbol_entries' = LowPut(old, name)
    BY <2>1, <2>2
  <2>7. Names(old) = interned /\ Cardinality(Alive(old)) = Cardinality(interned)
    BY <1>2, <2>3
  <2>. QED  BY <1>8, <1>9, <2>3, <2>5, <2>6, <2>7
<1>10. CASE ~Finds(e, name) /\ ~Crowded(e, sym_count + 1)
  <2>1. symbol_entries' = LowPut(e, name) /\ sym_count' = sym_count + 1
    BY <1>10 DEF InternSymbol
  <2>2. (sym_count + 1) \div 2 <= mask \div 3
    <3>1. SymbolMask(e) = mask
      BY <1>2, SymbolMaskIs
    <3>. QED  BY <1>3, <1>10, <3>1 DEF Crowded
  <2>3. sym_count + 2 <= mask
    BY <1>2, <1>3, <2>2
  <2>4. sym_count' \in Nat /\ Cardinality(Taken(e)) + 1 <= sym_count' + 1
        /\ Cardinality(Taken(e)) + 1 <= mask
    BY <1>2, <1>3, <1>6, <2>1, <2>3
  <2>. QED  BY <1>2, <1>6, <1>8, <1>10, <2>1, <2>4
<1>. QED  BY <1>7, <1>9, <1>10

LEMMA DieKeeps ==
  ASSUME SymbolInv, NEW name \in SymbolName, Die(name)
  PROVE  SymbolInv'
<1>. DEFINE e == symbol_entries
            d == symbol_entries'
<1>1. PICK mask \in Nat : SymbolsFit(mask)
  BY DEF SymbolInv
<1>2. /\ mask > 3 /\ e \in [0..mask -> NameOrNone] /\ NamesSound(e) /\ Names(e) = interned
      /\ Cardinality(Alive(e)) = Cardinality(interned) /\ DOMAIN e = 0..mask
      /\ Cardinality(Taken(e)) <= sym_count + 1 /\ Cardinality(Taken(e)) <= mask
  BY <1>1 DEF SymbolsFit
<1>3. /\ sym_count \in Nat /\ interned \in SUBSET SymbolName /\ IsFiniteSet(interned)
      /\ interned' = interned \ {name} /\ name \in interned /\ sym_count' = sym_count
      /\ d = [i \in 0..mask |-> IF e[i] = name THEN DEAD ELSE e[i]]
  BY <1>2 DEF SymbolInv, Die
<1>4. FREE \notin SymbolName /\ DEAD \notin SymbolName /\ FREE # DEAD
  BY SymbolAssumption
<1>5. /\ d \in [0..mask -> NameOrNone] /\ DOMAIN d = 0..mask
      /\ \A i \in 0..mask : d[i] = IF e[i] = name THEN DEAD ELSE e[i]
  BY <1>2, <1>3 DEF NameOrNone
<1>6. PICK i \in Alive(e) : e[i] = name
  BY <1>2, <1>3 DEF Names
<1>. HIDE DEF e, d
<1>7. \A j \in Alive(e) : j # i => e[j] # name
  BY <1>2, <1>6 DEF NamesSound
<1>8. i \in 0..mask /\ Alive(d) = Alive(e) \ {i} /\ \A j \in Alive(d) : d[j] = e[j] /\ j \in 0..mask
  BY <1>2, <1>4, <1>5, <1>6, <1>7 DEF Alive
<1>9. Taken(d) = Taken(e) /\ \A j \in 0..mask : e[j] # FREE => d[j] # FREE
  BY <1>2, <1>4, <1>5 DEF Taken
<1>10. Names(d) = interned'
  <2>1. Names(d) = {e[j] : j \in Alive(e) \ {i}}
    BY <1>8 DEF Names
  <2>. QED  BY <1>2, <1>3, <1>6, <1>7, <2>1 DEF Names
<1>11. \A k, m : SymbolPlace(d, k, m) = SymbolPlace(e, k, m)
  BY <1>2, <1>5 DEF SymbolPlace, SymbolMask
<1>12. NamesSound(d)
  <2>1. \A a \in Alive(d), b \in Alive(d) : d[a] = d[b] => a = b
    BY <1>2, <1>8 DEF NamesSound
  <2>2. ASSUME NEW a \in Alive(d)
        PROVE  NameReached(d, d[a], a)
    <3>1. d[a] = e[a] /\ a \in Alive(e) /\ d[a] \in SymbolName
      BY <1>8 DEF Alive
    <3>2. NameReached(e, d[a], a)
      BY <1>2, <3>1 DEF NamesSound
    <3>3. PICK p \in 0..mask : /\ SymbolPlace(e, d[a], p) = a
                               /\ \A m \in 0..(p - 1) : e[SymbolPlace(e, d[a], m)] # FREE
      BY <1>2, <3>2 DEF NameReached
    <3>4. ASSUME NEW m \in 0..(p - 1)
          PROVE  d[SymbolPlace(d, d[a], m)] # FREE
      <4>1. m \in 0..mask
        OBVIOUS
      <4>2. SymbolPlace(e, d[a], m) \in 0..mask
        BY <1>2, <3>1, <4>1, SymbolPlaceIs
      <4>. QED  BY <1>9, <1>11, <3>3, <4>2
    <3>. QED  BY <1>5, <1>11, <3>3, <3>4 DEF NameReached
  <2>. QED  BY <2>1, <2>2 DEF NamesSound
<1>13. Cardinality(Alive(d)) = Cardinality(interned')
  <2>1. IsFiniteSet(Alive(e))
    BY <1>2, TakenFinite
  <2>2. Cardinality(Alive(d)) = Cardinality(Alive(e)) - 1
    BY <1>6, <1>8, <2>1, FS_RemoveElement
  <2>3. Cardinality(interned') = Cardinality(interned) - 1
    BY <1>3, FS_RemoveElement
  <2>. QED  BY <1>2, <2>2, <2>3
<1>14. SymbolsFit(mask)'
  BY <1>2, <1>3, <1>5, <1>9, <1>10, <1>12, <1>13 DEF SymbolsFit, e, d
<1>15. interned' \in SUBSET SymbolName /\ IsFiniteSet(interned')
  BY <1>3, FS_RemoveElement
<1>. QED  BY <1>3, <1>14, <1>15 DEF SymbolInv

LEMMA SymbolInvIsSet ==
  ASSUME SymbolInv
  PROVE  IsSet
<1>1. PICK mask \in Nat : SymbolsFit(mask)
  BY DEF SymbolInv
<1>2. /\ symbol_entries \in [0..mask -> NameOrNone] /\ NamesSound(symbol_entries)
      /\ Names(symbol_entries) = interned /\ DOMAIN symbol_entries = 0..mask
      /\ Cardinality(Alive(symbol_entries)) = Cardinality(interned)
      /\ Cardinality(Taken(symbol_entries)) <= mask
  BY <1>1 DEF SymbolsFit
<1>3. \A name \in SymbolName : Finds(symbol_entries, name) <=> name \in interned
  BY <1>2, FindsIs
<1>4. \E i \in 0..mask : symbol_entries[i] = FREE
  <2>1. Cardinality(Taken(symbol_entries)) \in Nat
    BY <1>2, TakenFinite
  <2>2. Cardinality(Taken(symbol_entries)) < mask + 1
    BY <1>2, <2>1
  <2>. QED  BY <1>2, <2>2, TakenFinite
<1>. QED  BY <1>2, <1>3, <1>4 DEF IsSet

\* A table of symbols is a set of names that always has a free entry, for any
\* names and hashes, however symbols come and go (pkg_find_symbol,
\* pkg_put_symbol and dfsch_unintern_symbol, src/src/package.c).
THEOREM SymbolsASet == SymbolSpec => []IsSet
<1>1. SymbolInit => SymbolInv
  BY SymbolInitInv
<1>2. SymbolInv /\ [SymbolNext]_symbolVars => SymbolInv'
  <2>1. SUFFICES ASSUME SymbolInv, [SymbolNext]_symbolVars
                 PROVE  SymbolInv'
    OBVIOUS
  <2>2. CASE UNCHANGED symbolVars
    BY <2>1, <2>2 DEF symbolVars, SymbolInv, SymbolsFit
  <2>3. ASSUME NEW name \in SymbolName, InternSymbol(name) \/ Die(name)
        PROVE  SymbolInv'
    BY <2>1, <2>3, InternKeeps, DieKeeps
  <2>. QED  BY <2>1, <2>2, <2>3 DEF SymbolNext
<1>3. SymbolInv => IsSet
  BY SymbolInvIsSet
<1>. QED  BY <1>1, <1>2, <1>3, PTL DEF SymbolSpec
-----------------------------------------------------------------------------
(* Chains: entries that lead to each other and to an end.                  *)

EntryName == Key \X Nat

\* The entries that follow an entry are of lower and lower rank.
Ranked(heap, N, rank) ==
  /\ rank \in [DOMAIN heap -> 0..N]
  /\ \A n \in DOMAIN heap : heap[n].next # NULL => rank[heap[n].next] < rank[n]

Entries(names) == [key : Key, value : HashValue, next : names \union {NULL}]

Linear(heap) ==
  /\ DOMAIN heap \subseteq EntryName /\ IsFiniteSet(DOMAIN heap)
  /\ heap \in [DOMAIN heap -> Entries(DOMAIN heap)]
  /\ \E N \in Nat : \E rank : Ranked(heap, N, rank)

LEMMA NextIn ==
  ASSUME NEW heap, Linear(heap), NEW n \in DOMAIN heap
  PROVE  /\ n \in EntryName /\ n # NULL /\ heap[n].key \in Key /\ heap[n].value \in HashValue
         /\ heap[n].next \in DOMAIN heap \union {NULL}
<1>1. n \in EntryName /\ heap[n] \in Entries(DOMAIN heap)
  BY DEF Linear
<1>. QED  BY <1>1, HashTableAssumption DEF Entries, EntryName

\* What holds of the end, and of an entry whenever it holds of the next one,
\* holds of all.
LEMMA AlongChains ==
  ASSUME NEW heap, Linear(heap), NEW S, NULL \in S,
         \A n \in DOMAIN heap : heap[n].next \in S => n \in S
  PROVE  \A n \in DOMAIN heap \union {NULL} : n \in S
<1>0. PICK N \in Nat : \E rank : Ranked(heap, N, rank)
  BY DEF Linear
<1>1. PICK rank : Ranked(heap, N, rank)
  BY <1>0
<1>. DEFINE T == {i \in 0..(N + 1) : \A n \in DOMAIN heap : rank[n] < i => n \in S}
<1>2. \A n \in DOMAIN heap : rank[n] \in 0..N
  BY <1>1 DEF Ranked
<1>3. 0 \in T
  BY <1>2
<1>4. ASSUME NEW i \in 0..((N + 1) - 1), i \in T
      PROVE  i + 1 \in T
  <2>1. ASSUME NEW n \in DOMAIN heap, rank[n] < i + 1
        PROVE  n \in S
    <3>1. heap[n].next \in DOMAIN heap \union {NULL}
      BY NextIn
    <3>2. heap[n].next # NULL => rank[heap[n].next] < i
      <4>1. SUFFICES ASSUME heap[n].next # NULL
                     PROVE  rank[heap[n].next] < i
        OBVIOUS
      <4>2. rank[heap[n].next] < rank[n]
        BY <1>1, <4>1 DEF Ranked
      <4>3. rank[heap[n].next] \in 0..N /\ rank[n] \in 0..N
        BY <1>2, <3>1, <4>1
      <4>. QED  BY <2>1, <4>2, <4>3
    <3>3. heap[n].next \in S
      BY <1>4, <3>1, <3>2
    <3>. QED  BY <3>3
  <2>2. i + 1 \in 0..(N + 1)
    OBVIOUS
  <2>. QED  BY <2>1, <2>2
<1>5. N + 1 \in T
  <2>1. N + 1 \in Nat /\ N + 1 \in 0..(N + 1)
    OBVIOUS
  <2>. HIDE DEF T
  <2>. QED  BY <1>3, <1>4, <2>1, Upward
<1>6. \A n \in DOMAIN heap : rank[n] < N + 1
  BY <1>2
<1>. QED  BY <1>5, <1>6

\* The function behind Chain.
ChainsOf(heap, f) ==
  [n \in DOMAIN heap \union {NULL} |-> IF n = NULL THEN <<>> ELSE <<n>> \o f[heap[n].next]]

LEMMA ChainsExist ==
  ASSUME NEW heap, Linear(heap)
  PROVE  \E f : f = ChainsOf(heap, f)
<1>0. PICK N \in Nat : \E rank : Ranked(heap, N, rank)
  BY DEF Linear
<1>1. PICK rank : Ranked(heap, N, rank)
  BY <1>0
<1>. DEFINE D == DOMAIN heap
            X == [D \union {NULL} -> Seq(D)]
            M == N + 2
            base == [n \in D \union {NULL} |-> <<>>]
            step == [p \in (1..M) \X X |-> ChainsOf(heap, p[2])]
<1>2. ASSUME NEW f \in X
      PROVE  ChainsOf(heap, f) \in X
  <2>1. ASSUME NEW n \in D
        PROVE  <<n>> \o f[heap[n].next] \in Seq(D)
    <3>1. heap[n].next \in D \union {NULL}
      BY NextIn
    <3>2. f[heap[n].next] \in Seq(D) /\ <<n>> \in Seq(D)
      BY <3>1
    <3>. QED  BY <3>2
  <2>2. <<>> \in Seq(D)
    OBVIOUS
  <2>. QED  BY <2>1, <2>2 DEF ChainsOf
<1>3. base \in X /\ M \in Nat
  OBVIOUS
<1>4. step \in [(1..M) \X X -> X]
  <2>. HIDE DEF X
  <2>. QED  BY <1>2
<1>5. PICK F \in [0..M -> X] : Follows(F, M, base, step)
  <2>. HIDE DEF X, M, base, step
  <2>. QED  BY <1>3, <1>4, Recursion
<1>6. ASSUME NEW i \in 0..(N + 1)
      PROVE  F[i] \in X /\ F[i + 1] = ChainsOf(heap, F[i])
  <2>1. i + 1 \in 1..M /\ (i + 1) - 1 = i /\ i \in 0..M
    OBVIOUS
  <2>2. F[i] \in X
    BY <2>1
  <2>3. F[i + 1] = step[<<i + 1, F[i]>>]
    <3>. HIDE DEF step, M
    <3>. QED  BY <1>5, <2>1 DEF Follows
  <2>. HIDE DEF X, M
  <2>. QED  BY <2>1, <2>2, <2>3
<1>. DEFINE T == {i \in 0..(N + 1) : \A n \in D : rank[n] < i => F[i + 1][n] = F[i][n]}
<1>7. \A n \in D : rank[n] \in 0..N
  BY <1>1 DEF Ranked
<1>8. 0 \in T
  BY <1>7
<1>9. ASSUME NEW i \in 0..(N + 1) PROVE F[i][NULL] = <<>>
  <2>1. CASE i = 0
    <3>1. F[0] = base
      <4>. HIDE DEF base
      <4>. QED  BY <1>5 DEF Follows
    <3>. QED  BY <2>1, <3>1
  <2>2. CASE i # 0
    <3>1. i - 1 \in 0..(N + 1) /\ (i - 1) + 1 = i
      BY <2>2
    <3>2. F[i] = ChainsOf(heap, F[i - 1])
      BY <1>6, <3>1
    <3>. QED  BY <3>2 DEF ChainsOf
  <2>. QED  BY <2>1, <2>2
<1>10. ASSUME NEW i \in 0..((N + 1) - 1), i \in T
       PROVE  i + 1 \in T
  <2>1. i + 1 \in 0..(N + 1) /\ i \in 0..(N + 1)
    OBVIOUS
  <2>2. ASSUME NEW n \in D, rank[n] < i + 1
        PROVE  F[(i + 1) + 1][n] = F[i + 1][n]
    <3>1. heap[n].next \in D \union {NULL} /\ n # NULL
      BY NextIn
    <3>2. /\ F[(i + 1) + 1][n] = <<n>> \o F[i + 1][heap[n].next]
          /\ F[i + 1][n] = <<n>> \o F[i][heap[n].next]
      <4>1. F[(i + 1) + 1] = ChainsOf(heap, F[i + 1])
        BY <1>6, <2>1
      <4>2. F[i + 1] = ChainsOf(heap, F[i])
        BY <1>6, <2>1
      <4>3. \A f : ChainsOf(heap, f)[n] = <<n>> \o f[heap[n].next]
        BY <3>1 DEF ChainsOf
      <4>4. F[(i + 1) + 1][n] = <<n>> \o F[i + 1][heap[n].next]
        BY ONLY <4>1, <4>3
      <4>5. F[i + 1][n] = <<n>> \o F[i][heap[n].next]
        BY ONLY <4>2, <4>3
      <4>. QED  BY <4>4, <4>5
    <3>3. F[i + 1][heap[n].next] = F[i][heap[n].next]
      <4>1. CASE heap[n].next = NULL
        BY <1>9, <2>1, <4>1
      <4>2. CASE heap[n].next # NULL
        <5>1. rank[heap[n].next] < rank[n]
          BY <1>1, <4>2 DEF Ranked
        <5>2. rank[heap[n].next] \in 0..N /\ rank[n] \in 0..N /\ heap[n].next \in D
          BY <1>7, <3>1, <4>2
        <5>3. rank[heap[n].next] < i
          <6>1. rank[heap[n].next] \in Nat /\ rank[n] \in Nat /\ i \in Nat
            BY <5>2
          <6>. QED  BY ONLY <2>2, <5>1, <6>1
        <5>4. \A m \in D : rank[m] < i => F[i + 1][m] = F[i][m]
          BY <1>10
        <5>. QED  BY ONLY <5>2, <5>3, <5>4
      <4>. QED  BY <4>1, <4>2
    <3>. QED  BY <3>2, <3>3
  <2>. QED  BY <2>1, <2>2
<1>11. N + 1 \in T
  <2>1. N + 1 \in Nat /\ N + 1 \in 0..(N + 1)
    OBVIOUS
  <2>. HIDE DEF T
  <2>. QED  BY <1>8, <1>10, <2>1, Upward
<1>. DEFINE f == F[N + 1]
            g == F[(N + 1) + 1]
<1>12. N + 1 \in 0..(N + 1) /\ (N + 1) + 1 \in 0..M
  OBVIOUS
<1>13. f \in X /\ g \in X /\ g = ChainsOf(heap, f)
  BY <1>6, <1>12
<1>14. \A n \in D : g[n] = f[n]
  <2>1. \A n \in D : rank[n] < N + 1
    BY <1>7
  <2>. QED  BY <1>11, <2>1
<1>15. g[NULL] = f[NULL]
  <2>1. g[NULL] = <<>>
    <3>. HIDE DEF f, g
    <3>. QED  BY <1>13 DEF ChainsOf
  <2>2. f[NULL] = <<>>
    BY <1>9, <1>12
  <2>. QED  BY <2>1, <2>2
<1>16. g = f
  <2>. HIDE DEF f, g
  <2>. QED  BY <1>13, <1>14, <1>15
<1>. QED  BY <1>13, <1>16

LEMMA ChainIs ==
  ASSUME NEW heap, Linear(heap)
  PROVE  /\ Chain(heap, NULL) = <<>>
         /\ \A n \in DOMAIN heap : Chain(heap, n) = <<n>> \o Chain(heap, heap[n].next)
         /\ \A n \in DOMAIN heap \union {NULL} : Chain(heap, n) \in Seq(DOMAIN heap)
<1>. DEFINE from == CHOOSE f : f = ChainsOf(heap, f)
<1>1. from = ChainsOf(heap, from)
  BY ChainsExist
<1>2. \A e : Chain(heap, e) = from[e]
  BY DEF Chain, ChainsOf
<1>. HIDE DEF from
<1>3. from[NULL] = <<>>
  BY <1>1 DEF ChainsOf
<1>4. ASSUME NEW n \in DOMAIN heap
      PROVE  from[n] = <<n>> \o from[heap[n].next]
  <2>1. n # NULL
    BY NextIn
  <2>2. ChainsOf(heap, from)[n] = <<n>> \o from[heap[n].next]
    BY <2>1 DEF ChainsOf
  <2>. QED  BY ONLY <1>1, <2>2
<1>5. \A n \in DOMAIN heap \union {NULL} : Chain(heap, n) \in Seq(DOMAIN heap)
  <2>. DEFINE S == {n \in DOMAIN heap \union {NULL} : from[n] \in Seq(DOMAIN heap)}
  <2>1. NULL \in S
    <3>1. <<>> \in Seq(DOMAIN heap)
      OBVIOUS
    <3>. QED  BY <1>3, <3>1
  <2>2. ASSUME NEW n \in DOMAIN heap, heap[n].next \in S
        PROVE  n \in S
    <3>1. <<n>> \in Seq(DOMAIN heap) /\ from[heap[n].next] \in Seq(DOMAIN heap)
      BY <2>2
    <3>2. <<n>> \o from[heap[n].next] \in Seq(DOMAIN heap)
      BY <3>1
    <3>. QED  BY <1>4, <3>2
  <2>3. \A n \in DOMAIN heap \union {NULL} : n \in S
    <3>. HIDE DEF S
    <3>. QED  BY <2>1, <2>2, AlongChains
  <2>. QED  BY <1>2, <2>3
<1>. QED  BY <1>2, <1>3, <1>4, <1>5

-----------------------------------------------------------------------------
(* The entries on a chain.                                                 *)

On(heap, n) == ToSet(Chain(heap, n))

LEMMA ToSetOfCons ==
  ASSUME NEW S, NEW c \in Seq(S), NEW x \in S
  PROVE  ToSet(<<x>> \o c) = {x} \union ToSet(c)
<1>. DEFINE d == <<x>> \o c
<1>1. d \in Seq(S) /\ Len(d) = Len(c) + 1 /\ d[1] = x /\ \A i \in 1..Len(c) : d[i + 1] = c[i]
  OBVIOUS
<1>2. DOMAIN d = 1..(Len(c) + 1) /\ DOMAIN c = 1..Len(c) /\ Len(c) \in Nat
  BY <1>1
<1>. HIDE DEF d
<1>3. ToSet(d) \subseteq {x} \union ToSet(c)
  <2>1. SUFFICES ASSUME NEW i \in 1..(Len(c) + 1)
                 PROVE  d[i] \in {x} \union ToSet(c)
    BY <1>2 DEF ToSet
  <2>2. CASE i = 1
    BY <1>1, <2>2
  <2>3. CASE i # 1
    <3>1. i - 1 \in 1..Len(c) /\ (i - 1) + 1 = i
      BY <1>2, <2>3
    <3>2. d[i] = c[i - 1]
      BY <1>1, <3>1
    <3>. QED  BY <1>2, <3>1, <3>2 DEF ToSet
  <2>. QED  BY <2>2, <2>3
<1>4. x \in ToSet(d)
  <2>1. 1 \in 1..(Len(c) + 1)
    BY <1>2
  <2>. QED  BY <1>1, <1>2, <2>1 DEF ToSet
<1>5. ToSet(c) \subseteq ToSet(d)
  <2>1. SUFFICES ASSUME NEW i \in 1..Len(c)
                 PROVE  c[i] \in ToSet(d)
    BY <1>2 DEF ToSet
  <2>2. i + 1 \in 1..(Len(c) + 1)
    BY <1>2
  <2>. QED  BY <1>1, <1>2, <2>2 DEF ToSet
<1>6. ToSet(d) = {x} \union ToSet(c)
  BY <1>3, <1>4, <1>5
<1>. QED  BY <1>6 DEF d

LEMMA OnIs ==
  ASSUME NEW heap, Linear(heap)
  PROVE  /\ On(heap, NULL) = {}
         /\ \A n \in DOMAIN heap : On(heap, n) = {n} \union On(heap, heap[n].next)
         /\ \A n \in DOMAIN heap \union {NULL} : On(heap, n) \subseteq DOMAIN heap
<1>1. On(heap, NULL) = {}
  <2>1. ToSet(<<>>) = {}
    BY DEF ToSet
  <2>. QED  BY <2>1, ChainIs DEF On
<1>2. ASSUME NEW n \in DOMAIN heap
      PROVE  On(heap, n) = {n} \union On(heap, heap[n].next)
  <2>1. heap[n].next \in DOMAIN heap \union {NULL}
    BY NextIn
  <2>2. Chain(heap, heap[n].next) \in Seq(DOMAIN heap)
    BY <2>1, ChainIs
  <2>3. Chain(heap, n) = <<n>> \o Chain(heap, heap[n].next)
    BY ChainIs
  <2>. QED  BY <2>2, <2>3, ToSetOfCons DEF On
<1>3. ASSUME NEW n \in DOMAIN heap \union {NULL}
      PROVE  On(heap, n) \subseteq DOMAIN heap
  <2>1. Chain(heap, n) \in Seq(DOMAIN heap)
    BY ChainIs
  <2>. QED  BY <2>1 DEF On, ToSet
<1>. QED  BY <1>1, <1>2, <1>3

\* The chain of an entry on a chain is part of it, up to its end.
LEMMA OnFurther ==
  ASSUME NEW heap, Linear(heap), NEW n \in DOMAIN heap \union {NULL}, NEW m \in On(heap, n)
  PROVE  On(heap, m) \subseteq On(heap, n) /\ heap[m].next \in On(heap, n) \union {NULL}
<1>. DEFINE Good(x) == \A e \in On(heap, x) : /\ On(heap, e) \subseteq On(heap, x)
                                              /\ heap[e].next \in On(heap, x) \union {NULL}
            S == {x \in DOMAIN heap \union {NULL} : Good(x)}
<1>1. NULL \in S
  BY OnIs
<1>2. ASSUME NEW x \in DOMAIN heap, heap[x].next \in S
      PROVE  x \in S
  <2>1. On(heap, x) = {x} \union On(heap, heap[x].next)
    BY OnIs
  <2>2. heap[x].next # NULL => heap[x].next \in On(heap, heap[x].next)
    <3>1. heap[x].next \in DOMAIN heap \union {NULL}
      BY NextIn
    <3>. QED  BY <3>1, OnIs
  <2>3. Good(heap[x].next)
    BY <1>2
  <2>. QED  BY <2>1, <2>2, <2>3
<1>3. \A x \in DOMAIN heap \union {NULL} : x \in S
  <2>. HIDE DEF S
  <2>. QED  BY <1>1, <1>2, AlongChains
<1>. QED  BY <1>3

\* No chain leads back to an entry.
LEMMA OnForward ==
  ASSUME NEW heap, Linear(heap), NEW n \in DOMAIN heap
  PROVE  /\ n \notin On(heap, heap[n].next)
         /\ \A m \in On(heap, heap[n].next) : n \notin On(heap, m)
<1>0. PICK N \in Nat : \E rank : Ranked(heap, N, rank)
  BY DEF Linear
<1>1. PICK rank : Ranked(heap, N, rank)
  BY <1>0
<1>2. \A m \in DOMAIN heap : rank[m] \in 0..N
  BY <1>1 DEF Ranked
<1>. DEFINE S == {x \in DOMAIN heap \union {NULL} : \A m \in On(heap, x) : rank[m] <= rank[x]}
<1>3. NULL \in S
  BY OnIs
<1>4. ASSUME NEW x \in DOMAIN heap, heap[x].next \in S
      PROVE  x \in S
  <2>1. On(heap, x) = {x} \union On(heap, heap[x].next)
    BY OnIs
  <2>2. heap[x].next \in DOMAIN heap \union {NULL}
    BY NextIn
  <2>3. SUFFICES ASSUME NEW m \in On(heap, heap[x].next)
                 PROVE  rank[m] <= rank[x]
    BY <1>2, <2>1
  <2>4. heap[x].next # NULL
    BY OnIs
  <2>5. rank[heap[x].next] < rank[x]
    BY <1>1, <2>4 DEF Ranked
  <2>6. rank[m] <= rank[heap[x].next]
    BY <1>4
  <2>7. m \in DOMAIN heap
    BY <2>2, OnIs
  <2>8. rank[m] \in 0..N /\ rank[x] \in 0..N /\ rank[heap[x].next] \in 0..N
    BY <1>2, <2>2, <2>4, <2>7
  <2>. QED  BY <2>5, <2>6, <2>8
<1>5. \A x \in DOMAIN heap \union {NULL} : x \in S
  <2>. HIDE DEF S
  <2>. QED  BY <1>3, <1>4, AlongChains
<1>6. heap[n].next \in DOMAIN heap \union {NULL}
  BY NextIn
<1>7. n \notin On(heap, heap[n].next)
  <2>1. SUFFICES ASSUME n \in On(heap, heap[n].next)
                 PROVE  FALSE
    OBVIOUS
  <2>2. heap[n].next # NULL
    BY <2>1, OnIs
  <2>3. rank[heap[n].next] < rank[n] /\ rank[n] <= rank[heap[n].next]
    BY <1>1, <1>5, <1>6, <2>1, <2>2 DEF Ranked
  <2>4. rank[heap[n].next] \in 0..N /\ rank[n] \in 0..N
    BY <1>2, <1>6, <2>2
  <2>. QED  BY <2>3, <2>4
<1>8. ASSUME NEW m \in On(heap, heap[n].next)
      PROVE  n \notin On(heap, m)
  BY <1>6, <1>7, OnFurther
<1>. QED  BY <1>7, <1>8

\* An entry on a chain is its first or the next of one on it.
LEMMA OnBefore ==
  ASSUME NEW heap, Linear(heap), NEW n \in DOMAIN heap \union {NULL}, NEW e \in On(heap, n),
         e # n
  PROVE  \E m \in On(heap, n) : heap[m].next = e
<1>. DEFINE Good(x) == \A d \in On(heap, x) : d = x \/ \E m \in On(heap, x) : heap[m].next = d
            S == {x \in DOMAIN heap \union {NULL} : Good(x)}
<1>1. NULL \in S
  BY OnIs
<1>2. ASSUME NEW x \in DOMAIN heap, heap[x].next \in S
      PROVE  x \in S
  <2>1. On(heap, x) = {x} \union On(heap, heap[x].next)
    BY OnIs
  <2>2. Good(heap[x].next)
    BY <1>2
  <2>. QED  BY <2>1, <2>2
<1>3. \A x \in DOMAIN heap \union {NULL} : x \in S
  <2>. HIDE DEF S
  <2>. QED  BY <1>1, <1>2, AlongChains
<1>. QED  BY <1>3

\* Two heaps in which the entries of one lead to the same others.
LEMMA SameChains ==
  ASSUME NEW heap, NEW g, Linear(heap), Linear(g), DOMAIN heap \subseteq DOMAIN g,
         \A n \in DOMAIN heap : g[n].next = heap[n].next
  PROVE  \A n \in DOMAIN heap \union {NULL} : Chain(g, n) = Chain(heap, n)
<1>. DEFINE S == {n \in DOMAIN heap \union {NULL} : Chain(g, n) = Chain(heap, n)}
<1>1. NULL \in S
  BY ChainIs
<1>2. ASSUME NEW n \in DOMAIN heap, heap[n].next \in S
      PROVE  n \in S
  <2>1. Chain(g, n) = <<n>> \o Chain(g, g[n].next)
    BY ChainIs
  <2>2. Chain(heap, n) = <<n>> \o Chain(heap, heap[n].next)
    BY ChainIs
  <2>. QED  BY <1>2, <2>1, <2>2
<1>3. \A n \in DOMAIN heap \union {NULL} : n \in S
  <2>. HIDE DEF S
  <2>. QED  BY <1>1, <1>2, AlongChains
<1>. QED  BY <1>3

-----------------------------------------------------------------------------
(* Tables.                                                                 *)

IsRecord(t) ==
  \E vector, mask, amount, heap :
    t = [vector |-> vector, mask |-> mask, count |-> amount, heap |-> heap]

IsTable(t) ==
  /\ IsRecord(t) /\ t.mask \in Nat /\ Linear(t.heap)
  /\ t.vector \in [0..t.mask -> DOMAIN t.heap \union {NULL}]

Mine(t, b) == On(t.heap, t.vector[b])

\* Every entry is in the bucket it is looked for in, and no key has two.
Placed(t) ==
  \A b \in Buckets(t) : \A e \in Mine(t, b) : Bucket(Hash[t.heap[e].key], t.mask) = b
Once(t) == \A d, e \in Linked(t) : t.heap[d].key = t.heap[e].key => d = e

Stores(t, k, x) == \E e \in Linked(t) : t.heap[e].key = k /\ t.heap[e].value = x

WithFields(t, vector, mask, amount, heap) ==
  IsRecord(t) /\ t.vector = vector /\ t.mask = mask /\ t.count = amount /\ t.heap = heap

LEMMA RecordWith ==
  ASSUME NEW t, IsRecord(t), NEW x
  PROVE  /\ WithFields([t EXCEPT !.vector = x], x, t.mask, t.count, t.heap)
         /\ WithFields([t EXCEPT !.mask = x], t.vector, x, t.count, t.heap)
         /\ WithFields([t EXCEPT !.count = x], t.vector, t.mask, x, t.heap)
         /\ WithFields([t EXCEPT !.heap = x], t.vector, t.mask, t.count, x)
<1>1. PICK v, m, c, h : t = [vector |-> v, mask |-> m, count |-> c, heap |-> h]
  BY DEF IsRecord
<1>2. /\ [t EXCEPT !.vector = x] = [vector |-> x, mask |-> m, count |-> c, heap |-> h]
      /\ [t EXCEPT !.mask = x] = [vector |-> v, mask |-> x, count |-> c, heap |-> h]
      /\ [t EXCEPT !.count = x] = [vector |-> v, mask |-> m, count |-> x, heap |-> h]
      /\ [t EXCEPT !.heap = x] = [vector |-> v, mask |-> m, count |-> c, heap |-> x]
  BY <1>1
<1>3. t.vector = v /\ t.mask = m /\ t.count = c /\ t.heap = h
  BY <1>1
<1>4. \A a, p, d, g : WithFields([vector |-> a, mask |-> p, count |-> d, heap |-> g], a, p, d, g)
  BY DEF WithFields, IsRecord
<1>. QED  BY <1>2, <1>3, <1>4

LEMMA BucketIn ==
  ASSUME NEW k \in Key, NEW mask \in Nat
  PROVE  Bucket(Hash[k], mask) \in 0..mask /\ Bucket(dfsch_hash[k], mask) \in 0..mask
<1>1. Hash[k] \in Nat /\ dfsch_hash[k] \in Nat
  BY HashTableAssumption
<1>2. mask + 1 \in Nat /\ mask + 1 > 0 /\ (mask + 1) - 1 = mask
  OBVIOUS
<1>3. \A h \in Nat, s \in Nat : s > 0 => h % s \in 0..(s - 1)
  OBVIOUS
<1>. QED  BY <1>1, <1>2, <1>3 DEF Bucket

LEMMA LinkedIs ==
  ASSUME NEW t
  PROVE  Linked(t) = UNION {Mine(t, b) : b \in Buckets(t)}
BY DEF Linked, Mine, InBucket, On

LEMMA BucketIs ==
  ASSUME NEW t, IsTable(t), NEW b \in Buckets(t)
  PROVE  /\ t.vector[b] \in DOMAIN t.heap \union {NULL}
         /\ ToSet(InBucket(t, b)) = Mine(t, b)
         /\ Mine(t, b) \subseteq DOMAIN t.heap /\ Mine(t, b) \subseteq Linked(t)
         /\ t.vector[b] # NULL => t.vector[b] \in Mine(t, b)
<1>1. t.vector[b] \in DOMAIN t.heap \union {NULL} /\ Linear(t.heap)
  BY DEF IsTable, Buckets
<1>2. ToSet(InBucket(t, b)) = Mine(t, b)
  BY DEF InBucket, Mine, On
<1>3. Mine(t, b) \subseteq DOMAIN t.heap
  BY <1>1, OnIs DEF Mine
<1>4. t.vector[b] # NULL => t.vector[b] \in Mine(t, b)
  BY <1>1, OnIs DEF Mine
<1>5. Mine(t, b) \subseteq Linked(t)
  BY LinkedIs
<1>. QED  BY <1>1, <1>2, <1>3, <1>4, <1>5

LEMMA LinkedIn ==
  ASSUME NEW t, IsTable(t)
  PROVE  Linked(t) \subseteq DOMAIN t.heap
BY BucketIs, LinkedIs

\* A free name is found.
LEMMA FreshIs ==
  ASSUME NEW heap, IsFiniteSet(DOMAIN heap), NEW k \in Key
  PROVE  Fresh(heap, k) \in EntryName /\ Fresh(heap, k) \notin DOMAIN heap
<1>. DEFINE n == Cardinality(DOMAIN heap)
            Free(i) == <<k, i>> \notin DOMAIN heap
<1>1. n \in Nat
  BY FS_CardinalityType
<1>2. \E i \in 0..n : Free(i)
  <2>1. SUFFICES ASSUME \A i \in 0..n : ~Free(i)
                 PROVE  FALSE
    OBVIOUS
  <2>. DEFINE f == [i \in 0..n |-> <<k, i>>]
  <2>2. f \in Injection(0..n, DOMAIN heap)
    <3>1. f \in [0..n -> DOMAIN heap]
      BY <2>1
    <3>2. \A i, j \in 0..n : f[i] = f[j] => i = j
      OBVIOUS
    <3>. HIDE DEF f, n
    <3>. QED  BY <3>1, <3>2 DEF Injection, IsInjective
  <2>3. Cardinality(0..n) <= n
    <3>. HIDE DEF f
    <3>. QED  BY <2>2, FS_Injection
  <2>4. Cardinality(0..n) = n + 1
    <3>. HIDE DEF n
    <3>. QED  BY <1>1, FS_Interval
  <2>. HIDE DEF n
  <2>. QED  BY <1>1, <2>3, <2>4
<1>. DEFINE c == CHOOSE i \in 0..n : Free(i)
<1>3. c \in 0..n /\ Free(c)
  <2>. HIDE DEF n, Free
  <2>. QED  BY <1>2
<1>4. Fresh(heap, k) = <<k, c>>
  BY DEF Fresh
<1>5. c \in Nat
  <2>. HIDE DEF c, n
  <2>. QED  BY <1>1, <1>3
<1>. HIDE DEF c
<1>. QED  BY <1>3, <1>4, <1>5 DEF EntryName

-----------------------------------------------------------------------------
(* One entry put in front of its bucket.                                   *)

Extends(h, g) == DOMAIN h \subseteq DOMAIN g /\ \A n \in DOMAIN h : g[n] = h[n]

\* Entry x of key k and value v is in front of the others of its bucket.
InFront(t, u, x, k, v) ==
  LET b == Bucket(Hash[k], t.mask)
  IN  /\ x \in DOMAIN u.heap /\ u.heap[x].key = k /\ u.heap[x].value = v
      /\ u.heap[x].next = t.vector[b]
      /\ u.vector = [t.vector EXCEPT ![b] = x]

Added(t, u, k, v) ==
  /\ IsTable(u) /\ u.mask = t.mask /\ u.count = t.count /\ Extends(t.heap, u.heap)
  /\ \E x : InFront(t, u, x, k, v)

\* A new entry that leads to one there is, or to none.
LEMMA LinearWith ==
  ASSUME NEW heap, Linear(heap), NEW x \in EntryName \ DOMAIN heap,
         NEW entry \in Entries(DOMAIN heap)
  PROVE  Linear([e \in DOMAIN heap \union {x} |-> IF e = x THEN entry ELSE heap[e]])
<1>. DEFINE g == [e \in DOMAIN heap \union {x} |-> IF e = x THEN entry ELSE heap[e]]
<1>1. DOMAIN g = DOMAIN heap \union {x} /\ g[x] = entry /\ \A n \in DOMAIN heap : g[n] = heap[n]
  OBVIOUS
<1>2. DOMAIN g \subseteq EntryName /\ IsFiniteSet(DOMAIN g)
  <2>1. DOMAIN heap \subseteq EntryName /\ IsFiniteSet(DOMAIN heap)
    BY DEF Linear
  <2>2. IsFiniteSet(DOMAIN heap \union {x})
    BY <2>1, FS_AddElement
  <2>. QED  BY <2>1, <2>2
<1>3. g \in [DOMAIN g -> Entries(DOMAIN g)]
  <2>1. ASSUME NEW n \in DOMAIN g
        PROVE  g[n] \in Entries(DOMAIN g)
    <3>1. Entries(DOMAIN heap) \subseteq Entries(DOMAIN g)
      BY DEF Entries
    <3>2. g[n] \in Entries(DOMAIN heap)
      BY <1>1 DEF Linear
    <3>. HIDE DEF g
    <3>. QED  BY <3>1, <3>2
  <2>. QED  BY <2>1
<1>0. PICK N \in Nat : \E rank : Ranked(heap, N, rank)
  BY DEF Linear
<1>4. PICK rank : Ranked(heap, N, rank)
  BY <1>0
<1>. DEFINE above == [e \in DOMAIN g |-> IF e = x THEN N + 1 ELSE rank[e]]
<1>5. \A n \in DOMAIN heap : rank[n] \in 0..N
  BY <1>4 DEF Ranked
<1>6. above \in [DOMAIN g -> 0..(N + 1)] /\ above[x] = N + 1
      /\ \A n \in DOMAIN heap : above[n] = rank[n]
  <2>1. \A n \in DOMAIN heap : n # x
    OBVIOUS
  <2>2. \A n \in DOMAIN g : above[n] \in 0..(N + 1)
    <3>. HIDE DEF g
    <3>. QED  BY <1>1, <1>5
  <2>. HIDE DEF g
  <2>. QED  BY <1>1, <2>1, <2>2
<1>7. ASSUME NEW n \in DOMAIN g, g[n].next # NULL
      PROVE  above[g[n].next] < above[n]
  <2>. HIDE DEF g, above
  <2>1. CASE n = x
    <3>1. g[n].next \in DOMAIN heap
      BY <1>1, <1>7, <2>1 DEF Entries
    <3>2. above[g[n].next] \in 0..N
      BY <1>5, <1>6, <3>1
    <3>. QED  BY <1>6, <2>1, <3>2
  <2>2. CASE n # x
    <3>1. n \in DOMAIN heap /\ g[n] = heap[n]
      BY <1>1, <2>2
    <3>2. heap[n].next \in DOMAIN heap
      BY <1>7, <3>1, NextIn
    <3>3. rank[heap[n].next] < rank[n]
      BY <1>4, <1>7, <3>1 DEF Ranked
    <3>. QED  BY <1>6, <3>1, <3>2, <3>3
  <2>. QED  BY <2>1, <2>2
<1>8. N + 1 \in Nat /\ Ranked(g, N + 1, above)
  <2>. HIDE DEF g, above
  <2>. QED  BY <1>6, <1>7 DEF Ranked
<1>. HIDE DEF above, g
<1>9. Linear(g)
  BY <1>2, <1>3, <1>8 DEF Linear
<1>. QED  BY <1>9 DEF g

LEMMA PrependIs ==
  ASSUME NEW t, IsTable(t), NEW k \in Key, NEW v \in HashValue
  PROVE  Added(t, Prepend(t, k, v), k, v)
<1>. DEFINE b == Bucket(Hash[k], t.mask)
            x == Fresh(t.heap, k)
            entry == [key |-> k, value |-> v, next |-> t.vector[b]]
            heap == [e \in DOMAIN t.heap \union {x} |-> IF e = x THEN entry ELSE t.heap[e]]
            vector == [t.vector EXCEPT ![b] = x]
            w == [t EXCEPT !.vector = vector]
            u == [w EXCEPT !.heap = heap]
<1>1. IsRecord(t) /\ t.mask \in Nat /\ Linear(t.heap)
      /\ t.vector \in [0..t.mask -> DOMAIN t.heap \union {NULL}]
  BY DEF IsTable
<1>2. b \in 0..t.mask
  BY <1>1, BucketIn
<1>3. x \in EntryName /\ x \notin DOMAIN t.heap
  BY <1>1, FreshIs DEF Linear
<1>4. Prepend(t, k, v) = u
  <2>1. PICK tv, m, c, h : t = [vector |-> tv, mask |-> m, count |-> c, heap |-> h]
    BY <1>1 DEF IsRecord
  <2>2. t.vector = tv /\ t.heap = h
    BY <2>1
  <2>3. Prepend(t, k, v) = [t EXCEPT !.vector[b] = x,
                              !.heap = [e \in DOMAIN @ \union {x} |-> IF e = x THEN entry ELSE @[e]]]
    BY DEF Prepend
  <2>. HIDE DEF b, x, entry
  <2>. QED  BY <2>1, <2>2, <2>3
<1>. HIDE DEF u, w
<1>5. IsRecord(w) /\ w.vector = vector /\ w.mask = t.mask /\ w.count = t.count /\ w.heap = t.heap
  <2>. HIDE DEF vector
  <2>1. WithFields(w, vector, t.mask, t.count, t.heap)
    BY <1>1, RecordWith DEF w
  <2>. QED  BY <2>1 DEF WithFields
<1>6. IsRecord(u) /\ u.vector = vector /\ u.mask = t.mask /\ u.count = t.count /\ u.heap = heap
  <2>. HIDE DEF vector, heap
  <2>1. WithFields(u, w.vector, w.mask, w.count, heap)
    BY <1>5, RecordWith DEF u
  <2>. QED  BY <1>5, <2>1 DEF WithFields
<1>7. t.vector[b] \in DOMAIN t.heap \union {NULL}
  BY <1>1, <1>2
<1>8. entry \in Entries(DOMAIN t.heap)
  <2>. HIDE DEF b
  <2>. QED  BY <1>7 DEF Entries
<1>9. Linear(heap)
  <2>1. x \in EntryName \ DOMAIN t.heap
    BY <1>3
  <2>. HIDE DEF entry, x
  <2>. QED  BY <1>1, <1>8, <2>1, LinearWith
<1>10. DOMAIN heap = DOMAIN t.heap \union {x} /\ heap[x] = entry
       /\ \A n \in DOMAIN t.heap : heap[n] = t.heap[n]
  <2>. HIDE DEF entry, x
  <2>. QED  BY <1>3
<1>11. vector \in [0..t.mask -> DOMAIN heap \union {NULL}]
  <2>. HIDE DEF heap, x, b
  <2>. QED  BY <1>1, <1>10
<1>12. IsTable(u)
  <2>. HIDE DEF heap, vector
  <2>. QED  BY <1>1, <1>6, <1>9, <1>11 DEF IsTable
<1>13. Extends(t.heap, u.heap)
  <2>. HIDE DEF heap, x
  <2>. QED  BY <1>6, <1>10 DEF Extends
<1>14. InFront(t, u, x, k, v)
  <2>1. heap[x].key = k /\ heap[x].value = v /\ heap[x].next = t.vector[b]
    <3>. HIDE DEF heap, x, b
    <3>. QED  BY <1>10
  <2>. HIDE DEF heap, x
  <2>. QED  BY <1>6, <1>10, <2>1 DEF InFront
<1>. HIDE DEF x
<1>. QED  BY <1>4, <1>6, <1>12, <1>13, <1>14 DEF Added

LEMMA MoveIsAdded ==
  ASSUME NEW t, IsTable(t), NEW e \in DOMAIN t.heap
  PROVE  Added(t, Move(t, e), t.heap[e].key, t.heap[e].value)
<1>. DEFINE k == t.heap[e].key
            b == Bucket(Hash[k], t.mask)
            vector == [t.vector EXCEPT ![b] = e]
            u == [t EXCEPT !.vector = vector]
<1>1. IsRecord(t) /\ t.mask \in Nat /\ Linear(t.heap)
      /\ t.vector \in [0..t.mask -> DOMAIN t.heap \union {NULL}]
  BY DEF IsTable
<1>2. k \in Key /\ t.heap[e].value \in HashValue
  BY <1>1, NextIn
<1>3. CASE t.heap[e].next # t.vector[b]
  <2>1. Move(t, e) = Prepend(t, k, t.heap[e].value)
    BY <1>3 DEF Move
  <2>. HIDE DEF k
  <2>2. Added(t, Prepend(t, k, t.heap[e].value), k, t.heap[e].value)
    BY <1>2, PrependIs
  <2>. QED  BY <2>1, <2>2 DEF k
<1>4. CASE t.heap[e].next = t.vector[b]
  <2>1. Move(t, e) = u
    <3>1. PICK tv, m, c, h : t = [vector |-> tv, mask |-> m, count |-> c, heap |-> h]
      BY <1>1 DEF IsRecord
    <3>2. t.vector = tv
      BY <3>1
    <3>3. Move(t, e) = [t EXCEPT !.vector[b] = e]
      BY <1>4 DEF Move
    <3>. HIDE DEF b
    <3>. QED  BY <3>1, <3>2, <3>3
  <2>2. IsRecord(u) /\ u.vector = vector /\ u.mask = t.mask /\ u.count = t.count /\ u.heap = t.heap
    <3>1. WithFields(u, vector, t.mask, t.count, t.heap)
      <4>. HIDE DEF vector
      <4>. QED  BY <1>1, RecordWith
    <3>. QED  BY <3>1 DEF WithFields
  <2>3. b \in 0..t.mask
    <3>. HIDE DEF k
    <3>. QED  BY <1>1, <1>2, BucketIn
  <2>4. vector \in [0..t.mask -> DOMAIN t.heap \union {NULL}]
    <3>. HIDE DEF b
    <3>. QED  BY <1>1, <2>3
  <2>. HIDE DEF u, vector
  <2>5. IsTable(u) /\ Extends(t.heap, u.heap)
    BY <1>1, <2>2, <2>4 DEF IsTable, Extends
  <2>6. InFront(t, u, e, k, t.heap[e].value)
    BY <1>4, <2>2 DEF InFront, vector
  <2>. QED  BY <2>1, <2>2, <2>5, <2>6 DEF Added
<1>. QED  BY <1>3, <1>4

LEMMA AddedHas ==
  ASSUME NEW t, IsTable(t), NEW k \in Key, NEW v, NEW u, Added(t, u, k, v)
  PROVE  \E x \in DOMAIN u.heap :
           /\ u.heap[x].key = k /\ u.heap[x].value = v
           /\ \A b \in Buckets(t) :
                Mine(u, b) = IF b = Bucket(Hash[k], t.mask) THEN {x} \union Mine(t, b) ELSE Mine(t, b)
           /\ Linked(u) = Linked(t) \union {x}
           /\ Buckets(u) = Buckets(t) /\ Bucket(Hash[k], t.mask) \in Buckets(t)
<1>. DEFINE h == Bucket(Hash[k], t.mask)
<1>1. /\ IsTable(u) /\ u.mask = t.mask /\ Extends(t.heap, u.heap)
      /\ Linear(t.heap) /\ Linear(u.heap) /\ t.mask \in Nat
      /\ t.vector \in [0..t.mask -> DOMAIN t.heap \union {NULL}]
  BY DEF Added, IsTable
<1>2. PICK x : InFront(t, u, x, k, v)
  BY DEF Added
<1>3. h \in 0..t.mask
  BY <1>1, BucketIn
<1>4. \A n \in DOMAIN t.heap \union {NULL} : On(u.heap, n) = On(t.heap, n)
  BY <1>1, SameChains DEF Extends, On
<1>5. Buckets(u) = Buckets(t) /\ Buckets(t) = 0..t.mask
  BY <1>1 DEF Buckets
<1>6. x \in DOMAIN u.heap /\ u.heap[x].key = k /\ u.heap[x].value = v
      /\ u.heap[x].next = t.vector[h] /\ u.vector = [t.vector EXCEPT ![h] = x]
  BY <1>2 DEF InFront
<1>. HIDE DEF h
<1>7. ASSUME NEW b \in Buckets(t)
      PROVE  Mine(u, b) = IF b = h THEN {x} \union Mine(t, b) ELSE Mine(t, b)
  <2>1. t.vector[b] \in DOMAIN t.heap \union {NULL}
    BY <1>1, <1>5
  <2>2. u.vector[b] = IF b = h THEN x ELSE t.vector[b]
    BY <1>1, <1>5, <1>6
  <2>3. On(u.heap, x) = {x} \union On(u.heap, u.heap[x].next)
    BY <1>1, <1>6, OnIs
  <2>4. On(u.heap, t.vector[b]) = On(t.heap, t.vector[b])
    BY <1>4, <2>1
  <2>. QED  BY <1>6, <2>2, <2>3, <2>4 DEF Mine
<1>8. Linked(u) = Linked(t) \union {x}
  <2>1. Linked(u) = UNION {Mine(u, b) : b \in Buckets(t)}
    BY <1>5 DEF Linked, Mine, InBucket, On
  <2>2. Linked(t) = UNION {Mine(t, b) : b \in Buckets(t)}
    BY DEF Linked, Mine, InBucket, On
  <2>. QED  BY <1>3, <1>5, <1>7, <2>1, <2>2
<1>. QED  BY <1>3, <1>5, <1>6, <1>7, <1>8 DEF h

LEMMA AddedHolds ==
  ASSUME NEW t, IsTable(t), Placed(t), Once(t), NEW k \in Key, NEW v, NEW u, Added(t, u, k, v),
         \A e \in Linked(t) : t.heap[e].key # k
  PROVE  /\ Placed(u) /\ Once(u)
         /\ \A l, y : Stores(u, l, y) <=> Stores(t, l, y) \/ (l = k /\ y = v)
<1>1. PICK x \in DOMAIN u.heap :
           /\ u.heap[x].key = k /\ u.heap[x].value = v
           /\ \A b \in Buckets(t) :
                Mine(u, b) = IF b = Bucket(Hash[k], t.mask) THEN {x} \union Mine(t, b) ELSE Mine(t, b)
           /\ Linked(u) = Linked(t) \union {x}
           /\ Buckets(u) = Buckets(t)
  BY AddedHas
<1>2. u.mask = t.mask /\ Extends(t.heap, u.heap)
  BY DEF Added
<1>3. \A e \in Linked(t) : u.heap[e] = t.heap[e]
  BY <1>2, LinkedIn DEF Extends
<1>4. Placed(u)
  <2>1. SUFFICES ASSUME NEW b \in Buckets(t), NEW e \in Mine(u, b)
                 PROVE  Bucket(Hash[u.heap[e].key], t.mask) = b
    BY <1>1, <1>2 DEF Placed
  <2>2. CASE e \in Mine(t, b)
    <3>1. e \in Linked(t)
      BY <2>2, LinkedIs
    <3>2. u.heap[e] = t.heap[e]
      BY <1>3, <3>1
    <3>. QED  BY <2>2, <3>2 DEF Placed
  <2>3. CASE e \notin Mine(t, b)
    <3>1. e = x /\ b = Bucket(Hash[k], t.mask)
      BY <1>1, <2>3
    <3>. QED  BY <1>1, <3>1
  <2>. QED  BY <2>2, <2>3
<1>5. Once(u)
  BY <1>1, <1>3 DEF Once
<1>6. ASSUME NEW l, NEW y
      PROVE  Stores(u, l, y) <=> Stores(t, l, y) \/ (l = k /\ y = v)
  BY <1>1, <1>3 DEF Stores
<1>. QED  BY <1>4, <1>5, <1>6

-----------------------------------------------------------------------------
(* A change of size.                                                       *)

\* Table u has the entries of heap h that are named, as they are or as copies.
Took(h, names, u) ==
  /\ IsTable(u) /\ Extends(h, u.heap) /\ Placed(u) /\ Once(u)
  /\ \A k, x : Stores(u, k, x) <=> \E n \in names : h[n].key = k /\ h[n].value = x

LEMMA OneTaken ==
  ASSUME NEW h, Linear(h), NEW names \in SUBSET DOMAIN h, NEW u, Took(h, names, u),
         NEW n \in DOMAIN h, \A m \in names : h[m].key # h[n].key
  PROVE  /\ Took(h, names \union {n}, Move(u, n))
         /\ Move(u, n).mask = u.mask /\ Move(u, n).count = u.count
<1>. DEFINE w == Move(u, n)
            k == h[n].key
            v == h[n].value
<1>1. IsTable(u) /\ Extends(h, u.heap) /\ Placed(u) /\ Once(u)
  BY DEF Took
<1>2. n \in DOMAIN u.heap /\ u.heap[n] = h[n] /\ k \in Key
  BY <1>1, NextIn DEF Extends
<1>3. Added(u, w, k, v)
  BY <1>1, <1>2, MoveIsAdded
<1>4. \A e \in Linked(u) : u.heap[e].key # k
  <2>1. SUFFICES ASSUME NEW e \in Linked(u), u.heap[e].key = k
                 PROVE  FALSE
    OBVIOUS
  <2>2. Stores(u, k, u.heap[e].value)
    BY <2>1 DEF Stores
  <2>3. \E m \in names : h[m].key = k
    BY <2>2 DEF Took
  <2>. QED  BY <2>3
<1>. HIDE DEF w, k, v
<1>5. Placed(w) /\ Once(w) /\ \A l, y : Stores(w, l, y) <=> Stores(u, l, y) \/ (l = k /\ y = v)
  BY <1>1, <1>2, <1>3, <1>4, AddedHolds
<1>6. IsTable(w) /\ w.mask = u.mask /\ w.count = u.count /\ Extends(u.heap, w.heap)
  BY <1>3 DEF Added
<1>7. Extends(h, w.heap)
  BY <1>1, <1>6 DEF Extends
<1>8. ASSUME NEW l, NEW y
      PROVE  Stores(w, l, y) <=> \E m \in names \union {n} : h[m].key = l /\ h[m].value = y
  <2>1. Stores(u, l, y) <=> \E m \in names : h[m].key = l /\ h[m].value = y
    BY DEF Took
  <2>. QED  BY <1>5, <2>1 DEF k, v
<1>9. Took(h, names \union {n}, w)
  BY <1>5, <1>6, <1>7, <1>8 DEF Took
<1>. QED  BY <1>6, <1>9 DEF w

\* The tables that a heap is moved to.
Heaps == UNION {[names -> Entries(EntryName)] : names \in SUBSET EntryName}
Targets(h, mask, amount) ==
  {u \in [vector : [0..mask -> EntryName \union {NULL}], mask : {mask}, count : {amount},
          heap : Heaps] : IsTable(u) /\ Extends(h, u.heap)}

LEMMA TargetIs ==
  ASSUME NEW h, NEW mask, NEW amount, NEW u
  PROVE  u \in Targets(h, mask, amount)
           <=> IsTable(u) /\ Extends(h, u.heap) /\ u.mask = mask /\ u.count = amount
<1>1. ASSUME u \in Targets(h, mask, amount)
      PROVE  IsTable(u) /\ Extends(h, u.heap) /\ u.mask = mask /\ u.count = amount
  BY <1>1 DEF Targets
<1>2. ASSUME IsTable(u), Extends(h, u.heap), u.mask = mask, u.count = amount
      PROVE  u \in Targets(h, mask, amount)
  <2>1. PICK v, m, c, g : u = [vector |-> v, mask |-> m, count |-> c, heap |-> g]
    BY <1>2 DEF IsTable, IsRecord
  <2>2. u.vector = v /\ m = mask /\ c = amount /\ u.heap = g
    BY <1>2, <2>1
  <2>3. Linear(g) /\ v \in [0..mask -> DOMAIN g \union {NULL}]
    BY <1>2, <2>2 DEF IsTable
  <2>4. DOMAIN g \in SUBSET EntryName /\ g \in [DOMAIN g -> Entries(DOMAIN g)]
    BY <2>3 DEF Linear
  <2>5. Entries(DOMAIN g) \subseteq Entries(EntryName)
    BY <2>4 DEF Entries
  <2>6. g \in [DOMAIN g -> Entries(EntryName)]
    BY <2>4, <2>5
  <2>7. g \in Heaps
    BY <2>4, <2>6 DEF Heaps
  <2>8. v \in [0..mask -> EntryName \union {NULL}]
    BY <2>3, <2>4
  <2>9. u \in [vector : [0..mask -> EntryName \union {NULL}], mask : {mask}, count : {amount},
               heap : Heaps]
    BY <2>1, <2>2, <2>7, <2>8
  <2>. QED  BY <1>2, <2>9 DEF Targets
<1>. QED  BY <1>1, <1>2

LEMMA AllTaken ==
  ASSUME NEW h, Linear(h), NEW names \in SUBSET DOMAIN h, NEW t, Took(h, names, t),
         NEW row \in Seq(DOMAIN h),
         \A i, j \in 1..Len(row) : h[row[i]].key = h[row[j]].key => i = j,
         \A i \in 1..Len(row), m \in names : h[m].key # h[row[i]].key
  PROVE  /\ Took(h, names \union {row[i] : i \in 1..Len(row)}, MoveAll(t, row))
         /\ MoveAll(t, row).mask = t.mask /\ MoveAll(t, row).count = t.count
<1>. DEFINE X == Targets(h, t.mask, t.count)
            N == Len(row)
            After(n, u) == Move(u, row[n])
            step == [p \in (1..N) \X X |-> After(p[1], p[2])]
            IsRun(f) == f = [n \in 0..N |-> IF n = 0 THEN t ELSE After(n, f[n - 1])]
            run == CHOOSE f : IsRun(f)
<1>1. MoveAll(t, row) = run[N]
  BY DEF MoveAll
<1>2. N \in Nat
  OBVIOUS
<1>3. step \in [(1..N) \X X -> X]
  <2>1. ASSUME NEW n \in 1..N, NEW u \in X
        PROVE  After(n, u) \in X
    <3>1. row[n] \in DOMAIN h
      OBVIOUS
    <3>2. IsTable(u) /\ Extends(h, u.heap) /\ u.mask = t.mask /\ u.count = t.count
      BY TargetIs
    <3>3. row[n] \in DOMAIN u.heap
      BY <3>1, <3>2 DEF Extends
    <3>4. PICK k, v : Added(u, Move(u, row[n]), k, v)
      BY <3>2, <3>3, MoveIsAdded
    <3>5. LET w == Move(u, row[n])
          IN  IsTable(w) /\ w.mask = u.mask /\ w.count = u.count /\ Extends(u.heap, w.heap)
      BY <3>4 DEF Added
    <3>6. Extends(h, Move(u, row[n]).heap)
      BY <3>2, <3>5 DEF Extends
    <3>. QED  BY <3>2, <3>5, <3>6, TargetIs
  <2>. HIDE DEF After, X
  <2>. QED  BY <2>1
<1>4. \E f : IsRun(f)
  <2>0. t \in X
    <3>1. IsTable(t) /\ Extends(h, t.heap)
      BY DEF Took
    <3>. QED  BY <3>1, TargetIs
  <2>. HIDE DEF step, X, N
  <2>2. PICK f \in [0..N -> X] : Follows(f, N, t, step)
    BY <1>2, <1>3, <2>0, Recursion
  <2>3. ASSUME NEW n \in 1..N
        PROVE  f[n] = After(n, f[n - 1])
    <3>1. n - 1 \in 0..N
      BY <1>2
    <3>2. f[n - 1] \in X
      BY <3>1
    <3>. HIDE DEF After
    <3>. QED  BY <2>2, <3>2 DEF step, Follows
  <2>4. \A n \in 0..N : f[n] = IF n = 0 THEN t ELSE After(n, f[n - 1])
    <3>. HIDE DEF After
    <3>1. \A n \in 0..N : n # 0 => n \in 1..N
      BY <1>2
    <3>. QED  BY <2>2, <2>3, <3>1 DEF Follows
  <2>5. f = [n \in 0..N |-> IF n = 0 THEN t ELSE After(n, f[n - 1])]
    <3>. HIDE DEF After
    <3>. QED  BY <2>4
  <2>. QED  BY <2>5
<1>5. IsRun(run)
  <2>. HIDE DEF IsRun
  <2>. QED  BY <1>4
<1>6. run[0] = t /\ \A n \in 1..N : run[n] = After(n, run[n - 1])
  <2>. HIDE DEF run, After
  <2>1. 0 \in 0..N /\ \A n \in 1..N : n \in 0..N /\ n # 0
    OBVIOUS
  <2>. QED  BY <1>5, <2>1
<1>. DEFINE upto(n) == names \union {row[i] : i \in 1..n}
            S == {n \in 0..N : /\ Took(h, upto(n), run[n])
                               /\ run[n].mask = t.mask /\ run[n].count = t.count}
<1>7. 0 \in S
  <2>1. upto(0) = names
    OBVIOUS
  <2>. HIDE DEF upto, run
  <2>. QED  BY <1>2, <1>6, <2>1
<1>8. ASSUME NEW n \in 0..(N - 1), n \in S
      PROVE  n + 1 \in S
  <2>1. n + 1 \in 1..N /\ (n + 1) - 1 = n /\ n + 1 \in 0..N
    BY <1>2
  <2>2. run[n + 1] = Move(run[n], row[n + 1])
    <3>. HIDE DEF run, N
    <3>. QED  BY <1>6, <2>1
  <2>. DEFINE e == row[n + 1]
  <2>3. e \in DOMAIN h
    BY <2>1
  <2>4. \A m \in upto(n) : h[m].key # h[e].key
    <3>1. SUFFICES ASSUME NEW i \in 1..n
                   PROVE  h[row[i]].key # h[e].key
      BY <2>1
    <3>2. i \in 1..N /\ i # n + 1
      BY <2>1
    <3>. QED  BY <2>1, <3>2
  <2>5. upto(n + 1) = upto(n) \union {e}
    <3>1. 1..(n + 1) = (1..n) \union {n + 1}
      OBVIOUS
    <3>. QED  BY <3>1
  <2>6. upto(n) \in SUBSET DOMAIN h
    <3>1. \A i \in 1..n : i \in 1..N
      BY <2>1
    <3>. QED  BY <3>1
  <2>7. Took(h, upto(n), run[n]) /\ run[n].mask = t.mask /\ run[n].count = t.count
    BY <1>8
  <2>. HIDE DEF run, upto
  <2>8. e = row[n + 1]
    OBVIOUS
  <2>. HIDE DEF e
  <2>. DEFINE some == upto(n)
              u == run[n]
  <2>9. /\ Took(h, some \union {e}, Move(u, e))
        /\ Move(u, e).mask = u.mask /\ Move(u, e).count = u.count
    <3>1. some \in SUBSET DOMAIN h /\ (\A m \in some : h[m].key # h[e].key) /\ Took(h, some, u)
      BY <2>4, <2>6, <2>7
    <3>. HIDE DEF some, u
    <3>. QED  BY <2>3, <3>1, OneTaken
  <2>. QED  BY <2>1, <2>2, <2>5, <2>7, <2>8, <2>9
<1>9. N \in S
  <2>1. N \in 0..N
    BY <1>2
  <2>. HIDE DEF S, N
  <2>. QED  BY <1>2, <1>7, <1>8, <2>1, Upward
<1>. QED  BY <1>1, <1>9

\* No entry is twice on a chain.
LEMMA ChainOnce ==
  ASSUME NEW heap, Linear(heap), NEW n \in DOMAIN heap \union {NULL},
         NEW i \in 1..Len(Chain(heap, n)), NEW j \in 1..Len(Chain(heap, n)),
         Chain(heap, n)[i] = Chain(heap, n)[j]
  PROVE  i = j
<1>. DEFINE Good(c) == \A p, q \in 1..Len(c) : c[p] = c[q] => p = q
            S == {x \in DOMAIN heap \union {NULL} : Good(Chain(heap, x))}
<1>1. NULL \in S
  <2>1. Chain(heap, NULL) = <<>>
    BY ChainIs
  <2>2. Good(<<>>)
    OBVIOUS
  <2>. HIDE DEF Good
  <2>. QED  BY <2>1, <2>2
<1>2. ASSUME NEW x \in DOMAIN heap, heap[x].next \in S
      PROVE  x \in S
  <2>. DEFINE c == Chain(heap, heap[x].next)
              d == <<x>> \o c
  <2>1. Chain(heap, x) = d
    BY ChainIs
  <2>2. heap[x].next \in DOMAIN heap \union {NULL}
    BY NextIn
  <2>3. c \in Seq(DOMAIN heap)
    BY <2>2, ChainIs
  <2>4. \A p \in 1..Len(c) : c[p] # x
    <3>1. x \notin On(heap, heap[x].next)
      BY OnForward
    <3>2. ToSet(c) = {c[p] : p \in 1..Len(c)}
      BY <2>3 DEF ToSet
    <3>. QED  BY <3>1, <3>2 DEF On
  <2>5. Good(c)
    BY <1>2
  <2>. HIDE DEF c
  <2>6. Len(d) = Len(c) + 1 /\ d[1] = x /\ Len(c) \in Nat
        /\ \A p \in 2..(Len(c) + 1) : p - 1 \in 1..Len(c) /\ d[p] = c[p - 1]
    BY <2>3
  <2>. HIDE DEF d
  <2>7. ASSUME NEW p \in 1..Len(d), NEW q \in 1..Len(d), d[p] = d[q]
        PROVE  p = q
    <3>1. CASE p = 1 /\ q = 1
      BY <3>1
    <3>2. CASE p = 1 /\ q # 1
      <4>1. q \in 2..(Len(c) + 1)
        BY <2>6, <3>2
      <4>. QED  BY <2>4, <2>6, <2>7, <3>2, <4>1
    <3>3. CASE p # 1 /\ q = 1
      <4>1. p \in 2..(Len(c) + 1)
        BY <2>6, <3>3
      <4>. QED  BY <2>4, <2>6, <2>7, <3>3, <4>1
    <3>4. CASE p # 1 /\ q # 1
      <4>1. p \in 2..(Len(c) + 1) /\ q \in 2..(Len(c) + 1)
        BY <2>6, <3>4
      <4>2. c[p - 1] = c[q - 1] /\ p - 1 \in 1..Len(c) /\ q - 1 \in 1..Len(c)
        BY <2>6, <2>7, <4>1
      <4>3. p - 1 = q - 1
        BY <2>5, <4>2
      <4>. QED  BY <4>3
    <3>. QED  BY <3>1, <3>2, <3>3, <3>4
  <2>. QED  BY <2>1, <2>7
<1>3. \A x \in DOMAIN heap \union {NULL} : x \in S
  <2>. HIDE DEF S
  <2>. QED  BY <1>1, <1>2, AlongChains
<1>. QED  BY <1>3

LEMMA EmptyIs ==
  ASSUME NEW t, IsTable(t), NEW new_mask \in Nat, NEW u,
         WithFields(u, Empty(new_mask), new_mask, t.count, t.heap)
  PROVE  Took(t.heap, {}, u)
<1>1. /\ IsRecord(u) /\ u.vector = Empty(new_mask) /\ u.mask = new_mask /\ u.heap = t.heap
      /\ Linear(t.heap)
  BY DEF WithFields, IsTable
<1>2. u.vector \in [0..u.mask -> DOMAIN u.heap \union {NULL}]
  BY <1>1 DEF Empty
<1>3. IsTable(u)
  BY <1>1, <1>2 DEF IsTable
<1>4. \A b \in Buckets(u) : Mine(u, b) = {}
  <2>1. ASSUME NEW b \in Buckets(u)
        PROVE  u.vector[b] = NULL
    BY <1>1 DEF Buckets, Empty
  <2>2. On(u.heap, NULL) = {}
    BY <1>1, OnIs
  <2>. QED  BY <2>1, <2>2 DEF Mine
<1>5. Linked(u) = {}
  BY <1>3, <1>4, LinkedIs
<1>. QED  BY <1>1, <1>3, <1>4, <1>5 DEF Took, Placed, Once, Stores, Extends

\* A bucket is taken.
LEMMA BucketTaken ==
  ASSUME NEW t, IsTable(t), Placed(t), Once(t), NEW b \in Buckets(t), NEW u,
         NEW names \in SUBSET Linked(t), Took(t.heap, names, u),
         \A n \in names : n \notin Mine(t, b)
  PROVE  LET w == MoveAll(u, InBucket(t, b))
         IN  /\ Took(t.heap, names \union Mine(t, b), w)
             /\ w.mask = u.mask /\ w.count = u.count
<1>. DEFINE row == InBucket(t, b)
            h == t.heap
<1>1. Linear(h) /\ t.vector[b] \in DOMAIN h \union {NULL} /\ Linked(t) \subseteq DOMAIN h
      /\ ToSet(InBucket(t, b)) = Mine(t, b) /\ Mine(t, b) \subseteq Linked(t)
  <2>1. t.vector[b] \in DOMAIN h \union {NULL} /\ Linked(t) \subseteq DOMAIN h
        /\ ToSet(InBucket(t, b)) = Mine(t, b)
    BY BucketIs, LinkedIn
  <2>2. Mine(t, b) \subseteq Linked(t)
    BY BucketIs
  <2>. QED  BY <2>1, <2>2 DEF IsTable
<1>2. row = Chain(h, t.vector[b])
  BY DEF InBucket
<1>3. row \in Seq(DOMAIN h)
  BY <1>1, <1>2, ChainIs
<1>4. Mine(t, b) = {row[i] : i \in 1..Len(row)}
  BY <1>1, <1>3 DEF ToSet
<1>5. ASSUME NEW i \in 1..Len(row), NEW j \in 1..Len(row),
             h[row[i]].key = h[row[j]].key
      PROVE  i = j
  <2>1. row[i] = row[j]
    BY <1>1, <1>4, <1>5 DEF Once
  <2>. HIDE DEF row
  <2>. QED  BY <1>1, <1>2, <2>1, ChainOnce
<1>6. ASSUME NEW i \in 1..Len(row), NEW m \in names
      PROVE  h[m].key # h[row[i]].key
  BY <1>1, <1>4 DEF Once
<1>7. names \in SUBSET DOMAIN h /\ Took(h, names, u)
  BY <1>1
<1>. HIDE DEF row, h
<1>8. /\ Took(h, names \union {row[i] : i \in 1..Len(row)}, MoveAll(u, row))
      /\ MoveAll(u, row).mask = u.mask /\ MoveAll(u, row).count = u.count
  BY <1>1, <1>3, <1>5, <1>6, <1>7, AllTaken
<1>. QED  BY <1>4, <1>8 DEF row, h

LEMMA ChangedSize ==
  ASSUME NEW t, IsTable(t), Placed(t), Once(t), NEW new_mask \in Nat
  PROVE  LET u == ChangeSize(t, new_mask)
         IN  /\ IsTable(u) /\ Placed(u) /\ Once(u) /\ Extends(t.heap, u.heap)
             /\ u.mask = new_mask /\ u.count = t.count
             /\ \A k, x : Stores(u, k, x) <=> Stores(t, k, x)
<1>. DEFINE X == Targets(t.heap, new_mask, t.count)
            N == t.mask + 1
            masked == [t EXCEPT !.mask = new_mask]
            base == [masked EXCEPT !.vector = Empty(new_mask)]
            upto(n) == UNION {Mine(t, b) : b \in 0..(n - 1)}
            Good(n, u) == Took(t.heap, upto(n), u) /\ u.mask = new_mask /\ u.count = t.count
            After(n, u) == MoveAll(u, InBucket(t, n - 1))
            IsRun(f) == f = [n \in 0..N |-> IF n = 0 THEN base ELSE After(n, f[n - 1])]
            run == CHOOSE f : IsRun(f)
<1>1. ChangeSize(t, new_mask) = run[N]
  <2>1. [t EXCEPT !.mask = new_mask, !.vector = Empty(new_mask)] = base
    <3>1. PICK v, m, c, h : t = [vector |-> v, mask |-> m, count |-> c, heap |-> h]
      BY DEF IsTable, IsRecord
    <3>. QED  BY <3>1
  <2>. HIDE DEF base
  <2>. QED  BY <2>1 DEF ChangeSize
<1>2. t.mask \in Nat /\ N \in Nat /\ Buckets(t) = 0..t.mask /\ IsRecord(t)
  BY DEF IsTable, Buckets
<1>3. Good(0, base)
  <2>1. WithFields(masked, t.vector, new_mask, t.count, t.heap)
    BY <1>2, RecordWith
  <2>. HIDE DEF masked
  <2>2. WithFields(base, Empty(new_mask), masked.mask, masked.count, masked.heap)
    <3>1. IsRecord(masked)
      BY <2>1 DEF WithFields
    <3>. DEFINE vector == Empty(new_mask)
    <3>. HIDE DEF vector
    <3>2. WithFields([masked EXCEPT !.vector = vector], vector, masked.mask, masked.count, masked.heap)
      BY <3>1, RecordWith
    <3>. QED  BY <3>2 DEF vector
  <2>3. WithFields(base, Empty(new_mask), new_mask, t.count, t.heap)
    BY <2>1, <2>2 DEF WithFields
  <2>. HIDE DEF base
  <2>4. Took(t.heap, {}, base)
    BY <2>3, EmptyIs
  <2>5. upto(0) = {}
    OBVIOUS
  <2>. HIDE DEF upto
  <2>. QED  BY <2>3, <2>4, <2>5 DEF WithFields
<1>. HIDE DEF base
<1>4. ASSUME NEW n \in 1..N, NEW u, Good(n - 1, u)
      PROVE  Good(n, After(n, u))
  <2>. DEFINE b == n - 1
  <2>1. b \in Buckets(t) /\ b \in 0..N
    BY <1>2
  <2>2. upto(b) \in SUBSET Linked(t)
    <3>1. \A a \in 0..(b - 1) : a \in Buckets(t)
      BY <1>2, <2>1
    <3>. QED  BY <3>1, LinkedIs
  <2>3. \A m \in upto(b) : m \notin Mine(t, b)
    <3>1. SUFFICES ASSUME NEW a \in 0..(b - 1), NEW m \in Mine(t, a), m \in Mine(t, b)
                   PROVE  FALSE
      OBVIOUS
    <3>2. a \in Buckets(t) /\ a # b
      BY <1>2, <2>1
    <3>. QED  BY <2>1, <3>1, <3>2 DEF Placed
  <2>4. upto(n) = upto(b) \union Mine(t, b)
    <3>1. 0..(n - 1) = (0..(b - 1)) \union {b}
      BY <2>1
    <3>. QED  BY <3>1
  <2>5. Took(t.heap, upto(b), u) /\ u.mask = new_mask /\ u.count = t.count
    BY <1>4
  <2>. HIDE DEF upto, b
  <2>6. LET w == MoveAll(u, InBucket(t, b))
        IN  /\ Took(t.heap, upto(b) \union Mine(t, b), w)
            /\ w.mask = u.mask /\ w.count = u.count
    BY <2>1, <2>2, <2>3, <2>5, BucketTaken
  <2>. QED  BY <2>4, <2>5, <2>6 DEF b
<1>5. ASSUME NEW f, f[0] = base, \A n \in 1..N : Good(n - 1, f[n - 1]) => f[n] = After(n, f[n - 1])
      PROVE  \A n \in 0..N : Good(n, f[n])
  <2>. DEFINE S == {n \in 0..N : Good(n, f[n])}
  <2>1. 0 \in S
    <3>. HIDE DEF Good
    <3>. QED  BY <1>2, <1>3, <1>5
  <2>2. ASSUME NEW n \in 0..(N - 1), n \in S
        PROVE  n + 1 \in S
    <3>1. n + 1 \in 1..N /\ n + 1 \in 0..N /\ (n + 1) - 1 = n
      BY <1>2
    <3>2. Good(n, f[n])
      BY <2>2
    <3>. HIDE DEF Good, After, N
    <3>3. f[n + 1] = After(n + 1, f[n])
      BY <1>5, <3>1, <3>2
    <3>4. Good(n + 1, After(n + 1, f[n]))
      BY <1>4, <3>1, <3>2
    <3>. QED  BY <3>1, <3>3, <3>4
  <2>3. \A n \in 0..N : n \in S
    <3>. HIDE DEF S, N
    <3>. QED  BY <1>2, <2>1, <2>2, Upward
  <2>. QED  BY <2>3
<1>. DEFINE Step(n, u) == IF Good(n - 1, u) THEN After(n, u) ELSE base
            step == [p \in (1..N) \X X |-> Step(p[1], p[2])]
<1>6. \A n, u : Good(n, u) => u \in X
  <2>1. ASSUME NEW n, NEW u, Good(n, u)
        PROVE  IsTable(u) /\ Extends(t.heap, u.heap) /\ u.mask = new_mask /\ u.count = t.count
    <3>1. Took(t.heap, upto(n), u) /\ u.mask = new_mask /\ u.count = t.count
      BY <2>1
    <3>. HIDE DEF upto
    <3>. QED  BY <3>1 DEF Took
  <2>. HIDE DEF Good
  <2>. QED  BY <2>1, TargetIs
<1>7. base \in X
  <2>. HIDE DEF Good, X
  <2>. QED  BY <1>3, <1>6
<1>8. step \in [(1..N) \X X -> X]
  <2>1. ASSUME NEW n \in 1..N, NEW u \in X
        PROVE  Step(n, u) \in X
    <3>. HIDE DEF Good, X, After
    <3>. QED  BY <1>4, <1>6, <1>7
  <2>. HIDE DEF Step, X
  <2>. QED  BY <2>1
<1>9. \E f : IsRun(f)
  <2>1. PICK f \in [0..N -> X] : Follows(f, N, base, step)
    <3>. HIDE DEF step, X, N
    <3>. QED  BY <1>2, <1>7, <1>8, Recursion
  <2>2. ASSUME NEW n \in 1..N
        PROVE  f[n] = Step(n, f[n - 1])
    <3>1. n - 1 \in 0..N
      BY <1>2
    <3>2. f[n - 1] \in X
      <4>. HIDE DEF X
      <4>. QED  BY <3>1
    <3>. HIDE DEF Step
    <3>. QED  BY <2>1, <3>2 DEF step, Follows
  <2>3. f[0] = base
    <3>. HIDE DEF step, X
    <3>. QED  BY <2>1 DEF Follows
  <2>4. \A n \in 0..N : Good(n, f[n])
    <3>1. \A n \in 1..N : Good(n - 1, f[n - 1]) => f[n] = After(n, f[n - 1])
      <4>. HIDE DEF Good, After
      <4>. QED  BY <2>2
    <3>. HIDE DEF Good, After, N
    <3>. QED  BY <1>5, <2>3, <3>1
  <2>5. \A n \in 0..N : f[n] = IF n = 0 THEN base ELSE After(n, f[n - 1])
    <3>1. ASSUME NEW n \in 0..N, n # 0
          PROVE  f[n] = After(n, f[n - 1])
      <4>1. n \in 1..N /\ n - 1 \in 0..N
        BY <1>2, <3>1
      <4>. HIDE DEF Good, After, N
      <4>. QED  BY <2>2, <2>4, <4>1
    <3>. HIDE DEF After
    <3>. QED  BY <2>3, <3>1
  <2>6. f = [n \in 0..N |-> IF n = 0 THEN base ELSE After(n, f[n - 1])]
    <3>. HIDE DEF After, X
    <3>. QED  BY <2>5
  <2>. QED  BY <2>6
<1>10. IsRun(run)
  <2>. HIDE DEF IsRun
  <2>. QED  BY <1>9
<1>11. run[0] = base /\ \A n \in 1..N : run[n] = After(n, run[n - 1])
  <2>. HIDE DEF run, After
  <2>1. 0 \in 0..N /\ \A n \in 1..N : n \in 0..N /\ n # 0
    BY <1>2
  <2>. QED  BY <1>10, <2>1
<1>12. Good(N, run[N])
  <2>1. N \in 0..N
    BY <1>2
  <2>. HIDE DEF run, Good, After, N
  <2>. QED  BY <1>5, <1>11, <2>1
<1>13. upto(N) = Linked(t)
  <2>1. N - 1 = t.mask
    BY <1>2
  <2>. HIDE DEF N
  <2>. QED  BY <1>2, <2>1, LinkedIs
<1>. DEFINE u == run[N]
<1>14. Took(t.heap, Linked(t), u) /\ u.mask = new_mask /\ u.count = t.count
  <2>. HIDE DEF run, upto
  <2>. QED  BY <1>12, <1>13
<1>. HIDE DEF u
<1>15. ASSUME NEW k, NEW x
       PROVE  Stores(u, k, x) <=> Stores(t, k, x)
  BY <1>14 DEF Took, Stores
<1>16. IsTable(u) /\ Placed(u) /\ Once(u) /\ Extends(t.heap, u.heap)
  BY <1>14 DEF Took
<1>17. ChangeSize(t, new_mask) = u
  BY <1>1 DEF u
<1>. HIDE DEF N, run, upto, Good, IsRun
<1>. QED  BY <1>14, <1>15, <1>16, <1>17

-----------------------------------------------------------------------------
(* What is looked for, and what is counted.                                *)

LEMMA MinIn ==
  ASSUME NEW n \in Nat, NEW some \in SUBSET (1..n), some # {}
  PROVE  Min(some) \in some
<1>1. some \in SUBSET Nat
  OBVIOUS
<1>. QED  BY <1>1, MinOf

\* A search finds the entry of the key in the bucket, if there is one.
LEMMA FindIs ==
  ASSUME NEW t, IsTable(t), NEW h, NEW k, Bucket(h, t.mask) \in Buckets(t)
  PROVE  IF Find(t, h, k) = NULL
         THEN \A e \in Mine(t, Bucket(h, t.mask)) : t.heap[e].key # k
         ELSE /\ Find(t, h, k) \in Mine(t, Bucket(h, t.mask))
              /\ t.heap[Find(t, h, k)].key = k
<1>. DEFINE b == Bucket(h, t.mask)
            chain == InBucket(t, b)
            Fits(e) == t.heap[e].key = k
            some == {i \in 1..Len(chain) : Fits(chain[i])}
            at == IF some # {} THEN Min(some) ELSE 0
<1>1. Find(t, h, k) = IF at = 0 THEN NULL ELSE chain[at]
  BY DEF Find, SelectInSeq
<1>2. chain \in Seq(DOMAIN t.heap)
  <2>1. t.vector[b] \in DOMAIN t.heap \union {NULL} /\ Linear(t.heap)
    BY BucketIs DEF IsTable
  <2>. HIDE DEF b
  <2>. QED  BY <2>1, ChainIs DEF InBucket
<1>3. Mine(t, b) = {chain[i] : i \in 1..Len(chain)}
  <2>1. Mine(t, b) = ToSet(chain)
    BY DEF Mine, InBucket, On
  <2>. HIDE DEF chain
  <2>. QED  BY <1>2, <2>1 DEF ToSet
<1>4. some # {} => at \in some
  <2>1. Len(chain) \in Nat /\ some \in SUBSET (1..Len(chain))
    BY <1>2
  <2>. HIDE DEF some
  <2>. QED  BY <2>1, MinIn
<1>. HIDE DEF chain, b
<1>5. CASE some = {}
  <2>1. Find(t, h, k) = NULL
    BY <1>1, <1>5
  <2>2. \A e \in Mine(t, b) : t.heap[e].key # k
    BY <1>3, <1>5
  <2>. QED  BY <2>1, <2>2 DEF b
<1>6. CASE some # {}
  <2>1. at \in 1..Len(chain) /\ t.heap[chain[at]].key = k /\ at # 0
    <3>. HIDE DEF at
    <3>. QED  BY <1>4, <1>6
  <2>. HIDE DEF at, some
  <2>2. Find(t, h, k) = chain[at] /\ chain[at] \in Mine(t, b) /\ chain[at] \in DOMAIN t.heap
    BY <1>1, <1>2, <1>3, <2>1
  <2>3. chain[at] # NULL
    BY <2>2, NextIn DEF IsTable
  <2>. QED  BY <2>1, <2>2, <2>3 DEF b
<1>. QED  BY <1>5, <1>6

KeysIn(t) == {t.heap[e].key : e \in Linked(t)}

LEMMA KeysAre ==
  ASSUME NEW t, IsTable(t)
  PROVE  /\ KeysIn(t) \subseteq Key /\ IsFiniteSet(KeysIn(t))
         /\ Once(t) => Cardinality(Linked(t)) <= Cardinality(KeysIn(t))
         /\ \A k : k \in KeysIn(t) <=> \E x \in HashValue : Stores(t, k, x)
<1>1. Linear(t.heap) /\ Linked(t) \subseteq DOMAIN t.heap
  BY LinkedIn DEF IsTable
<1>2. IsFiniteSet(Linked(t))
  <2>1. IsFiniteSet(DOMAIN t.heap)
    BY <1>1 DEF Linear
  <2>. QED  BY <1>1, <2>1, FS_Subset
<1>3. \A e \in Linked(t) : t.heap[e].key \in Key /\ t.heap[e].value \in HashValue
  BY <1>1, NextIn
<1>4. IsFiniteSet(KeysIn(t))
  <2>. DEFINE of == [k \in KeysIn(t) |-> CHOOSE e \in Linked(t) : t.heap[e].key = k]
  <2>1. \A k \in KeysIn(t) : of[k] \in Linked(t) /\ t.heap[of[k]].key = k
    BY DEF KeysIn
  <2>2. of \in [KeysIn(t) -> Linked(t)]
    <3>1. of = [k \in KeysIn(t) |-> of[k]]
      OBVIOUS
    <3>. HIDE DEF of
    <3>. QED  BY <2>1, <3>1
  <2>. HIDE DEF of
  <2>3. of \in Injection(KeysIn(t), Linked(t))
    BY <2>1, <2>2 DEF Injection, IsInjective
  <2>. QED  BY <1>2, <2>3, FS_Injection
<1>5. ASSUME Once(t)
      PROVE  Cardinality(Linked(t)) <= Cardinality(KeysIn(t))
  <2>. DEFINE of == [e \in Linked(t) |-> t.heap[e].key]
  <2>1. of \in [Linked(t) -> KeysIn(t)]
    BY DEF KeysIn
  <2>2. \A d, e \in Linked(t) : of[d] = of[e] => d = e
    BY <1>5 DEF Once
  <2>. HIDE DEF of
  <2>3. of \in Injection(Linked(t), KeysIn(t))
    BY <2>1, <2>2 DEF Injection, IsInjective
  <2>. QED  BY <1>4, <2>3, FS_Injection
<1>6. KeysIn(t) \subseteq Key
  BY <1>3 DEF KeysIn
<1>7. ASSUME NEW k
      PROVE  k \in KeysIn(t) <=> \E x \in HashValue : Stores(t, k, x)
  BY <1>3 DEF KeysIn, Stores
<1>. QED  BY <1>4, <1>5, <1>6, <1>7

\* The shape of a table between operations, but for the number of its buckets.
Fit(t) ==
  /\ IsTable(t) /\ Placed(t) /\ Once(t)
  /\ t.count \in Nat /\ Cardinality(KeysIn(t)) <= t.count

Roomy(t) == t.count <= t.mask + 1

\* A table holds the value of every key.
Agrees(t, m) == \A k \in Key : \A x \in HashValue : Stores(t, k, x) <=> m[k] = x

\* A key without an entry in the bucket where it is looked for has none.
LEMMA NotElsewhere ==
  ASSUME NEW t, IsTable(t), Placed(t), NEW k \in Key,
         \A e \in Mine(t, Bucket(Hash[k], t.mask)) : t.heap[e].key # k
  PROVE  \A e \in Linked(t) : t.heap[e].key # k
<1>1. SUFFICES ASSUME NEW b \in Buckets(t), NEW e \in Mine(t, b), t.heap[e].key = k
               PROVE  FALSE
  BY LinkedIs
<1>2. b = Bucket(Hash[k], t.mask)
  BY <1>1 DEF Placed
<1>. QED  BY <1>1, <1>2

LEMMA RefIs ==
  ASSUME NEW t, Fit(t), NEW m \in [Key -> HashValue \union {NoValue}], Agrees(t, m), NEW k \in Key
  PROVE  Ref(t, k) = m[k]
<1>. DEFINE e == Find(t, Hash[k], k)
            b == Bucket(Hash[k], t.mask)
<1>1. IsTable(t) /\ Placed(t) /\ t.mask \in Nat
  BY DEF Fit, IsTable
<1>2. b \in Buckets(t)
  BY <1>1, BucketIn DEF Buckets
<1>3. IF e = NULL THEN \A n \in Mine(t, b) : t.heap[n].key # k
      ELSE e \in Mine(t, b) /\ t.heap[e].key = k
  BY <1>1, <1>2, FindIs
<1>4. Ref(t, k) = IF e = NULL THEN NoValue ELSE t.heap[e].value
  BY DEF Ref
<1>. HIDE DEF e, b
<1>5. CASE e = NULL
  <2>1. \A n \in Linked(t) : t.heap[n].key # k
    BY <1>1, <1>3, <1>5, NotElsewhere DEF b
  <2>2. \A x \in HashValue : m[k] # x
    BY <2>1 DEF Agrees, Stores
  <2>3. m[k] = NoValue
    BY <2>2
  <2>. QED  BY <1>4, <1>5, <2>3
<1>6. CASE e # NULL
  <2>1. e \in Linked(t) /\ e \in DOMAIN t.heap
    BY <1>1, <1>2, <1>3, <1>6, BucketIs
  <2>2. t.heap[e].value \in HashValue
    BY <1>1, <2>1, NextIn DEF IsTable
  <2>3. Stores(t, k, t.heap[e].value)
    BY <1>3, <1>6, <2>1 DEF Stores
  <2>4. m[k] = t.heap[e].value
    BY <2>2, <2>3 DEF Agrees
  <2>. QED  BY <1>4, <1>6, <2>4
<1>. QED  BY <1>5, <1>6

-----------------------------------------------------------------------------
(* What an operation leaves as it was.                                     *)

\* From every entry of table t, the same entries follow in u, but for entries
\* of the keys gone.
Keeps(t, u, gone) ==
  /\ DOMAIN t.heap \subseteq DOMAIN u.heap
  /\ \A n \in DOMAIN t.heap :
       /\ u.heap[n].key = t.heap[n].key
       /\ On(u.heap, n) \subseteq On(t.heap, n)
       /\ \A m \in On(t.heap, n) \ On(u.heap, n) : t.heap[m].key \in gone

LEMMA ExtendsKeeps ==
  ASSUME NEW t, NEW u, NEW w, NEW gone, IsTable(t), IsTable(u), IsTable(w), Keeps(t, u, gone),
         Extends(u.heap, w.heap)
  PROVE  Keeps(t, w, gone)
<1>1. Linear(u.heap) /\ Linear(w.heap)
  BY DEF IsTable
<1>2. \A n \in DOMAIN u.heap : On(w.heap, n) = On(u.heap, n) /\ w.heap[n] = u.heap[n]
  BY <1>1, SameChains DEF Extends, On
<1>. QED  BY <1>2 DEF Keeps, Extends

LEMMA KeepsItself ==
  ASSUME NEW t, NEW gone
  PROVE  Keeps(t, t, gone)
BY DEF Keeps

\* An entry gets a value.
LEMMA ValueSet ==
  ASSUME NEW t, IsTable(t), NEW e \in Linked(t), NEW v \in HashValue, NEW u,
         u = [t EXCEPT !.heap[e].value = v]
  PROVE  /\ IsTable(u) /\ u.mask = t.mask /\ u.count = t.count
         /\ Keeps(t, u, {})
         /\ \A b \in Buckets(t) : Mine(u, b) = Mine(t, b)
         /\ Linked(u) = Linked(t) /\ Buckets(u) = Buckets(t)
         /\ \A n \in DOMAIN t.heap : /\ u.heap[n].key = t.heap[n].key
                                     /\ u.heap[n].value = IF n = e THEN v ELSE t.heap[n].value
<1>. DEFINE heap == t.heap
            entry == [heap[e] EXCEPT !.value = v]
            g == [heap EXCEPT ![e] = entry]
<1>1. IsRecord(t) /\ t.mask \in Nat /\ Linear(heap)
      /\ t.vector \in [0..t.mask -> DOMAIN heap \union {NULL}] /\ e \in DOMAIN heap
  BY LinkedIn DEF IsTable
<1>2. u = [t EXCEPT !.heap = g]
  <2>1. PICK tv, m, c, h : t = [vector |-> tv, mask |-> m, count |-> c, heap |-> h]
    BY <1>1 DEF IsRecord
  <2>2. heap = h
    BY <2>1
  <2>. QED  BY <2>1, <2>2
<1>3. WithFields(u, t.vector, t.mask, t.count, g)
  <2>. HIDE DEF g
  <2>1. WithFields([t EXCEPT !.heap = g], t.vector, t.mask, t.count, g)
    BY <1>1, RecordWith
  <2>. QED  BY ONLY <1>2, <2>1
<1>4. heap[e] \in Entries(DOMAIN heap)
  BY <1>1 DEF Linear
<1>5. entry.key = heap[e].key /\ entry.next = heap[e].next /\ entry.value = v
      /\ entry \in Entries(DOMAIN heap)
  <2>. HIDE DEF heap
  <2>. QED  BY <1>4 DEF Entries
<1>6. DOMAIN g = DOMAIN heap /\ g[e] = entry /\ \A n \in DOMAIN heap : n # e => g[n] = heap[n]
  <2>. HIDE DEF heap, entry
  <2>. QED  BY <1>1
<1>. HIDE DEF g, entry, heap
<1>7. \A n \in DOMAIN heap : /\ g[n].key = heap[n].key /\ g[n].next = heap[n].next
                             /\ g[n].value = IF n = e THEN v ELSE heap[n].value
  BY <1>5, <1>6
<1>8. Linear(g)
  <2>1. \A n \in DOMAIN g : g[n] \in Entries(DOMAIN g)
    BY <1>1, <1>5, <1>6 DEF Linear
  <2>2. g \in [DOMAIN g -> Entries(DOMAIN g)]
    <3>1. g = [n \in DOMAIN g |-> g[n]]
      BY <1>6 DEF g
    <3>. QED  BY <2>1, <3>1
  <2>3. PICK N \in Nat : \E rank : Ranked(heap, N, rank)
    BY <1>1 DEF Linear
  <2>4. \E rank : Ranked(g, N, rank)
    <3>1. PICK rank : Ranked(heap, N, rank)
      BY <2>3
    <3>2. Ranked(g, N, rank)
      BY <1>6, <1>7, <3>1 DEF Ranked
    <3>. QED  BY <3>2
  <2>. QED  BY <1>1, <1>6, <2>2, <2>4 DEF Linear
<1>9. \A n \in DOMAIN heap \union {NULL} : On(g, n) = On(heap, n)
  BY <1>1, <1>6, <1>7, <1>8, SameChains DEF On
<1>10. u.mask = t.mask /\ u.count = t.count /\ u.heap = g /\ u.vector = t.vector /\ IsRecord(u)
  BY <1>3 DEF WithFields
<1>11. IsTable(u)
  BY <1>1, <1>6, <1>8, <1>10 DEF IsTable
<1>12. Buckets(u) = Buckets(t) /\ Buckets(t) = 0..t.mask
  BY <1>10 DEF Buckets
<1>13. ASSUME NEW b \in Buckets(t)
       PROVE  Mine(u, b) = Mine(t, b)
  <2>1. t.vector[b] \in DOMAIN heap \union {NULL}
    BY <1>1, <1>12
  <2>. QED  BY <1>9, <1>10, <2>1 DEF Mine, heap
<1>14. Linked(u) = Linked(t)
  <2>1. Linked(u) = UNION {Mine(u, b) : b \in Buckets(t)}
    BY <1>12, LinkedIs
  <2>2. Linked(t) = UNION {Mine(t, b) : b \in Buckets(t)}
    BY LinkedIs
  <2>3. {Mine(u, b) : b \in Buckets(t)} = {Mine(t, b) : b \in Buckets(t)}
    BY <1>13
  <2>. QED  BY <2>1, <2>2, <2>3
<1>15. Keeps(t, u, {})
  BY <1>6, <1>7, <1>9, <1>10 DEF Keeps, heap
<1>16. \A n \in DOMAIN t.heap : /\ u.heap[n].key = t.heap[n].key
                                /\ u.heap[n].value = IF n = e THEN v ELSE t.heap[n].value
  BY <1>7, <1>10 DEF heap
<1>. QED  BY <1>10, <1>11, <1>12, <1>13, <1>14, <1>15, <1>16

LEMMA ValueSetFits ==
  ASSUME NEW t, Fit(t), Roomy(t), NEW e \in Linked(t), NEW v \in HashValue, NEW u,
         u = [t EXCEPT !.heap[e].value = v],
         NEW m \in [Key -> HashValue \union {NoValue}], Agrees(t, m)
  PROVE  /\ Fit(u) /\ Roomy(u) /\ u.mask = t.mask /\ Keeps(t, u, {})
         /\ t.heap[e].key \in Key /\ m[t.heap[e].key] # NoValue
         /\ Agrees(u, [m EXCEPT ![t.heap[e].key] = v])
<1>1. IsTable(t) /\ Placed(t) /\ Once(t) /\ Linked(t) \subseteq DOMAIN t.heap
  BY LinkedIn DEF Fit
<1>. DEFINE k == t.heap[e].key
<1>2. k \in Key /\ t.heap[e].value \in HashValue
  BY <1>1, NextIn DEF IsTable
<1>3. /\ IsTable(u) /\ u.mask = t.mask /\ u.count = t.count
      /\ Keeps(t, u, {})
      /\ \A b \in Buckets(t) : Mine(u, b) = Mine(t, b)
      /\ Linked(u) = Linked(t) /\ Buckets(u) = Buckets(t)
      /\ \A n \in DOMAIN t.heap : /\ u.heap[n].key = t.heap[n].key
                                  /\ u.heap[n].value = IF n = e THEN v ELSE t.heap[n].value
  BY <1>1, ValueSet
<1>4. Placed(u)
  <2>1. SUFFICES ASSUME NEW b \in Buckets(t), NEW n \in Mine(t, b)
                 PROVE  Bucket(Hash[u.heap[n].key], t.mask) = b
    BY <1>3 DEF Placed
  <2>2. n \in DOMAIN t.heap
    BY <1>1, BucketIs
  <2>. QED  BY <1>1, <1>3, <2>1, <2>2 DEF Placed
<1>5. Once(u)
  BY <1>1, <1>3 DEF Once
<1>6. KeysIn(u) = KeysIn(t)
  BY <1>1, <1>3 DEF KeysIn
<1>7. Fit(u) /\ Roomy(u)
  BY <1>3, <1>4, <1>5, <1>6 DEF Fit, Roomy
<1>8. Stores(t, k, t.heap[e].value)
  BY DEF Stores
<1>9. m[k] # NoValue
  BY <1>2, <1>8, HashTableAssumption DEF Agrees
<1>10. ASSUME NEW l \in Key, NEW x \in HashValue
       PROVE  Stores(u, l, x) <=> (IF l = k THEN v ELSE m[l]) = x
  <2>1. Stores(u, l, x) <=> \E n \in Linked(t) :
                             t.heap[n].key = l /\ (IF n = e THEN v ELSE t.heap[n].value) = x
    BY <1>1, <1>3 DEF Stores
  <2>2. CASE l = k
    <3>1. \A n \in Linked(t) : t.heap[n].key = l => n = e
      BY <1>1, <2>2 DEF Once
    <3>. QED  BY <2>1, <2>2, <3>1
  <2>3. CASE l # k
    <3>1. Stores(u, l, x) <=> Stores(t, l, x)
      BY <2>1, <2>3 DEF Stores
    <3>. QED  BY <2>3, <3>1 DEF Agrees
  <2>. QED  BY <2>2, <2>3
<1>11. Agrees(u, [m EXCEPT ![k] = v])
  <2>. DEFINE w == [m EXCEPT ![k] = v]
  <2>1. \A l \in Key : w[l] = IF l = k THEN v ELSE m[l]
    <3>. HIDE DEF k
    <3>. QED  BY <1>2
  <2>. HIDE DEF w, k
  <2>2. Agrees(u, w)
    BY <1>10, <2>1 DEF Agrees
  <2>. QED  BY <2>2 DEF w
<1>. QED  BY <1>2, <1>3, <1>7, <1>9, <1>11

-----------------------------------------------------------------------------
(* A key is put into a table that has none.                                *)

LEMMA Recounted ==
  ASSUME NEW t, IsTable(t), NEW c, NEW u, u = [t EXCEPT !.count = c]
  PROVE  /\ IsTable(u) /\ u.mask = t.mask /\ u.count = c /\ u.heap = t.heap
         /\ Linked(u) = Linked(t)
         /\ Placed(t) => Placed(u)
         /\ Once(t) => Once(u)
         /\ \A k, x : Stores(u, k, x) <=> Stores(t, k, x)
<1>1. WithFields([t EXCEPT !.count = c], t.vector, t.mask, c, t.heap)
  BY RecordWith DEF IsTable
<1>2. WithFields(u, t.vector, t.mask, c, t.heap)
  BY ONLY <1>1, u = [t EXCEPT !.count = c]
<1>3. u.vector = t.vector /\ u.mask = t.mask /\ u.count = c /\ u.heap = t.heap /\ IsRecord(u)
  BY <1>2 DEF WithFields
<1>4. IsTable(u)
  BY ONLY <1>3, IsTable(t) DEF IsTable
<1>5. Buckets(u) = Buckets(t) /\ \A b : Mine(u, b) = Mine(t, b)
  BY ONLY <1>3 DEF Buckets, Mine
<1>6. Linked(u) = Linked(t)
  <2>1. Linked(u) = UNION {Mine(u, b) : b \in Buckets(u)}
    BY LinkedIs
  <2>2. Linked(t) = UNION {Mine(t, b) : b \in Buckets(t)}
    BY LinkedIs
  <2>. QED  BY ONLY <1>5, <2>1, <2>2
<1>7. Placed(t) => Placed(u)
  BY ONLY <1>3, <1>5 DEF Placed
<1>8. Once(t) => Once(u)
  BY ONLY <1>3, <1>6 DEF Once
<1>9. \A k, x : Stores(u, k, x) <=> Stores(t, k, x)
  BY ONLY <1>3, <1>6 DEF Stores
<1>. QED  BY ONLY <1>3, <1>4, <1>6, <1>7, <1>8, <1>9

\* The keys are those of the values.
LEMMA SameKeys ==
  ASSUME NEW t, NEW u, IsTable(t), IsTable(u), \A k, x : Stores(u, k, x) <=> Stores(t, k, x)
  PROVE  KeysIn(u) = KeysIn(t)
<1>1. \A k : k \in KeysIn(u) <=> k \in KeysIn(t)
  BY KeysAre
<1>. QED  BY <1>1 DEF KeysIn

LEMMA PutFits ==
  ASSUME NEW t, Fit(t), Roomy(t), NEW k \in Key, NEW v \in HashValue,
         \A e \in Linked(t) : t.heap[e].key # k,
         NEW m \in [Key -> HashValue \union {NoValue}], Agrees(t, m)
  PROVE  /\ Fit(Put(t, k, v)) /\ Roomy(Put(t, k, v)) /\ Keeps(t, Put(t, k, v), {})
         /\ Agrees(Put(t, k, v), [m EXCEPT ![k] = v])
<1>. DEFINE counted == [t EXCEPT !.count = t.count + 1]
            wide == (t.mask + 1) * 2 - 1
            base == IF Full(counted) THEN ChangeSize(counted, wide) ELSE counted
            u == Prepend(base, k, v)
<1>1. IsTable(t) /\ Placed(t) /\ Once(t) /\ t.count \in Nat /\ Cardinality(KeysIn(t)) <= t.count
      /\ t.mask \in Nat /\ t.count <= t.mask + 1
  BY DEF Fit, IsTable, Roomy
<1>2. Put(t, k, v) = u
  BY DEF Put
<1>3. /\ IsTable(counted) /\ counted.mask = t.mask /\ counted.count = t.count + 1
      /\ counted.heap = t.heap /\ Placed(counted) /\ Once(counted)
      /\ \A l, x : Stores(counted, l, x) <=> Stores(t, l, x)
  <2>. HIDE DEF counted
  <2>1. counted = [t EXCEPT !.count = t.count + 1]
    BY DEF counted
  <2>. QED  BY <1>1, <2>1, Recounted
<1>. HIDE DEF counted
<1>4. wide \in Nat /\ wide + 1 = (t.mask + 1) * 2 /\ (t.mask + 1) * 2 >= t.mask + 2
  BY <1>1
<1>. HIDE DEF wide
<1>5. /\ IsTable(base) /\ Placed(base) /\ Once(base) /\ base.count = t.count + 1
      /\ Extends(t.heap, base.heap) /\ base.count <= base.mask + 1
      /\ \A l, x : Stores(base, l, x) <=> Stores(t, l, x)
  <2>1. CASE Full(counted)
    <3>1. /\ IsTable(base) /\ Placed(base) /\ Once(base) /\ Extends(counted.heap, base.heap)
          /\ base.mask = wide /\ base.count = counted.count
          /\ \A l, x : Stores(base, l, x) <=> Stores(counted, l, x)
      <4>1. base = ChangeSize(counted, wide)
        BY <2>1
      <4>. HIDE DEF base
      <4>. QED  BY <1>3, <1>4, <4>1, ChangedSize
    <3>. HIDE DEF base
    <3>2. base.count <= base.mask + 1
      BY <1>1, <1>3, <1>4, <3>1
    <3>. QED  BY <1>3, <3>1, <3>2
  <2>2. CASE ~Full(counted)
    <3>1. base = counted
      BY <2>2
    <3>2. counted.count <= counted.mask + 1
      BY <1>1, <1>3, <2>2 DEF Full
    <3>. HIDE DEF base
    <3>. QED  BY <1>3, <3>1, <3>2 DEF Extends
  <2>. QED  BY <2>1, <2>2
<1>. HIDE DEF base
<1>6. \A e \in Linked(base) : base.heap[e].key # k
  <2>1. SUFFICES ASSUME NEW e \in Linked(base), base.heap[e].key = k
                 PROVE  FALSE
    OBVIOUS
  <2>2. Stores(base, k, base.heap[e].value)
    BY <2>1 DEF Stores
  <2>3. Stores(t, k, base.heap[e].value)
    BY <1>5, <2>2
  <2>. QED  BY <2>3 DEF Stores
<1>7. Added(base, u, k, v)
  BY <1>5, PrependIs
<1>. HIDE DEF u
<1>8. Placed(u) /\ Once(u) /\ \A l, y : Stores(u, l, y) <=> Stores(base, l, y) \/ (l = k /\ y = v)
  BY <1>5, <1>6, <1>7, AddedHolds
<1>9. IsTable(u) /\ u.mask = base.mask /\ u.count = base.count /\ Extends(base.heap, u.heap)
  BY <1>7 DEF Added
<1>10. Extends(t.heap, u.heap)
  BY <1>5, <1>9 DEF Extends
<1>11. Keeps(t, u, {})
  BY <1>1, <1>9, <1>10, ExtendsKeeps, KeepsItself
<1>12. \A l, y : Stores(u, l, y) <=> Stores(t, l, y) \/ (l = k /\ y = v)
  BY <1>5, <1>8
<1>13. Cardinality(KeysIn(u)) <= u.count
  <2>1. \A l : l \in KeysIn(u) <=> l \in KeysIn(t) \union {k}
    BY <1>1, <1>9, <1>12, KeysAre
  <2>2. KeysIn(u) = KeysIn(t) \union {k}
    BY <2>1 DEF KeysIn
  <2>3. IsFiniteSet(KeysIn(t))
    BY <1>1, KeysAre
  <2>4. Cardinality(KeysIn(u)) <= Cardinality(KeysIn(t)) + 1
    <3>1. Cardinality(KeysIn(t)) \in Nat
      BY <2>3, FS_CardinalityType
    <3>2. Cardinality(KeysIn(u))
            = IF k \in KeysIn(t) THEN Cardinality(KeysIn(t)) ELSE Cardinality(KeysIn(t)) + 1
      BY <2>2, <2>3, FS_AddElement
    <3>. QED  BY <3>1, <3>2
  <2>5. Cardinality(KeysIn(t)) \in Nat /\ Cardinality(KeysIn(u)) \in Nat
    <3>1. IsFiniteSet(KeysIn(u))
      BY <1>9, KeysAre
    <3>. QED  BY <2>3, <3>1, FS_CardinalityType
  <2>. QED  BY <1>1, <1>5, <1>9, <2>4, <2>5
<1>14. Fit(u) /\ Roomy(u)
  BY <1>1, <1>5, <1>8, <1>9, <1>13 DEF Fit, Roomy
<1>15. Agrees(u, [m EXCEPT ![k] = v])
  <2>. DEFINE w == [m EXCEPT ![k] = v]
  <2>1. \A l \in Key : w[l] = IF l = k THEN v ELSE m[l]
    OBVIOUS
  <2>. HIDE DEF w
  <2>2. \A x : ~Stores(t, k, x)
    BY DEF Stores
  <2>3. ASSUME NEW l \in Key, NEW x \in HashValue
        PROVE  Stores(u, l, x) <=> w[l] = x
    <3>1. Stores(u, l, x) <=> Stores(t, l, x) \/ (l = k /\ x = v)
      BY <1>12
    <3>2. Stores(t, l, x) <=> m[l] = x
      BY DEF Agrees
    <3>. QED  BY <2>1, <2>2, <3>1, <3>2
  <2>4. Agrees(u, w)
    BY <2>3 DEF Agrees
  <2>. QED  BY <2>4 DEF w
<1>. QED  BY <1>2, <1>11, <1>14, <1>15

-----------------------------------------------------------------------------
(* An entry leaves its chain.                                              *)

\* The entry before one is led past it.
LedPast(heap, before, e, g) == g = [heap EXCEPT ![before].next = heap[e].next]

LEMMA Bypassed ==
  ASSUME NEW heap, Linear(heap), NEW before \in DOMAIN heap, NEW e \in DOMAIN heap,
         heap[before].next = e, NEW g, LedPast(heap, before, e, g)
  PROVE  /\ Linear(g) /\ DOMAIN g = DOMAIN heap
         /\ \A n \in DOMAIN heap : g[n].key = heap[n].key /\ g[n].value = heap[n].value
         /\ \A n \in DOMAIN heap \union {NULL} :
              On(g, n) = IF before \in On(heap, n) THEN On(heap, n) \ {e} ELSE On(heap, n)
<1>. DEFINE entry == [heap[before] EXCEPT !.next = heap[e].next]
<1>1. heap[before] \in Entries(DOMAIN heap) /\ heap[e].next \in DOMAIN heap \union {NULL}
  BY NextIn DEF Linear
<1>2. entry.key = heap[before].key /\ entry.value = heap[before].value
      /\ entry.next = heap[e].next /\ entry \in Entries(DOMAIN heap)
  BY <1>1 DEF Entries
<1>3. DOMAIN g = DOMAIN heap /\ g[before] = entry
      /\ \A n \in DOMAIN heap : n # before => g[n] = heap[n]
  <2>1. g = [heap EXCEPT ![before] = entry]
    BY DEF LedPast
  <2>. HIDE DEF entry
  <2>. QED  BY ONLY <2>1, before \in DOMAIN heap
<1>. HIDE DEF entry
<1>4. \A n \in DOMAIN heap : /\ g[n].key = heap[n].key /\ g[n].value = heap[n].value
                             /\ g[n].next = IF n = before THEN heap[e].next ELSE heap[n].next
  BY ONLY <1>2, <1>3
<1>5. Linear(g)
  <2>1. g \in [DOMAIN g -> Entries(DOMAIN g)]
    <3>1. \A n \in DOMAIN heap : heap[n] \in Entries(DOMAIN heap)
      BY DEF Linear
    <3>2. \A n \in DOMAIN g : g[n] \in Entries(DOMAIN g)
      BY ONLY <1>2, <1>3, <3>1
    <3>3. g = [n \in DOMAIN g |-> g[n]]
      BY DEF LedPast
    <3>. QED  BY ONLY <3>2, <3>3
  <2>2. PICK N \in Nat : \E rank : Ranked(heap, N, rank)
    BY DEF Linear
  <2>3. PICK rank : Ranked(heap, N, rank)
    BY <2>2
  <2>4. \A n \in DOMAIN heap : rank[n] \in 0..N
    BY <2>3 DEF Ranked
  <2>5. ASSUME NEW n \in DOMAIN g, g[n].next # NULL
        PROVE  rank[g[n].next] < rank[n]
    <3>1. CASE n # before
      BY <1>3, <2>3, <2>5, <3>1 DEF Ranked
    <3>2. CASE n = before
      <4>1. g[n].next = heap[e].next
        BY <1>3, <1>4, <3>2
      <4>2. e # NULL
        BY NextIn
      <4>3. rank[e] < rank[before] /\ rank[heap[e].next] < rank[e]
        BY <2>3, <2>5, <4>1, <4>2 DEF Ranked
      <4>4. heap[e].next \in DOMAIN heap
        BY <1>1, <2>5, <4>1
      <4>5. rank[e] \in 0..N /\ rank[before] \in 0..N /\ rank[heap[e].next] \in 0..N
        BY <2>4, <4>4
      <4>. QED  BY <3>2, <4>1, <4>3, <4>5
    <3>. QED  BY <3>1, <3>2
  <2>6. Ranked(g, N, rank)
    BY <1>3, <2>3, <2>5 DEF Ranked
  <2>. QED  BY <1>3, <2>1, <2>2, <2>6 DEF Linear
<1>. DEFINE S == {n \in DOMAIN heap \union {NULL} :
                    On(g, n) = IF before \in On(heap, n) THEN On(heap, n) \ {e} ELSE On(heap, n)}
<1>6. NULL \in S
  BY <1>5, OnIs
<1>7. ASSUME NEW n \in DOMAIN heap, heap[n].next \in S
      PROVE  n \in S
  <2>1. On(heap, n) = {n} \union On(heap, heap[n].next)
    BY OnIs
  <2>2. On(g, n) = {n} \union On(g, g[n].next)
    BY <1>3, <1>5, OnIs
  <2>3. n \notin On(heap, heap[n].next)
    BY OnForward
  <2>4. heap[n].next \in DOMAIN heap \union {NULL}
    BY NextIn
  <2>5. CASE n # before
    <3>1. g[n].next = heap[n].next
      BY <1>4, <2>5
    <3>2. before \in On(heap, n) <=> before \in On(heap, heap[n].next)
      BY <2>1, <2>5
    <3>3. before \in On(heap, heap[n].next) => n # e
      <4>1. SUFFICES ASSUME before \in On(heap, heap[n].next)
                     PROVE  n # e
        OBVIOUS
      <4>2. heap[before].next \in On(heap, heap[n].next) \union {NULL}
        BY <2>4, <4>1, OnFurther
      <4>3. e \in On(heap, heap[n].next)
        BY <4>2, NextIn
      <4>. QED  BY <2>3, <4>3
    <3>. QED  BY <1>7, <2>1, <2>2, <3>1, <3>2, <3>3
  <2>6. CASE n = before
    <3>1. before \notin On(heap, e) /\ before # e
      <4>1. On(heap, e) = {e} \union On(heap, heap[e].next)
        BY OnIs
      <4>. QED  BY <2>3, <2>6, <4>1
    <3>2. On(g, e) = On(heap, e)
      BY <1>7, <2>6, <3>1
    <3>3. On(heap, e) = {e} \union On(heap, heap[e].next) /\ e \notin On(heap, heap[e].next)
      BY OnIs, OnForward
    <3>4. On(g, e) = {e} \union On(g, g[e].next) /\ e \notin On(g, g[e].next)
      <4>1. e \in DOMAIN g
        BY <1>3
      <4>. QED  BY ONLY <1>5, <4>1, OnIs, OnForward
    <3>5. g[e].next = heap[e].next /\ g[n].next = heap[e].next
      BY <1>4, <2>6, <3>1
    <3>6. On(g, heap[e].next) = On(heap, heap[e].next)
      BY ONLY <3>2, <3>3, <3>4, <3>5
    <3>7. On(g, n) = {n} \union On(heap, heap[e].next)
      BY ONLY <2>2, <3>5, <3>6
    <3>8. On(heap, n) = {n} \union ({e} \union On(heap, heap[e].next))
      BY <2>1, <2>6, <3>3
    <3>9. On(g, n) = On(heap, n) \ {e} /\ before \in On(heap, n)
      BY ONLY <2>6, <3>1, <3>3, <3>7, <3>8
    <3>. QED  BY <3>9
  <2>. QED  BY <2>5, <2>6
<1>8. \A n \in DOMAIN heap \union {NULL} : n \in S
  <2>. HIDE DEF S
  <2>. QED  BY <1>6, <1>7, AlongChains
<1>. QED  BY <1>3, <1>4, <1>5, <1>8

\* The entries in use that are no longer in bucket b.
Dropped(t, e, b) == IF t.vector[b] = e THEN Mine(t, b) ELSE {e}

\* Table w is t without some of the entries of its buckets.
Without(t, w, some) ==
  /\ IsTable(w) /\ w.mask = t.mask /\ w.count = t.count /\ DOMAIN w.heap = DOMAIN t.heap
  /\ \A n \in DOMAIN t.heap :
       /\ w.heap[n].key = t.heap[n].key /\ w.heap[n].value = t.heap[n].value
       /\ On(w.heap, n) \subseteq On(t.heap, n) /\ On(t.heap, n) \ On(w.heap, n) \subseteq some
  /\ \A c \in Buckets(t) : Mine(w, c) = Mine(t, c) \ some

LEMMA UnlinkIs ==
  ASSUME NEW t, IsTable(t), Placed(t), NEW b \in Buckets(t), NEW e \in Mine(t, b)
  PROVE  Without(t, Unlink(t, e, b), Dropped(t, e, b))
<1>. DEFINE heap == t.heap
            w == Unlink(t, e, b)
<1>1. /\ IsRecord(t) /\ t.mask \in Nat /\ Linear(heap) /\ e \in DOMAIN heap
      /\ t.vector \in [0..t.mask -> DOMAIN heap \union {NULL}] /\ Buckets(t) = 0..t.mask
  BY BucketIs DEF IsTable, Buckets
<1>2. \A c \in Buckets(t) : c # b => \A n \in Mine(t, c) : n \notin Mine(t, b)
  BY DEF Placed
<1>3. CASE t.vector[b] = e
  <2>. DEFINE vector == [t.vector EXCEPT ![b] = NULL]
  <2>1. w = [t EXCEPT !.vector = vector]
    <3>1. PICK tv, m, c, h : t = [vector |-> tv, mask |-> m, count |-> c, heap |-> h]
      BY <1>1 DEF IsRecord
    <3>2. w = [t EXCEPT !.vector[b] = NULL]
      BY <1>3 DEF Unlink
    <3>. HIDE DEF w
    <3>. QED  BY ONLY <3>1, <3>2
  <2>2. vector \in [0..t.mask -> DOMAIN heap \union {NULL}] /\ vector[b] = NULL
        /\ \A c \in Buckets(t) : c # b => vector[c] = t.vector[c]
    BY <1>1
  <2>. HIDE DEF vector, w
  <2>3. w.vector = vector /\ w.mask = t.mask /\ w.count = t.count /\ w.heap = heap /\ IsRecord(w)
    <3>1. WithFields([t EXCEPT !.vector = vector], vector, t.mask, t.count, t.heap)
      BY <1>1, RecordWith
    <3>2. WithFields(w, vector, t.mask, t.count, heap)
      BY ONLY <2>1, <3>1 DEF heap
    <3>. QED  BY ONLY <3>2 DEF WithFields
  <2>4. IsTable(w)
    BY <1>1, <2>2, <2>3 DEF IsTable
  <2>5. \A c \in Buckets(t) : Mine(w, c) = Mine(t, c) \ Mine(t, b)
    <3>1. SUFFICES ASSUME NEW c \in Buckets(t)
                   PROVE  Mine(w, c) = Mine(t, c) \ Mine(t, b)
      OBVIOUS
    <3>2. CASE c = b
      <4>1. Mine(w, c) = {}
        BY <1>1, <2>2, <2>3, <3>2, OnIs DEF Mine
      <4>. QED  BY <3>2, <4>1
    <3>3. CASE c # b
      <4>1. Mine(w, c) = Mine(t, c)
        BY <2>2, <2>3, <3>3 DEF Mine, heap
      <4>. QED  BY <1>2, <3>3, <4>1
    <3>. QED  BY <3>2, <3>3
  <2>6. Dropped(t, e, b) = Mine(t, b)
    BY <1>3 DEF Dropped
  <2>7. Without(t, w, Mine(t, b))
    BY ONLY <2>3, <2>4, <2>5 DEF Without, heap
  <2>. QED  BY <2>6, <2>7 DEF w
<1>4. CASE t.vector[b] # e
  <2>. DEFINE before == CHOOSE n \in ToSet(InBucket(t, b)) : t.heap[n].next = e
              g == [heap EXCEPT ![before].next = heap[e].next]
  <2>1. before \in Mine(t, b) /\ heap[before].next = e
    <3>1. \E n \in Mine(t, b) : heap[n].next = e
      <4>1. t.vector[b] \in DOMAIN heap \union {NULL}
        BY <1>1
      <4>. QED  BY <1>1, <1>4, <4>1, OnBefore DEF Mine
    <3>2. ToSet(InBucket(t, b)) = Mine(t, b)
      BY BucketIs
    <3>. QED  BY <3>1, <3>2
  <2>2. w = [t EXCEPT !.heap = g]
    <3>1. PICK tv, m, c, h : t = [vector |-> tv, mask |-> m, count |-> c, heap |-> h]
      BY <1>1 DEF IsRecord
    <3>2. w = [t EXCEPT !.heap[before].next = t.heap[e].next]
      BY <1>4 DEF Unlink
    <3>3. t.heap = h
      BY ONLY <3>1
    <3>. HIDE DEF w, before
    <3>. QED  BY ONLY <3>1, <3>2, <3>3 DEF heap
  <2>. HIDE DEF before
  <2>3. before \in DOMAIN heap
    BY <2>1, BucketIs
  <2>. DEFINE h == g
  <2>4. LedPast(heap, before, e, h)
    BY DEF LedPast
  <2>. HIDE DEF h
  <2>5. /\ Linear(h) /\ DOMAIN h = DOMAIN heap
        /\ \A n \in DOMAIN heap : h[n].key = heap[n].key /\ h[n].value = heap[n].value
        /\ \A n \in DOMAIN heap \union {NULL} :
             On(h, n) = IF before \in On(heap, n) THEN On(heap, n) \ {e} ELSE On(heap, n)
    <3>1. Linear(heap) /\ e \in DOMAIN heap /\ before \in DOMAIN heap /\ heap[before].next = e
      BY <1>1, <2>1, <2>3
    <3>. HIDE DEF heap
    <3>. QED  BY ONLY <2>4, <3>1, Bypassed
  <2>6. w = [t EXCEPT !.heap = h]
    BY <2>2 DEF h
  <2>. HIDE DEF w
  <2>7. w.vector = t.vector /\ w.mask = t.mask /\ w.count = t.count /\ w.heap = h /\ IsRecord(w)
    <3>1. WithFields([t EXCEPT !.heap = h], t.vector, t.mask, t.count, h)
      BY <1>1, RecordWith
    <3>2. WithFields(w, t.vector, t.mask, t.count, h)
      BY ONLY <2>6, <3>1
    <3>. QED  BY ONLY <3>2 DEF WithFields
  <2>8. IsTable(w)
    BY <1>1, <2>5, <2>7 DEF IsTable
  <2>9. ASSUME NEW c \in Buckets(t)
        PROVE  Mine(w, c) = Mine(t, c) \ {e}
    <3>1. t.vector[c] \in DOMAIN heap \union {NULL}
      BY <1>1
    <3>2. Mine(w, c) = IF before \in Mine(t, c) THEN Mine(t, c) \ {e} ELSE Mine(t, c)
      BY <2>5, <2>7, <3>1 DEF Mine, heap
    <3>3. before \notin Mine(t, c) => e \notin Mine(t, c)
      BY <1>2, <2>1
    <3>. QED  BY <3>2, <3>3
  <2>10. Dropped(t, e, b) = {e}
    BY <1>4 DEF Dropped
  <2>11. \A n \in DOMAIN heap : On(h, n) \subseteq On(heap, n) /\ On(heap, n) \ On(h, n) \subseteq {e}
    BY <2>5
  <2>12. Without(t, w, {e})
    BY ONLY <2>5, <2>7, <2>8, <2>9, <2>11 DEF Without, heap
  <2>. QED  BY <2>10, <2>12 DEF w
<1>. QED  BY <1>3, <1>4

KeysOf(t, some) == {t.heap[n].key : n \in some}

LEMMA WithoutIs ==
  ASSUME NEW t, IsTable(t), Placed(t), Once(t), NEW some \in SUBSET Linked(t), NEW w,
         Without(t, w, some), NEW gone, gone = KeysOf(t, some)
  PROVE  /\ Placed(w) /\ Once(w) /\ Keeps(t, w, gone)
         /\ \A k, x : Stores(w, k, x) <=> Stores(t, k, x) /\ k \notin gone
<1>1. Linked(t) \subseteq DOMAIN t.heap /\ Buckets(w) = Buckets(t)
  BY LinkedIn DEF Without, Buckets
<1>2. Linked(w) = Linked(t) \ some
  <2>1. Linked(w) = UNION {Mine(w, b) : b \in Buckets(t)}
    BY <1>1, LinkedIs
  <2>2. Linked(t) = UNION {Mine(t, b) : b \in Buckets(t)}
    BY LinkedIs
  <2>3. \A b \in Buckets(t) : Mine(w, b) = Mine(t, b) \ some
    BY DEF Without
  <2>. QED  BY ONLY <2>1, <2>2, <2>3
<1>3. \A n \in DOMAIN t.heap : w.heap[n].key = t.heap[n].key /\ w.heap[n].value = t.heap[n].value
  BY DEF Without
<1>4. Placed(w)
  <2>1. SUFFICES ASSUME NEW b \in Buckets(t), NEW n \in Mine(w, b)
                 PROVE  Bucket(Hash[w.heap[n].key], w.mask) = b
    BY <1>1 DEF Placed
  <2>2. n \in Mine(t, b) /\ w.mask = t.mask
    BY DEF Without
  <2>3. n \in DOMAIN t.heap
    BY <2>2, BucketIs
  <2>. QED  BY <1>3, <2>2, <2>3 DEF Placed
<1>5. Once(w)
  BY <1>1, <1>2, <1>3 DEF Once
<1>6. ASSUME NEW k, NEW x
      PROVE  Stores(w, k, x) <=> Stores(t, k, x) /\ k \notin gone
  <2>1. ASSUME NEW n \in Linked(t)
        PROVE  n \in some <=> t.heap[n].key \in gone
    BY <2>1 DEF Once, KeysOf
  <2>2. Stores(w, k, x) <=> \E n \in Linked(t) \ some : t.heap[n].key = k /\ t.heap[n].value = x
    BY <1>1, <1>2, <1>3 DEF Stores
  <2>. QED  BY <2>1, <2>2 DEF Stores
<1>7. Keeps(t, w, gone)
  BY DEF Keeps, Without, KeysOf
<1>. QED  BY <1>4, <1>5, <1>6, <1>7

LEMMA DeleteFits ==
  ASSUME NEW t, Fit(t), Roomy(t), NEW b \in Buckets(t), NEW e \in Mine(t, b), NEW gone,
         gone = KeysOf(t, Dropped(t, e, b))
  PROVE  /\ Fit(Delete(t, e, b)) /\ Roomy(Delete(t, e, b)) /\ Keeps(t, Delete(t, e, b), gone)
         /\ \A k, x : Stores(Delete(t, e, b), k, x) <=> Stores(t, k, x) /\ k \notin gone
<1>. DEFINE some == Dropped(t, e, b)
            w == Unlink(t, e, b)
            unlinked == [w EXCEPT !.count = w.count - 1]
            narrow == ((t.mask + 1) \div 2) - 1
            u == IF Sparse(unlinked) THEN ChangeSize(unlinked, narrow) ELSE unlinked
            k == t.heap[e].key
<1>1. IsTable(t) /\ Placed(t) /\ Once(t) /\ t.count \in Nat /\ Cardinality(KeysIn(t)) <= t.count
      /\ t.mask \in Nat /\ t.count <= t.mask + 1
  BY DEF Fit, IsTable, Roomy
<1>2. Delete(t, e, b) = u
  BY DEF Delete
<1>3. Without(t, w, some) /\ e \in Linked(t) /\ some \in SUBSET Linked(t) /\ e \in some
  <2>1. Mine(t, b) \subseteq Linked(t)
    BY <1>1, BucketIs
  <2>2. Without(t, w, some)
    BY <1>1, UnlinkIs
  <2>. QED  BY <2>1, <2>2 DEF Dropped
<1>. HIDE DEF w, some
<1>4. /\ Placed(w) /\ Once(w) /\ Keeps(t, w, gone)
      /\ \A l, x : Stores(w, l, x) <=> Stores(t, l, x) /\ l \notin gone
  <2>1. gone = KeysOf(t, some)
    BY DEF some
  <2>. QED  BY ONLY <1>1, <1>3, <2>1, WithoutIs
<1>5. IsTable(w) /\ w.mask = t.mask /\ w.count = t.count
  BY <1>3 DEF Without
<1>6. /\ IsTable(unlinked) /\ unlinked.mask = t.mask /\ unlinked.count = t.count - 1
      /\ unlinked.heap = w.heap /\ Placed(unlinked) /\ Once(unlinked)
      /\ \A l, x : Stores(unlinked, l, x) <=> Stores(w, l, x)
  <2>. HIDE DEF unlinked
  <2>1. unlinked = [w EXCEPT !.count = w.count - 1]
    BY DEF unlinked
  <2>. QED  BY <1>4, <1>5, <2>1, Recounted
<1>. HIDE DEF unlinked
<1>7. k \in KeysIn(t) /\ k \in gone
  BY <1>3 DEF KeysIn, KeysOf, some
<1>8. IsFiniteSet(KeysIn(t)) /\ Cardinality(KeysIn(t)) \in Nat /\ Cardinality(KeysIn(t)) >= 1
  <2>1. IsFiniteSet(KeysIn(t))
    BY <1>1, KeysAre
  <2>2. Cardinality(KeysIn(t)) \in Nat
    BY <2>1, FS_CardinalityType
  <2>3. Cardinality(KeysIn(t)) # 0
    BY <1>7, <2>1, FS_EmptySet
  <2>. QED  BY <2>1, <2>2, <2>3
<1>9. t.count - 1 \in Nat
  BY <1>1, <1>8
<1>10. /\ IsTable(u) /\ Placed(u) /\ Once(u) /\ u.count = t.count - 1
       /\ Extends(w.heap, u.heap) /\ u.count <= u.mask + 1
       /\ \A l, x : Stores(u, l, x) <=> Stores(w, l, x)
  <2>1. CASE Sparse(unlinked)
    <3>1. (t.count - 1) + MARGIN < (t.mask + 1) \div 2
      BY <1>6, <2>1 DEF Sparse
    <3>2. MARGIN \in Nat
      BY HashTableAssumption
    <3>3. (t.mask + 1) \div 2 \in Nat
      BY <1>1
    <3>4. narrow \in Nat /\ t.count - 1 <= narrow + 1
      BY <1>9, <3>1, <3>2, <3>3
    <3>. HIDE DEF narrow
    <3>5. u = ChangeSize(unlinked, narrow)
      BY <2>1
    <3>. HIDE DEF u
    <3>6. /\ IsTable(u) /\ Placed(u) /\ Once(u) /\ Extends(unlinked.heap, u.heap)
          /\ u.mask = narrow /\ u.count = unlinked.count
          /\ \A l, x : Stores(u, l, x) <=> Stores(unlinked, l, x)
      BY <1>6, <3>4, <3>5, ChangedSize
    <3>. QED  BY <1>6, <3>4, <3>6
  <2>2. CASE ~Sparse(unlinked)
    <3>1. u = unlinked
      BY <2>2
    <3>2. t.count - 1 <= t.mask + 1
      BY <1>1
    <3>. HIDE DEF u
    <3>. QED  BY <1>6, <3>1, <3>2 DEF Extends
  <2>. QED  BY <2>1, <2>2
<1>. HIDE DEF u
<1>11. Keeps(t, u, gone)
  BY <1>1, <1>4, <1>5, <1>10, ExtendsKeeps
<1>12. \A l, x : Stores(u, l, x) <=> Stores(t, l, x) /\ l \notin gone
  BY <1>4, <1>10
<1>13. Cardinality(KeysIn(u)) <= u.count
  <2>1. \A l : l \in KeysIn(u) => l \in KeysIn(t) \ {k}
    BY <1>1, <1>7, <1>10, <1>12, KeysAre
  <2>2. IsFiniteSet(KeysIn(t) \ {k}) /\ Cardinality(KeysIn(t) \ {k}) = Cardinality(KeysIn(t)) - 1
    BY <1>7, <1>8, FS_RemoveElement
  <2>3. Cardinality(KeysIn(u)) <= Cardinality(KeysIn(t) \ {k})
    <3>1. KeysIn(u) \in SUBSET (KeysIn(t) \ {k})
      BY <2>1
    <3>. QED  BY <2>2, <3>1, FS_Subset
  <2>4. Cardinality(KeysIn(u)) \in Nat
    BY <1>10, KeysAre, FS_CardinalityType
  <2>. QED  BY <1>1, <1>8, <1>10, <2>2, <2>3, <2>4
<1>14. Fit(u) /\ Roomy(u)
  BY <1>9, <1>10, <1>13 DEF Fit, Roomy
<1>. QED  BY <1>2, <1>11, <1>12, <1>14

-----------------------------------------------------------------------------
(* The collector.                                                          *)

LEMMA CollectedIs ==
  ASSUME NEW t, IsTable(t), NEW e \in DOMAIN t.heap \union {NULL}, NEW u, u = Collected(t, e)
  PROVE  /\ IsTable(u) /\ u.mask = t.mask /\ u.count = t.count
         /\ DOMAIN u.heap = Linked(t) \union On(t.heap, e) /\ Linked(u) = Linked(t)
         /\ DOMAIN u.heap \subseteq DOMAIN t.heap
         /\ \A n \in DOMAIN u.heap : u.heap[n] = t.heap[n] /\ On(u.heap, n) = On(t.heap, n)
         /\ \A b \in Buckets(t) : u.vector[b] = t.vector[b] /\ Mine(u, b) = Mine(t, b)
<1>. DEFINE heap == t.heap
            D == Linked(t) \union On(heap, e)
            g == [n \in D |-> heap[n]]
<1>1. /\ IsRecord(t) /\ t.mask \in Nat /\ Linear(heap)
      /\ t.vector \in [0..t.mask -> DOMAIN heap \union {NULL}] /\ Buckets(t) = 0..t.mask
  BY DEF IsTable, Buckets
<1>2. Linked(t) \subseteq DOMAIN heap /\ On(heap, e) \subseteq DOMAIN heap
  BY <1>1, LinkedIn, OnIs
<1>3. u = [t EXCEPT !.heap = g]
  <2>1. PICK tv, m, c, h : t = [vector |-> tv, mask |-> m, count |-> c, heap |-> h]
    BY <1>1 DEF IsRecord
  <2>2. u = [t EXCEPT !.heap = [n \in Linked(t) \union ToSet(Chain(t.heap, e)) |-> t.heap[n]]]
    BY DEF Collected
  <2>. QED  BY <2>2 DEF On
<1>4. \A n \in D : heap[n].next \in D \union {NULL}
  <2>1. SUFFICES ASSUME NEW n \in D
                 PROVE  heap[n].next \in D \union {NULL}
    OBVIOUS
  <2>2. CASE n \in On(heap, e)
    BY <1>1, <2>2, OnFurther
  <2>3. CASE n \in Linked(t)
    <3>1. PICK b \in Buckets(t) : n \in Mine(t, b)
      BY <2>3, LinkedIs
    <3>2. t.vector[b] \in DOMAIN heap \union {NULL}
      BY <1>1
    <3>3. heap[n].next \in Mine(t, b) \union {NULL}
      BY <1>1, <3>1, <3>2, OnFurther DEF Mine
    <3>4. Mine(t, b) \subseteq Linked(t)
      BY BucketIs
    <3>. QED  BY <3>3, <3>4
  <2>. QED  BY <2>1, <2>2, <2>3
<1>5. DOMAIN g = D /\ \A n \in D : g[n] = heap[n]
  OBVIOUS
<1>6. D \subseteq DOMAIN heap
  BY <1>2
<1>. HIDE DEF g, D, heap
<1>7. Linear(g)
  <2>1. D \subseteq EntryName /\ IsFiniteSet(D)
    <3>1. DOMAIN heap \subseteq EntryName /\ IsFiniteSet(DOMAIN heap)
      BY <1>1 DEF Linear
    <3>. QED  BY <1>6, <3>1, FS_Subset
  <2>2. \A n \in D : g[n] \in Entries(D)
    <3>1. \A n \in D : heap[n] \in Entries(DOMAIN heap)
      BY <1>1, <1>6 DEF Linear
    <3>. QED  BY <1>4, <1>5, <3>1 DEF Entries
  <2>3. g \in [D -> Entries(D)]
    <3>1. g = [n \in D |-> g[n]]
      BY <1>5 DEF g
    <3>. QED  BY <2>2, <3>1
  <2>4. PICK N \in Nat : \E rank : Ranked(heap, N, rank)
    BY <1>1 DEF Linear
  <2>5. PICK rank : Ranked(heap, N, rank)
    BY <2>4
  <2>. DEFINE less == [n \in D |-> rank[n]]
  <2>6. less \in [D -> 0..N]
    <3>1. \A n \in D : rank[n] \in 0..N
      BY <1>6, <2>5 DEF Ranked
    <3>. QED  BY <3>1
  <2>7. \A n \in D : less[n] = rank[n]
    OBVIOUS
  <2>. HIDE DEF less
  <2>8. \A n \in D : g[n].next # NULL => less[g[n].next] < less[n]
    BY <1>4, <1>5, <1>6, <2>5, <2>7 DEF Ranked
  <2>9. Ranked(g, N, less)
    BY <1>5, <2>6, <2>8 DEF Ranked
  <2>. QED  BY <1>5, <2>1, <2>3, <2>4, <2>9 DEF Linear
<1>8. \A n \in D \union {NULL} : On(g, n) = On(heap, n)
  <2>1. DOMAIN g \subseteq DOMAIN heap /\ \A n \in DOMAIN g : heap[n].next = g[n].next
    BY <1>5, <1>6
  <2>. QED  BY <1>1, <1>5, <1>7, <2>1, SameChains DEF On
<1>9. u.vector = t.vector /\ u.mask = t.mask /\ u.count = t.count /\ u.heap = g /\ IsRecord(u)
  <2>1. WithFields([t EXCEPT !.heap = g], t.vector, t.mask, t.count, g)
    BY <1>1, RecordWith
  <2>2. WithFields(u, t.vector, t.mask, t.count, g)
    BY ONLY <1>3, <2>1
  <2>. QED  BY ONLY <2>2 DEF WithFields
<1>10. \A b \in Buckets(t) : t.vector[b] \in D \union {NULL}
  <2>1. SUFFICES ASSUME NEW b \in Buckets(t), t.vector[b] # NULL
                 PROVE  t.vector[b] \in D
    OBVIOUS
  <2>2. t.vector[b] \in Linked(t)
    BY <2>1, BucketIs
  <2>. QED  BY <2>2 DEF D
<1>11. IsTable(u)
  <2>1. t.vector \in [0..t.mask -> D \union {NULL}]
    BY <1>1, <1>10
  <2>. QED  BY <1>1, <1>5, <1>7, <1>9, <2>1 DEF IsTable
<1>12. \A b \in Buckets(t) : Mine(u, b) = Mine(t, b)
  BY <1>8, <1>9, <1>10 DEF Mine, heap
<1>13. Linked(u) = Linked(t)
  <2>1. Linked(u) = UNION {Mine(u, b) : b \in Buckets(u)}
    BY LinkedIs
  <2>2. Linked(t) = UNION {Mine(t, b) : b \in Buckets(t)}
    BY LinkedIs
  <2>3. Buckets(u) = Buckets(t)
    BY <1>9 DEF Buckets
  <2>. QED  BY ONLY <1>12, <2>1, <2>2, <2>3
<1>14. DOMAIN u.heap = Linked(t) \union On(t.heap, e)
  BY <1>5, <1>9 DEF D, heap
<1>15. \A n \in DOMAIN u.heap : u.heap[n] = t.heap[n] /\ On(u.heap, n) = On(t.heap, n)
  BY <1>5, <1>8, <1>9 DEF heap
<1>. QED  BY <1>5, <1>6, <1>9, <1>11, <1>12, <1>13, <1>14, <1>15 DEF heap

LEMMA CollectedFits ==
  ASSUME NEW t, Fit(t), Roomy(t), NEW e \in DOMAIN t.heap \union {NULL}, NEW u, u = Collected(t, e)
  PROVE  /\ Fit(u) /\ Roomy(u)
         /\ \A k, x : Stores(u, k, x) <=> Stores(t, k, x)
<1>1. IsTable(t) /\ Placed(t) /\ Once(t)
  BY DEF Fit
<1>2. /\ IsTable(u) /\ u.mask = t.mask /\ u.count = t.count
      /\ DOMAIN u.heap = Linked(t) \union On(t.heap, e) /\ Linked(u) = Linked(t)
      /\ \A n \in DOMAIN u.heap : u.heap[n] = t.heap[n]
      /\ \A b \in Buckets(t) : Mine(u, b) = Mine(t, b)
  BY <1>1, CollectedIs
<1>3. \A n \in Linked(t) : u.heap[n] = t.heap[n]
  BY <1>2
<1>4. Placed(u)
  <2>1. SUFFICES ASSUME NEW b \in Buckets(t), NEW n \in Mine(t, b)
                 PROVE  Bucket(Hash[u.heap[n].key], t.mask) = b
    BY <1>2 DEF Placed, Buckets
  <2>2. n \in Linked(t)
    BY LinkedIs
  <2>. QED  BY <1>1, <1>3, <2>2 DEF Placed
<1>5. Once(u)
  BY <1>1, <1>2, <1>3 DEF Once
<1>6. \A k, x : Stores(u, k, x) <=> Stores(t, k, x)
  BY ONLY <1>2, <1>3 DEF Stores
<1>7. KeysIn(u) = KeysIn(t)
  BY <1>1, <1>2, <1>6, SameKeys
<1>. QED  BY <1>2, <1>4, <1>5, <1>6, <1>7 DEF Fit, Roomy

-----------------------------------------------------------------------------
(* The iterator.                                                           *)

Stands(t, i) == i \in [bucket : Nat, entry : DOMAIN t.heap]

Behind(t, i) == On(t.heap, i.entry) \ {i.entry}
Home(t, k) == Bucket(Hash[k], t.mask)

\* On the chain of the iterator, which may be no more one of the table, no key
\* is twice; the keys behind it are not among those seen, which are of this
\* bucket and earlier ones; and those due that it has not seen are behind it or
\* in a later bucket.
Walking(t, i, dues, passed) ==
  /\ \A d, e \in On(t.heap, i.entry) : t.heap[d].key = t.heap[e].key => d = e
  /\ \A e \in On(t.heap, i.entry) : Home(t, t.heap[e].key) = i.bucket
  /\ \A e \in Behind(t, i) : t.heap[e].key \notin passed
  /\ \A k \in passed : k \in Key /\ Home(t, k) <= i.bucket
  /\ \A k \in dues \ passed :
       (\E e \in Behind(t, i) : t.heap[e].key = k) \/ Home(t, k) > i.bucket
  /\ dues \subseteq KeysIn(t)

\* The iterator keeps its place.
LEMMA KeptWalking ==
  ASSUME NEW t, NEW u, NEW i, NEW dues, NEW passed, NEW gone, IsTable(t), IsTable(u),
         Stands(t, i), Walking(t, i, dues, passed), Keeps(t, u, gone), u.mask = t.mask,
         \A k \in KeysIn(t) \ gone : k \in KeysIn(u)
  PROVE  Stands(u, i) /\ Walking(u, i, dues \ gone, passed \ gone)
<1>1. i.entry \in DOMAIN t.heap /\ Linear(t.heap)
  BY DEF Stands, IsTable
<1>2. /\ On(u.heap, i.entry) \subseteq On(t.heap, i.entry)
      /\ \A m \in On(t.heap, i.entry) \ On(u.heap, i.entry) : t.heap[m].key \in gone
  BY <1>1 DEF Keeps
<1>3. \A m \in On(t.heap, i.entry) : u.heap[m].key = t.heap[m].key
  <2>1. On(t.heap, i.entry) \subseteq DOMAIN t.heap
    BY <1>1, OnIs
  <2>. QED  BY <2>1 DEF Keeps
<1>4. \A k : Home(u, k) = Home(t, k)
  BY DEF Home
<1>5. Behind(u, i) \subseteq Behind(t, i)
      /\ \A m \in Behind(t, i) \ Behind(u, i) : t.heap[m].key \in gone
  BY <1>2 DEF Behind
<1>6. \A d, e \in On(u.heap, i.entry) : u.heap[d].key = u.heap[e].key => d = e
  BY <1>2, <1>3 DEF Walking
<1>7. \A e \in On(u.heap, i.entry) : Home(u, u.heap[e].key) = i.bucket
  BY <1>2, <1>3, <1>4 DEF Walking
<1>8. \A e \in Behind(t, i) : u.heap[e].key = t.heap[e].key
  BY <1>3 DEF Behind
<1>9. \A e \in Behind(u, i) : u.heap[e].key \notin passed \ gone
  BY <1>5, <1>8 DEF Walking
<1>10. \A k \in passed \ gone : k \in Key /\ Home(u, k) <= i.bucket
  BY <1>4 DEF Walking
<1>11. ASSUME NEW k \in (dues \ gone) \ (passed \ gone)
       PROVE  (\E e \in Behind(u, i) : u.heap[e].key = k) \/ Home(u, k) > i.bucket
  <2>1. (\E e \in Behind(t, i) : t.heap[e].key = k) \/ Home(t, k) > i.bucket
    BY DEF Walking
  <2>2. CASE Home(t, k) > i.bucket
    BY <1>4, <2>2
  <2>3. ASSUME NEW e \in Behind(t, i), t.heap[e].key = k
        PROVE  \E n \in Behind(u, i) : u.heap[n].key = k
    <3>1. e \in Behind(u, i)
      BY <1>5, <2>3
    <3>. QED  BY <1>8, <2>3, <3>1
  <2>. QED  BY <2>1, <2>2, <2>3
<1>12. dues \ gone \subseteq KeysIn(u)
  BY DEF Walking
<1>13. Stands(u, i)
  BY DEF Stands, Keeps
<1>. QED  BY <1>6, <1>7, <1>9, <1>10, <1>11, <1>12, <1>13 DEF Walking

LEMMA CollectedWalking ==
  ASSUME NEW t, Fit(t), Roomy(t), NEW i, NEW dues, NEW passed, Stands(t, i), NEW u,
         u = Collected(t, i.entry)
  PROVE  /\ Stands(u, i)
         /\ Walking(t, i, dues, passed) => Walking(u, i, dues, passed)
<1>1. i.entry \in DOMAIN t.heap /\ IsTable(t) /\ Linear(t.heap)
  BY DEF Stands, Fit, IsTable
<1>2. /\ IsTable(u) /\ u.mask = t.mask
      /\ DOMAIN u.heap = Linked(t) \union On(t.heap, i.entry)
      /\ \A n \in DOMAIN u.heap : u.heap[n] = t.heap[n] /\ On(u.heap, n) = On(t.heap, n)
  BY <1>1, CollectedIs
<1>3. i.entry \in On(t.heap, i.entry)
  BY <1>1, OnIs
<1>4. \A k, x : Stores(u, k, x) <=> Stores(t, k, x)
  BY <1>1, CollectedFits
<1>5. KeysIn(u) = KeysIn(t)
  BY <1>1, <1>2, <1>4, SameKeys
<1>6. \A k : Home(u, k) = Home(t, k)
  BY <1>2 DEF Home
<1>7. On(u.heap, i.entry) = On(t.heap, i.entry) /\ Behind(u, i) = Behind(t, i)
  BY <1>2, <1>3 DEF Behind
<1>8. \A e \in On(t.heap, i.entry) : u.heap[e] = t.heap[e]
  BY <1>2
<1>9. \A e \in Behind(t, i) : u.heap[e] = t.heap[e]
  BY <1>8 DEF Behind
<1>10. Stands(u, i)
  BY <1>2, <1>3 DEF Stands
<1>11. ASSUME Walking(t, i, dues, passed)
       PROVE  Walking(u, i, dues, passed)
  BY ONLY <1>5, <1>6, <1>7, <1>8, <1>9, <1>11 DEF Walking
<1>. QED  BY <1>10, <1>11

\* The search for the next bucket in use.
LEMMA NextBucketIs ==
  ASSUME NEW t, IsTable(t), NEW b \in Nat, NEW n, n = NextBucket(t, b)
  PROVE  /\ n \in Nat
         /\ n <= t.mask => n \in Buckets(t) /\ b <= n /\ t.vector[n] # NULL
         /\ \A c \in Buckets(t) : b <= c /\ t.vector[c] # NULL => n <= t.mask /\ n <= c
<1>. DEFINE full == {c \in b..t.mask : t.vector[c] # NULL}
<1>1. t.mask \in Nat /\ Buckets(t) = 0..t.mask
  BY DEF IsTable, Buckets
<1>2. n = IF full = {} THEN t.mask + 1 ELSE CHOOSE c \in full : \A m \in full : c <= m
  BY DEF NextBucket
<1>3. \A c \in Buckets(t) : b <= c /\ t.vector[c] # NULL => c \in full
  BY <1>1
<1>4. full \in SUBSET Nat
  BY <1>1
<1>5. CASE full = {}
  <2>1. n = t.mask + 1
    BY <1>2, <1>5
  <2>. HIDE DEF full
  <2>. QED  BY <1>1, <1>3, <1>5, <2>1
<1>6. CASE full # {}
  <2>1. \E c \in full : \A m \in full : c <= m
    <3>. HIDE DEF full
    <3>. QED  BY <1>4, <1>6, LeastOf
  <2>2. n \in full /\ \A m \in full : n <= m
    <3>. HIDE DEF full
    <3>. QED  BY <1>2, <1>6, <2>1
  <2>3. n \in b..t.mask /\ t.vector[n] # NULL
    BY <2>2
  <2>. HIDE DEF full
  <2>. QED  BY <1>1, <1>3, <2>2, <2>3
<1>. QED  BY <1>5, <1>6

\* The iterator comes to a bucket.
LEMMA BucketWalking ==
  ASSUME NEW t, Fit(t), NEW n \in Buckets(t), t.vector[n] # NULL, NEW j,
         j = [bucket |-> n, entry |-> t.vector[n]], NEW dues \in SUBSET KeysIn(t), NEW passed,
         \A k \in passed : k \in Key /\ Home(t, k) < n,
         \A k \in dues \ passed : Home(t, k) >= n
  PROVE  /\ Stands(t, j) /\ t.heap[j.entry].key \notin passed
         /\ Walking(t, j, dues, passed \union {t.heap[j.entry].key})
<1>. DEFINE x == t.vector[n]
            key == t.heap[x].key
            now == passed \union {key}
<1>1. IsTable(t) /\ Placed(t) /\ Once(t) /\ t.mask \in Nat /\ Linear(t.heap)
      /\ Buckets(t) = 0..t.mask
  BY DEF Fit, IsTable, Buckets
<1>2. x \in DOMAIN t.heap /\ x \in Mine(t, n) /\ Mine(t, n) = On(t.heap, x)
      /\ Mine(t, n) \subseteq Linked(t) /\ Mine(t, n) \subseteq DOMAIN t.heap
  BY <1>1, BucketIs DEF Mine
<1>3. j.bucket = n /\ j.entry = x
  OBVIOUS
<1>4. \A e \in On(t.heap, x) : Home(t, t.heap[e].key) = n
  BY <1>1, <1>2 DEF Placed, Home
<1>5. key \in Key /\ Home(t, key) = n
  BY <1>1, <1>2, <1>4, NextIn
<1>6. n \in Nat /\ \A k \in Key : Home(t, k) \in Nat
  <2>1. \A k \in Key : Home(t, k) \in 0..t.mask
    BY <1>1, BucketIn DEF Home
  <2>. QED  BY <1>1, <2>1
<1>. HIDE DEF x, key
<1>7. key \notin passed
  BY <1>5, <1>6
<1>8. \A d, e \in On(t.heap, x) : t.heap[d].key = t.heap[e].key => d = e
  BY <1>1, <1>2 DEF Once
<1>9. \A e \in Behind(t, j) : t.heap[e].key \notin now
  <2>1. SUFFICES ASSUME NEW e \in On(t.heap, x), e # x
                 PROVE  t.heap[e].key \notin now
    BY <1>3 DEF Behind
  <2>2. t.heap[e].key # key
    BY <1>2, <1>8, <2>1 DEF key
  <2>3. t.heap[e].key \notin passed
    <3>1. Home(t, t.heap[e].key) = n
      BY <1>4
    <3>. QED  BY <1>6, <3>1
  <2>. QED  BY <2>2, <2>3
<1>10. \A k \in now : k \in Key /\ Home(t, k) <= n
  BY <1>5, <1>6
<1>11. ASSUME NEW k \in dues \ now
       PROVE  (\E e \in Behind(t, j) : t.heap[e].key = k) \/ Home(t, k) > n
  <2>1. PICK e \in Linked(t) : t.heap[e].key = k
    BY DEF KeysIn
  <2>2. k \in Key
    BY <1>1, <2>1, LinkedIn, NextIn
  <2>3. Home(t, k) >= n
    OBVIOUS
  <2>4. CASE Home(t, k) = n
    <3>1. PICK b \in Buckets(t) : e \in Mine(t, b)
      BY <2>1, LinkedIs
    <3>2. b = n
      BY <1>1, <2>1, <2>4, <3>1 DEF Placed, Home
    <3>3. e \in On(t.heap, x) /\ e # x
      BY <1>2, <2>1, <3>1, <3>2 DEF key
    <3>. QED  BY <1>3, <2>1, <3>3 DEF Behind
  <2>. QED  BY <1>6, <2>2, <2>3, <2>4
<1>12. Walking(t, j, dues, now)
  BY <1>3, <1>4, <1>8, <1>9, <1>10, <1>11 DEF Walking
<1>13. Stands(t, j)
  BY <1>2, <1>6 DEF Stands, x
<1>. QED  BY <1>3, <1>7, <1>12, <1>13 DEF key

\* The iterator goes on along its chain.
LEMMA ChainWalking ==
  ASSUME NEW t, IsTable(t), NEW i, Stands(t, i), t.heap[i.entry].next # NULL, NEW j,
         j = [i EXCEPT !.entry = t.heap[i.entry].next]
  PROVE  /\ Stands(t, j)
         /\ \A dues, passed : Walking(t, i, dues, passed) =>
              /\ t.heap[j.entry].key \notin passed
              /\ Walking(t, j, dues, passed \union {t.heap[j.entry].key})
<1>. DEFINE x == t.heap[i.entry].next
            key == t.heap[x].key
<1>1. Linear(t.heap) /\ i.entry \in DOMAIN t.heap /\ i.bucket \in Nat
  BY DEF IsTable, Stands
<1>2. x \in DOMAIN t.heap
  BY <1>1, NextIn
<1>3. Stands(t, j) /\ j.bucket = i.bucket /\ j.entry = x
  <2>. HIDE DEF x
  <2>1. j = [i EXCEPT !.entry = x]
    BY DEF x
  <2>. QED  BY ONLY <1>2, <2>1, Stands(t, i) DEF Stands
<1>4. On(t.heap, i.entry) = {i.entry} \union On(t.heap, x) /\ i.entry \notin On(t.heap, x)
  BY <1>1, OnIs, OnForward
<1>5. x \in On(t.heap, x)
  BY <1>1, <1>2, OnIs
<1>. HIDE DEF x
<1>6. Behind(t, i) = On(t.heap, x) /\ Behind(t, j) = On(t.heap, x) \ {x}
  BY <1>3, <1>4 DEF Behind
<1>7. key \in Key
  BY <1>1, <1>2, NextIn
<1>. HIDE DEF key
<1>8. ASSUME NEW dues, NEW passed, Walking(t, i, dues, passed)
      PROVE  key \notin passed /\ Walking(t, j, dues, passed \union {key})
  <2>. DEFINE now == passed \union {key}
  <2>1. key \notin passed
    BY <1>5, <1>6, <1>8 DEF Walking, key
  <2>2. \A d, e \in On(t.heap, x) : t.heap[d].key = t.heap[e].key => d = e
    BY <1>4, <1>8 DEF Walking
  <2>3. \A e \in On(t.heap, x) : Home(t, t.heap[e].key) = i.bucket
    BY <1>4, <1>8 DEF Walking
  <2>4. \A e \in Behind(t, j) : t.heap[e].key \notin now
    <3>1. \A e \in Behind(t, j) : t.heap[e].key # key
      BY <1>5, <1>6, <2>2 DEF key
    <3>2. \A e \in Behind(t, j) : t.heap[e].key \notin passed
      BY <1>6, <1>8 DEF Walking
    <3>. QED  BY <3>1, <3>2
  <2>5. \A k \in now : k \in Key /\ Home(t, k) <= i.bucket
    <3>1. Home(t, key) <= i.bucket
      <4>1. Home(t, key) = i.bucket
        BY <1>5, <2>3 DEF key
      <4>. QED  BY <1>1, <4>1
    <3>2. \A k \in passed : k \in Key /\ Home(t, k) <= i.bucket
      BY <1>8 DEF Walking
    <3>. QED  BY <1>7, <3>1, <3>2
  <2>6. \A k \in dues \ now :
          (\E e \in Behind(t, j) : t.heap[e].key = k) \/ Home(t, k) > i.bucket
    <3>1. \A k \in dues \ passed :
            (\E e \in On(t.heap, x) : t.heap[e].key = k) \/ Home(t, k) > i.bucket
      BY <1>6, <1>8 DEF Walking
    <3>2. \A e \in On(t.heap, x) : t.heap[e].key # key => e \in Behind(t, j)
      BY <1>6 DEF key
    <3>. QED  BY <3>1, <3>2
  <2>7. dues \subseteq KeysIn(t)
    BY <1>8 DEF Walking
  <2>8. Walking(t, j, dues, now)
    BY ONLY <1>3, <2>2, <2>3, <2>4, <2>5, <2>6, <2>7 DEF Walking
  <2>. QED  BY <2>1, <2>8
<1>. QED  BY <1>3, <1>8 DEF key

LEMMA StandsIs ==
  ASSUME NEW t, IsTable(t), NEW i, Stands(t, i)
  PROVE  i # NULL /\ i.entry \in DOMAIN t.heap /\ i.entry # NULL /\ i.bucket \in Nat
<1>1. DOMAIN t.heap \subseteq EntryName
  BY DEF IsTable, Linear
<1>2. i \in [bucket : Nat, entry : Key \X Nat]
  BY <1>1 DEF Stands, EntryName
<1>. QED  BY <1>1, <1>2, HashTableAssumption DEF Stands, EntryName

\* A key of the table is in a bucket that is not empty.
LEMMA HomeIs ==
  ASSUME NEW t, IsTable(t), Placed(t), NEW k \in KeysIn(t)
  PROVE  k \in Key /\ Home(t, k) \in Buckets(t) /\ t.vector[Home(t, k)] # NULL
<1>1. PICK e \in Linked(t) : t.heap[e].key = k
  BY DEF KeysIn
<1>2. PICK b \in Buckets(t) : e \in Mine(t, b)
  BY <1>1, LinkedIs
<1>3. b = Home(t, k)
  BY <1>1, <1>2 DEF Placed, Home
<1>4. t.vector[b] # NULL
  <2>1. On(t.heap, NULL) = {}
    BY OnIs DEF IsTable
  <2>. QED  BY <1>2, <2>1 DEF Mine
<1>5. k \in Key
  BY KeysAre
<1>. QED  BY <1>2, <1>3, <1>4, <1>5

Arrived(t, n, j) ==
  j = IF n > t.mask THEN NULL ELSE [bucket |-> n, entry |-> t.vector[n]]

\* The iterator leaves its chain, or starts.
LEMMA Leaves ==
  ASSUME NEW t, Fit(t), NEW b \in Nat, NEW n, n = NextBucket(t, b), NEW j, Arrived(t, n, j),
         NEW dues \in SUBSET KeysIn(t), NEW passed,
         \A k \in passed : k \in Key /\ Home(t, k) < b,
         \A k \in dues \ passed : Home(t, k) >= b
  PROVE  IF j = NULL THEN dues \subseteq passed
         ELSE /\ t.heap[j.entry].key \notin passed
              /\ Walking(t, j, dues, passed \union {t.heap[j.entry].key})
<1>1. IsTable(t) /\ Placed(t) /\ t.mask \in Nat /\ Buckets(t) = 0..t.mask
  BY DEF Fit, IsTable, Buckets
<1>2. /\ n \in Nat
      /\ n <= t.mask => n \in Buckets(t) /\ b <= n /\ t.vector[n] # NULL
      /\ \A c \in Buckets(t) : b <= c /\ t.vector[c] # NULL => n <= t.mask /\ n <= c
  BY <1>1, NextBucketIs
<1>3. \A k \in dues \ passed : n <= t.mask /\ Home(t, k) >= n
  <2>1. SUFFICES ASSUME NEW k \in dues \ passed
                 PROVE  n <= t.mask /\ Home(t, k) >= n
    OBVIOUS
  <2>2. Home(t, k) \in Buckets(t) /\ t.vector[Home(t, k)] # NULL /\ Home(t, k) >= b
    BY <1>1, HomeIs
  <2>3. Home(t, k) \in Nat
    BY <1>1, <2>2
  <2>. QED  BY <1>1, <1>2, <2>2, <2>3
<1>4. CASE n > t.mask
  <2>1. j = NULL
    BY <1>4 DEF Arrived
  <2>2. dues \subseteq passed
    BY <1>1, <1>2, <1>3, <1>4
  <2>. QED  BY <2>1, <2>2
<1>5. CASE ~(n > t.mask)
  <2>1. n \in Buckets(t) /\ b <= n /\ t.vector[n] # NULL
    BY <1>1, <1>2, <1>5
  <2>2. j = [bucket |-> n, entry |-> t.vector[n]]
    BY <1>5 DEF Arrived
  <2>3. \A k \in passed : k \in Key /\ Home(t, k) < n
    <3>1. \A k \in Key : Home(t, k) \in Nat
      <4>1. \A k \in Key : Home(t, k) \in 0..t.mask
        BY <1>1, BucketIn DEF Home
      <4>. QED  BY <4>1
    <3>. QED  BY <1>2, <2>1, <3>1
  <2>4. \A k \in dues \ passed : Home(t, k) >= n
    BY <1>3
  <2>5. /\ Stands(t, j) /\ t.heap[j.entry].key \notin passed
        /\ Walking(t, j, dues, passed \union {t.heap[j.entry].key})
    BY <2>1, <2>2, <2>3, <2>4, BucketWalking
  <2>6. j # NULL
    BY <1>1, <2>5, StandsIs
  <2>. QED  BY <2>5, <2>6
<1>. QED  BY <1>4, <1>5

LEMMA LeavesTo ==
  ASSUME NEW t, Fit(t), NEW b \in Nat, NEW n, n = NextBucket(t, b), NEW j, Arrived(t, n, j),
         j # NULL
  PROVE  Stands(t, j)
<1>1. IsTable(t) /\ t.mask \in Nat
  BY DEF Fit, IsTable
<1>2. n \in Nat /\ (n <= t.mask => n \in Buckets(t) /\ t.vector[n] # NULL)
  BY <1>1, NextBucketIs
<1>3. ~(n > t.mask) /\ j = [bucket |-> n, entry |-> t.vector[n]]
  BY DEF Arrived
<1>4. n \in Buckets(t) /\ t.vector[n] # NULL
  BY <1>1, <1>2, <1>3
<1>5. t.vector[n] \in DOMAIN t.heap
  BY <1>1, <1>4, BucketIs
<1>. QED  BY <1>2, <1>3, <1>5 DEF Stands

\* A step of an iterator that stands at an entry.
LEMMA StepIs ==
  ASSUME NEW t, Fit(t), NEW i, Stands(t, i), NEW j, j = IteratorNext(t, i)
  PROVE  /\ j # NULL => Stands(t, j)
         /\ \A dues, passed : Walking(t, i, dues, passed) =>
              IF j = NULL THEN dues \subseteq passed
              ELSE /\ t.heap[j.entry].key \notin passed
                   /\ Walking(t, j, dues, passed \union {t.heap[j.entry].key})
<1>1. IsTable(t) /\ Placed(t) /\ t.mask \in Nat /\ Linear(t.heap)
  BY DEF Fit, IsTable
<1>2. i # NULL /\ i.entry \in DOMAIN t.heap /\ i.entry # NULL /\ i.bucket \in Nat
  BY <1>1, StandsIs
<1>3. CASE t.heap[i.entry].next # NULL
  <2>1. j = [i EXCEPT !.entry = t.heap[i.entry].next]
    BY <1>2, <1>3 DEF IteratorNext
  <2>2. /\ Stands(t, j)
        /\ \A dues, passed : Walking(t, i, dues, passed) =>
             /\ t.heap[j.entry].key \notin passed
             /\ Walking(t, j, dues, passed \union {t.heap[j.entry].key})
    BY <1>1, <1>3, <2>1, ChainWalking
  <2>3. j # NULL
    BY <1>1, <2>2, StandsIs
  <2>. QED  BY <2>2, <2>3
<1>4. CASE t.heap[i.entry].next = NULL
  <2>. DEFINE b == i.bucket + 1
              n == NextBucket(t, b)
  <2>1. j = IF n > t.mask THEN NULL ELSE [bucket |-> n, entry |-> t.vector[n]]
    BY <1>2, <1>4 DEF IteratorNext
  <2>2. Arrived(t, n, j) /\ b \in Nat
    BY <1>2, <2>1 DEF Arrived
  <2>3. Behind(t, i) = {}
    <3>1. On(t.heap, i.entry) = {i.entry} \union On(t.heap, t.heap[i.entry].next)
          /\ On(t.heap, NULL) = {}
      BY <1>1, <1>2, OnIs
    <3>. QED  BY <1>4, <3>1 DEF Behind
  <2>4. j # NULL => Stands(t, j)
    <3>. HIDE DEF b
    <3>. QED  BY <2>2, LeavesTo
  <2>5. ASSUME NEW dues, NEW passed, Walking(t, i, dues, passed)
        PROVE  IF j = NULL THEN dues \subseteq passed
               ELSE /\ t.heap[j.entry].key \notin passed
                    /\ Walking(t, j, dues, passed \union {t.heap[j.entry].key})
    <3>1. \A k \in Key : Home(t, k) \in Nat
      <4>1. \A k \in Key : Home(t, k) \in 0..t.mask
        BY <1>1, BucketIn DEF Home
      <4>. QED  BY <1>1, <4>1
    <3>2. dues \in SUBSET KeysIn(t) /\ KeysIn(t) \subseteq Key
      BY <1>1, <2>5, KeysAre DEF Walking
    <3>3. \A k \in passed : k \in Key /\ Home(t, k) < b
      BY <1>2, <2>5, <3>1 DEF Walking
    <3>4. \A k \in dues \ passed : Home(t, k) >= b
      <4>1. \A k \in dues \ passed : Home(t, k) > i.bucket /\ k \in Key
        BY <2>3, <2>5, <3>2 DEF Walking
      <4>. QED  BY <1>2, <3>1, <4>1
    <3>5. n = NextBucket(t, b)
      OBVIOUS
    <3>. HIDE DEF b, n
    <3>. QED  BY ONLY Fit(t), <2>2, <3>2, <3>3, <3>4, <3>5, Leaves
  <2>. QED  BY <2>4, <2>5
<1>. QED  BY <1>3, <1>4

LEMMA StartIs ==
  ASSUME NEW t, Fit(t), NEW j, j = IteratorNext(t, [bucket |-> 0, entry |-> NULL]), j # NULL
  PROVE  Stands(t, j) /\ Walking(t, j, KeysIn(t), {t.heap[j.entry].key})
<1>. DEFINE n == NextBucket(t, 0)
            dues == KeysIn(t)
<1>1. IsTable(t) /\ Placed(t) /\ t.mask \in Nat
  BY DEF Fit, IsTable
<1>2. Arrived(t, n, j)
  BY DEF IteratorNext, Arrived
<1>3. Stands(t, j)
  BY <1>2, LeavesTo
<1>4. \A k \in dues : Home(t, k) >= 0
  <2>1. \A k \in dues : Home(t, k) \in Buckets(t)
    BY <1>1, HomeIs
  <2>. QED  BY <1>1, <2>1 DEF Buckets
<1>5. /\ t.heap[j.entry].key \notin {}
      /\ Walking(t, j, dues, {} \union {t.heap[j.entry].key})
  <2>1. dues \in SUBSET KeysIn(t) /\ n = NextBucket(t, 0) /\ 0 \in Nat
    OBVIOUS
  <2>2. (\A k \in {} : k \in Key /\ Home(t, k) < 0) /\ \A k \in dues \ {} : Home(t, k) >= 0
    BY <1>4
  <2>. DEFINE none == {}
  <2>3. (\A k \in none : k \in Key /\ Home(t, k) < 0) /\ \A k \in dues \ none : Home(t, k) >= 0
    BY <2>2
  <2>. HIDE DEF n, dues, none
  <2>4. /\ t.heap[j.entry].key \notin none
        /\ Walking(t, j, dues, none \union {t.heap[j.entry].key})
    BY <1>2, <2>1, <2>3, Leaves
  <2>. QED  BY <2>4 DEF none
<1>6. {} \union {t.heap[j.entry].key} = {t.heap[j.entry].key}
  OBVIOUS
<1>. QED  BY <1>3, <1>5, <1>6

-----------------------------------------------------------------------------
(* The invariant.                                                          *)

\* What the callers were told, but for the keys that were lost.
Effective == [k \in Key |-> IF k \in lost THEN NoValue ELSE map[k]]

TableInv == Fit(table) /\ Roomy(table) /\ Agrees(table, Effective)
WalkInv == it # NULL => Stands(table, it) /\ (~resized => Walking(table, it, due, seen))

HashTableInv ==
  /\ map \in [Key -> HashValue \union {NoValue}] /\ lost \subseteq Key /\ resized \in BOOLEAN
  /\ TableInv /\ WalkInv

LEMMA EffectiveIn ==
  ASSUME map \in [Key -> HashValue \union {NoValue}]
  PROVE  Effective \in [Key -> HashValue \union {NoValue}]
BY DEF Effective

LEMMA AgreeKeys ==
  ASSUME NEW t, Fit(t), NEW m \in [Key -> HashValue \union {NoValue}], Agrees(t, m)
  PROVE  KeysIn(t) = {k \in Key : m[k] # NoValue}
<1>1. IsTable(t)
  BY DEF Fit
<1>2. KeysIn(t) \subseteq Key /\ \A k : k \in KeysIn(t) <=> \E x \in HashValue : Stores(t, k, x)
  BY <1>1, KeysAre
<1>3. ASSUME NEW k \in Key
      PROVE  k \in KeysIn(t) <=> m[k] # NoValue
  <2>1. \A x \in HashValue : Stores(t, k, x) <=> m[k] = x
    BY DEF Agrees
  <2>2. m[k] \in HashValue \union {NoValue} /\ NoValue \notin HashValue
    BY HashTableAssumption
  <2>. QED  BY <1>2, <2>1, <2>2
<1>. QED  BY <1>2, <1>3

LEMMA PresentIs ==
  ASSUME HashTableInv
  PROVE  Present = KeysIn(table)
<1>1. map \in [Key -> HashValue \union {NoValue}] /\ Fit(table) /\ Agrees(table, Effective)
  BY DEF HashTableInv, TableInv
<1>2. KeysIn(table) = {k \in Key : Effective[k] # NoValue}
  BY <1>1, EffectiveIn, AgreeKeys
<1>. QED  BY <1>2 DEF Present, Effective

\* The table becomes t, and then what the collector leaves of it.
LEMMA MeanwhileIs ==
  ASSUME HashTableInv, NEW t, Fit(t), Roomy(t), NEW gone, Keeps(table, t, gone),
         \A k \in KeysIn(table) \ gone : k \in KeysIn(t), Meanwhile(t, gone)
  PROVE  /\ Fit(table') /\ Roomy(table') /\ WalkInv' /\ resized' \in BOOLEAN
         /\ \A k, x : Stores(table', k, x) <=> Stores(t, k, x)
<1>1. IsTable(t) /\ IsTable(table) /\ it' = it /\ due' = due \ gone /\ seen' = seen \ gone
      /\ resized' = (it # NULL /\ (resized \/ t.mask # table.mask))
      /\ table' = Collected(t, IF it = NULL THEN NULL ELSE it.entry)
  BY DEF Fit, Meanwhile, HashTableInv, TableInv
<1>2. resized' \in BOOLEAN
  BY <1>1
<1>3. CASE it = NULL
  <2>1. table' = Collected(t, NULL)
    BY <1>1, <1>3
  <2>2. /\ Fit(table') /\ Roomy(table')
        /\ \A k, x : Stores(table', k, x) <=> Stores(t, k, x)
    BY <2>1, CollectedFits
  <2>3. WalkInv'
    BY <1>1, <1>3 DEF WalkInv
  <2>. QED  BY <1>2, <2>2, <2>3
<1>4. CASE it # NULL
  <2>1. Stands(table, it) /\ (~resized => Walking(table, it, due, seen))
    BY <1>4 DEF HashTableInv, WalkInv
  <2>2. table' = Collected(t, it.entry)
    BY <1>1, <1>4
  <2>3. Stands(t, it)
    BY <2>1 DEF Stands, Keeps
  <2>4. it.entry \in DOMAIN t.heap \union {NULL}
    BY <2>3 DEF Stands
  <2>5. /\ Fit(table') /\ Roomy(table')
        /\ \A k, x : Stores(table', k, x) <=> Stores(t, k, x)
    BY <2>2, <2>4, CollectedFits
  <2>6. /\ Stands(table', it)
        /\ Walking(t, it, due \ gone, seen \ gone)
             => Walking(table', it, due \ gone, seen \ gone)
    BY <2>2, <2>3, CollectedWalking
  <2>7. ~resized' => Walking(t, it, due \ gone, seen \ gone)
    <3>1. SUFFICES ASSUME ~resized, t.mask = table.mask
                   PROVE  Walking(t, it, due \ gone, seen \ gone)
      BY <1>1, <1>4
    <3>. QED  BY <1>1, <2>1, <3>1, KeptWalking
  <2>8. WalkInv'
    BY <1>1, <2>6, <2>7 DEF WalkInv
  <2>. QED  BY <1>2, <2>5, <2>8
<1>. QED  BY <1>3, <1>4

LEMMA InvInit ==
  ASSUME HashTableInit
  PROVE  HashTableInv
<1>. DEFINE t == [vector |-> Empty(HASH_MASK), mask |-> HASH_MASK, count |-> 0, heap |-> <<>>]
<1>1. table = t /\ it = NULL /\ map = [k \in Key |-> NoValue] /\ lost = {} /\ resized = FALSE
  BY DEF HashTableInit
<1>2. t.vector = Empty(HASH_MASK) /\ t.mask = HASH_MASK /\ t.count = 0 /\ t.heap = <<>>
      /\ IsRecord(t)
  BY DEF IsRecord
<1>. HIDE DEF t
<1>3. Linear(t.heap) /\ DOMAIN t.heap = {}
  <2>1. DOMAIN t.heap = {}
    BY <1>2
  <2>2. t.heap \in [DOMAIN t.heap -> Entries(DOMAIN t.heap)]
    BY <1>2
  <2>3. IsFiniteSet(DOMAIN t.heap)
    BY <2>1, FS_EmptySet
  <2>4. \E N \in Nat : \E rank : Ranked(t.heap, N, rank)
    <3>. DEFINE rank == [n \in {} |-> 0]
    <3>1. rank \in [DOMAIN t.heap -> 0..0]
      BY <2>1
    <3>. HIDE DEF rank
    <3>2. Ranked(t.heap, 0, rank)
      BY <2>1, <3>1 DEF Ranked
    <3>. QED  BY <3>2
  <2>. QED  BY <2>1, <2>2, <2>3, <2>4 DEF Linear
<1>4. HASH_MASK \in Nat
  BY HashTableAssumption
<1>5. IsTable(t)
  <2>1. t.vector \in [0..t.mask -> DOMAIN t.heap \union {NULL}]
    BY <1>2 DEF Empty
  <2>. QED  BY <1>2, <1>3, <1>4, <2>1 DEF IsTable
<1>6. Linked(t) = {}
  BY <1>3, <1>5, LinkedIn
<1>7. Placed(t) /\ Once(t)
  BY <1>5, <1>6, BucketIs DEF Placed, Once
<1>8. KeysIn(t) = {}
  BY <1>6 DEF KeysIn
<1>9. Fit(t) /\ Roomy(t)
  <2>1. Cardinality(KeysIn(t)) = 0
    BY <1>8, FS_EmptySet
  <2>. QED  BY <1>2, <1>4, <1>5, <1>7, <2>1 DEF Fit, Roomy
<1>10. Agrees(t, Effective)
  <2>1. \A k \in Key : Effective[k] = NoValue
    BY <1>1 DEF Effective
  <2>. QED  BY <1>6, <2>1, HashTableAssumption DEF Agrees, Stores
<1>. QED  BY <1>1, <1>9, <1>10 DEF HashTableInv, TableInv, WalkInv

LEMMA SetKeepsChains ==
  ASSUME HashTableInv, NEW k \in Key, NEW v \in HashValue, Set(k, v)
  PROVE  HashTableInv'
<1>. DEFINE e == Find(table, Hash[k], k)
            t == IF e = NULL THEN Put(table, k, v) ELSE [table EXCEPT !.heap[e].value = v]
            b == Bucket(Hash[k], table.mask)
            m == [Effective EXCEPT ![k] = v]
<1>1. /\ map \in [Key -> HashValue \union {NoValue}] /\ lost \subseteq Key
      /\ Fit(table) /\ Roomy(table) /\ Agrees(table, Effective)
      /\ IsTable(table) /\ Placed(table) /\ table.mask \in Nat
  BY DEF HashTableInv, TableInv, Fit, IsTable
<1>2. Meanwhile(t, {}) /\ map' = [map EXCEPT ![k] = v] /\ lost' = lost \ {k}
  BY DEF Set
<1>3. Effective \in [Key -> HashValue \union {NoValue}]
  BY <1>1, EffectiveIn
<1>4. Effective' = m /\ m \in [Key -> HashValue \union {NoValue}]
  BY <1>1, <1>2 DEF Effective
<1>5. b \in Buckets(table)
  BY <1>1, BucketIn DEF Buckets
<1>6. IF e = NULL THEN \A n \in Mine(table, b) : table.heap[n].key # k
      ELSE e \in Mine(table, b) /\ table.heap[e].key = k
  BY <1>1, <1>5, FindIs
<1>. HIDE DEF e
<1>7. Fit(t) /\ Roomy(t) /\ Keeps(table, t, {}) /\ Agrees(t, m)
  <2>1. CASE e = NULL
    <3>1. t = Put(table, k, v)
      BY <2>1
    <3>2. \A n \in Linked(table) : table.heap[n].key # k
      BY <1>1, <1>6, <2>1, NotElsewhere
    <3>. HIDE DEF t
    <3>. QED  BY <1>1, <1>3, <3>1, <3>2, PutFits
  <2>2. CASE e # NULL
    <3>1. t = [table EXCEPT !.heap[e].value = v]
      BY <2>2
    <3>2. e \in Linked(table)
      BY <1>1, <1>5, <1>6, <2>2, BucketIs
    <3>. HIDE DEF t
    <3>3. /\ Fit(t) /\ Roomy(t) /\ Keeps(table, t, {})
          /\ Agrees(t, [Effective EXCEPT ![table.heap[e].key] = v])
      BY <1>1, <1>3, <3>1, <3>2, ValueSetFits
    <3>. QED  BY <1>6, <2>2, <3>3
  <2>. QED  BY <2>1, <2>2
<1>. HIDE DEF t, m
<1>8. \A l \in KeysIn(table) \ {} : l \in KeysIn(t)
  <2>1. KeysIn(table) = {l \in Key : Effective[l] # NoValue}
    BY <1>1, <1>3, AgreeKeys
  <2>2. KeysIn(t) = {l \in Key : m[l] # NoValue}
    BY <1>4, <1>7, AgreeKeys
  <2>3. \A l \in Key : Effective[l] # NoValue => m[l] # NoValue
    BY <1>3, HashTableAssumption DEF m
  <2>. QED  BY <2>1, <2>2, <2>3
<1>9. /\ Fit(table') /\ Roomy(table') /\ WalkInv' /\ resized' \in BOOLEAN
      /\ \A l, x : Stores(table', l, x) <=> Stores(t, l, x)
  BY <1>2, <1>7, <1>8, MeanwhileIs
<1>10. TableInv'
  BY <1>4, <1>7, <1>9 DEF TableInv, Agrees
<1>11. map' \in [Key -> HashValue \union {NoValue}] /\ lost' \subseteq Key
  BY <1>1, <1>2
<1>. QED  BY <1>9, <1>10, <1>11 DEF HashTableInv

LEMMA SetIfExistsKeeps ==
  ASSUME HashTableInv, NEW k \in Key, NEW v \in HashValue, SetIfExists(k, v)
  PROVE  HashTableInv'
<1>. DEFINE e == Find(table, dfsch_hash[k], k)
            t == [table EXCEPT !.heap[e].value = v]
            b == Bucket(dfsch_hash[k], table.mask)
            m == [Effective EXCEPT ![k] = v]
<1>1. /\ map \in [Key -> HashValue \union {NoValue}] /\ lost \subseteq Key
      /\ Fit(table) /\ Roomy(table) /\ Agrees(table, Effective)
      /\ IsTable(table) /\ Placed(table) /\ table.mask \in Nat
  BY DEF HashTableInv, TableInv, Fit, IsTable
<1>2. e # NULL /\ Meanwhile(t, {}) /\ map' = [map EXCEPT ![k] = v] /\ lost' = lost
  BY DEF SetIfExists
<1>3. Effective \in [Key -> HashValue \union {NoValue}]
  BY <1>1, EffectiveIn
<1>4. b \in Buckets(table)
  BY <1>1, BucketIn DEF Buckets
<1>5. e \in Mine(table, b) /\ table.heap[e].key = k
  BY <1>1, <1>2, <1>4, FindIs
<1>. HIDE DEF e
<1>6. e \in Linked(table)
  BY <1>1, <1>4, <1>5, BucketIs
<1>7. t = [table EXCEPT !.heap[e].value = v]
  OBVIOUS
<1>. HIDE DEF t
<1>8. /\ Fit(t) /\ Roomy(t) /\ Keeps(table, t, {}) /\ Effective[k] # NoValue
      /\ Agrees(t, m)
  <2>1. /\ Fit(t) /\ Roomy(t) /\ Keeps(table, t, {})
        /\ Effective[table.heap[e].key] # NoValue
        /\ Agrees(t, [Effective EXCEPT ![table.heap[e].key] = v])
    BY <1>1, <1>3, <1>6, <1>7, ValueSetFits
  <2>. QED  BY <1>5, <2>1
<1>9. Effective' = m /\ m \in [Key -> HashValue \union {NoValue}]
  <2>1. k \notin lost
    BY <1>8 DEF Effective
  <2>. QED  BY <1>1, <1>2, <2>1 DEF Effective
<1>. HIDE DEF m
<1>10. \A l \in KeysIn(table) \ {} : l \in KeysIn(t)
  <2>1. KeysIn(table) = {l \in Key : Effective[l] # NoValue}
    BY <1>1, <1>3, AgreeKeys
  <2>2. KeysIn(t) = {l \in Key : m[l] # NoValue}
    BY <1>8, <1>9, AgreeKeys
  <2>3. \A l \in Key : Effective[l] # NoValue => m[l] # NoValue
    BY <1>3, HashTableAssumption DEF m
  <2>. QED  BY <2>1, <2>2, <2>3
<1>11. /\ Fit(table') /\ Roomy(table') /\ WalkInv' /\ resized' \in BOOLEAN
       /\ \A l, x : Stores(table', l, x) <=> Stores(t, l, x)
  BY <1>2, <1>8, <1>10, MeanwhileIs
<1>12. TableInv'
  BY <1>8, <1>9, <1>11 DEF TableInv, Agrees
<1>13. map' \in [Key -> HashValue \union {NoValue}] /\ lost' \subseteq Key
  BY <1>1, <1>2
<1>. QED  BY <1>11, <1>12, <1>13 DEF HashTableInv

LEMMA UnsetKeeps ==
  ASSUME HashTableInv, NEW k \in Key, Unset(k)
  PROVE  HashTableInv'
<1>. DEFINE b == Bucket(dfsch_hash[k], table.mask)
            e == Find(table, dfsch_hash[k], k)
            gone == KeysOf(table, Dropped(table, e, b))
            t == Delete(table, e, b)
<1>1. /\ map \in [Key -> HashValue \union {NoValue}] /\ lost \subseteq Key
      /\ Fit(table) /\ Roomy(table) /\ Agrees(table, Effective)
      /\ IsTable(table) /\ Placed(table) /\ table.mask \in Nat
  BY DEF HashTableInv, TableInv, Fit, IsTable
<1>2. e # NULL
  BY DEF Unset
<1>3. b \in Buckets(table)
  BY <1>1, BucketIn DEF Buckets
<1>4. e \in Mine(table, b) /\ table.heap[e].key = k
  BY <1>1, <1>2, <1>3, FindIs
<1>5. Meanwhile(t, gone) /\ map' = [map EXCEPT ![k] = NoValue] /\ lost' = (lost \union gone) \ {k}
  <2>1. ToSet(InBucket(table, b)) = Mine(table, b)
    BY <1>1, <1>3, BucketIs
  <2>2. {table.heap[n].key : n \in IF table.vector[b] = e THEN ToSet(InBucket(table, b)) ELSE {e}}
          = gone
    BY <2>1 DEF KeysOf, Dropped
  <2>. HIDE DEF gone
  <2>. QED  BY <2>2 DEF Unset
<1>6. k \in gone /\ gone \subseteq Key
  <2>1. e \in Dropped(table, e, b) /\ Dropped(table, e, b) \subseteq Linked(table)
    BY <1>1, <1>3, <1>4, BucketIs DEF Dropped
  <2>2. \A n \in Linked(table) : table.heap[n].key \in Key
    BY <1>1, LinkedIn, NextIn DEF IsTable
  <2>. QED  BY <1>4, <2>1, <2>2 DEF KeysOf
<1>7. gone = KeysOf(table, Dropped(table, e, b))
  OBVIOUS
<1>. HIDE DEF gone, e, b
<1>8. /\ Fit(t) /\ Roomy(t) /\ Keeps(table, t, gone)
      /\ \A l, x : Stores(t, l, x) <=> Stores(table, l, x) /\ l \notin gone
  BY <1>1, <1>3, <1>4, <1>7, DeleteFits
<1>. HIDE DEF t
<1>9. \A l \in KeysIn(table) \ gone : l \in KeysIn(t)
  <2>1. IsTable(t)
    BY <1>8 DEF Fit
  <2>. QED  BY <1>1, <1>8, <2>1, KeysAre
<1>10. /\ Fit(table') /\ Roomy(table') /\ WalkInv' /\ resized' \in BOOLEAN
       /\ \A l, x : Stores(table', l, x) <=> Stores(t, l, x)
  BY <1>5, <1>8, <1>9, MeanwhileIs
<1>11. \A l \in Key : Effective'[l] = IF l \in gone THEN NoValue ELSE Effective[l]
  BY <1>1, <1>5, <1>6 DEF Effective
<1>12. Agrees(table', Effective')
  <2>1. ASSUME NEW l \in Key, NEW x \in HashValue
        PROVE  Stores(table', l, x) <=> Effective'[l] = x
    <3>1. Stores(table, l, x) <=> Effective[l] = x
      BY <1>1 DEF Agrees
    <3>. QED  BY <1>8, <1>10, <1>11, <3>1, HashTableAssumption
  <2>. QED  BY <2>1 DEF Agrees
<1>13. map' \in [Key -> HashValue \union {NoValue}] /\ lost' \subseteq Key
  BY <1>1, <1>5, <1>6
<1>. QED  BY <1>10, <1>12, <1>13 DEF HashTableInv, TableInv

\* A step of the iterator leaves the table to the collector.
LEMMA WalkKeeps ==
  ASSUME HashTableInv, NEW i, i # NULL => Stands(table, i), Walk(i), resized' \in BOOLEAN,
         i # NULL /\ ~resized' => Walking(table, i, due', seen')
  PROVE  HashTableInv'
<1>1. /\ map \in [Key -> HashValue \union {NoValue}] /\ lost \subseteq Key
      /\ Fit(table) /\ Roomy(table) /\ Agrees(table, Effective)
  BY DEF HashTableInv, TableInv
<1>2. it' = i /\ table' = Collected(table, IF i = NULL THEN NULL ELSE i.entry)
      /\ map' = map /\ lost' = lost
  BY DEF Walk
<1>3. Effective' = Effective
  BY <1>2 DEF Effective
<1>4. (IF i = NULL THEN NULL ELSE i.entry) \in DOMAIN table.heap \union {NULL}
  BY DEF Stands
<1>5. /\ Fit(table') /\ Roomy(table')
      /\ \A k, x : Stores(table', k, x) <=> Stores(table, k, x)
  BY <1>1, <1>2, <1>4, CollectedFits
<1>6. TableInv'
  BY <1>1, <1>3, <1>5 DEF TableInv, Agrees
<1>7. WalkInv'
  <2>1. CASE i = NULL
    BY <1>2, <2>1 DEF WalkInv
  <2>2. CASE i # NULL
    <3>1. table' = Collected(table, i.entry)
      BY <1>2, <2>2
    <3>2. /\ Stands(table', i)
          /\ Walking(table, i, due', seen') => Walking(table', i, due', seen')
      BY <1>1, <2>2, <3>1, CollectedWalking
    <3>. QED  BY <1>2, <2>2, <3>2 DEF WalkInv
  <2>. QED  BY <2>1, <2>2
<1>. QED  BY <1>1, <1>2, <1>6, <1>7 DEF HashTableInv

LEMMA StartKeeps ==
  ASSUME HashTableInv, Start
  PROVE  HashTableInv'
<1>. DEFINE i == IteratorNext(table, [bucket |-> 0, entry |-> NULL])
<1>1. i # NULL /\ Walk(i) /\ due' = Present /\ seen' = {table.heap[i.entry].key} /\ resized' = FALSE
  BY DEF Start
<1>2. Fit(table)
  BY DEF HashTableInv, TableInv
<1>3. Stands(table, i) /\ Walking(table, i, KeysIn(table), {table.heap[i.entry].key})
  BY <1>1, <1>2, StartIs
<1>4. Present = KeysIn(table)
  BY PresentIs
<1>. HIDE DEF i
<1>. QED  BY <1>1, <1>3, <1>4, WalkKeeps

LEMMA NextItemKeeps ==
  ASSUME HashTableInv, NextItem
  PROVE  HashTableInv'
<1>. DEFINE i == IteratorNext(table, it)
<1>1. /\ it # NULL /\ Walk(i)
      /\ IF i = NULL THEN due' = {} /\ seen' = {} /\ resized' = FALSE
         ELSE seen' = seen \union {table.heap[i.entry].key} /\ due' = due /\ resized' = resized
  BY DEF NextItem
<1>2. Fit(table) /\ Stands(table, it) /\ (~resized => Walking(table, it, due, seen))
      /\ resized \in BOOLEAN
  BY <1>1 DEF HashTableInv, TableInv, WalkInv
<1>3. /\ i # NULL => Stands(table, i)
      /\ \A dues, passed : Walking(table, it, dues, passed) =>
           IF i = NULL THEN dues \subseteq passed
           ELSE /\ table.heap[i.entry].key \notin passed
                /\ Walking(table, i, dues, passed \union {table.heap[i.entry].key})
  BY <1>2, StepIs
<1>. HIDE DEF i
<1>4. resized' \in BOOLEAN
  BY <1>1, <1>2
<1>5. i # NULL /\ ~resized' => Walking(table, i, due', seen')
  BY <1>1, <1>2, <1>3
<1>. QED  BY <1>1, <1>3, <1>4, <1>5, WalkKeeps

LEMMA InvNext ==
  ASSUME HashTableInv, [HashTableNext]_hashTableVars
  PROVE  HashTableInv'
<1>1. CASE HashTableNext
  BY <1>1, SetKeepsChains, SetIfExistsKeeps, UnsetKeeps, StartKeeps, NextItemKeeps DEF HashTableNext
<1>2. CASE UNCHANGED hashTableVars
  BY <1>2 DEF hashTableVars, walk, HashTableInv, TableInv, WalkInv, Effective
<1>. QED  BY <1>1, <1>2

LEMMA InvAlways == HashTableSpec => []HashTableInv
<1>1. HashTableInit => HashTableInv
  BY InvInit
<1>2. HashTableInv /\ [HashTableNext]_hashTableVars => HashTableInv'
  BY InvNext
<1>. QED  BY <1>1, <1>2, PTL DEF HashTableSpec

LEMMA InvMap ==
  ASSUME HashTableInv
  PROVE  MapButForLost
<1>1. /\ map \in [Key -> HashValue \union {NoValue}] /\ Fit(table) /\ Roomy(table)
      /\ Agrees(table, Effective) /\ IsTable(table) /\ Placed(table) /\ Once(table)
      /\ table.count \in Nat /\ Cardinality(KeysIn(table)) <= table.count
  BY DEF HashTableInv, TableInv, Fit
<1>2. \A b \in Buckets(table) : \A e \in ToSet(InBucket(table, b)) :
        Bucket(Hash[table.heap[e].key], table.mask) = b
  BY <1>1, BucketIs DEF Placed
<1>3. \A d, e \in Linked(table) : table.heap[d].key = table.heap[e].key => d = e
  BY <1>1 DEF Once
<1>4. Cardinality(Linked(table)) <= table.count
  <2>1. Cardinality(Linked(table)) <= Cardinality(KeysIn(table)) /\ IsFiniteSet(KeysIn(table))
    BY <1>1, KeysAre
  <2>2. IsFiniteSet(Linked(table))
    <3>1. IsFiniteSet(DOMAIN table.heap) /\ Linked(table) \subseteq DOMAIN table.heap
      BY <1>1, LinkedIn DEF IsTable, Linear
    <3>. QED  BY <3>1, FS_Subset
  <2>3. Cardinality(Linked(table)) \in Nat /\ Cardinality(KeysIn(table)) \in Nat
    BY <2>1, <2>2, FS_CardinalityType
  <2>. QED  BY <1>1, <2>1, <2>3
<1>5. WellFormed
  BY <1>1, <1>2, <1>3, <1>4 DEF WellFormed, Roomy
<1>6. ASSUME NEW k \in Key
      PROVE  Ref(table, k) = IF k \in lost THEN NoValue ELSE map[k]
  <2>1. Ref(table, k) = Effective[k]
    BY <1>1, EffectiveIn, RefIs
  <2>. QED  BY <2>1 DEF Effective
<1>. QED  BY <1>5, <1>6 DEF MapButForLost

LEMMA InvIterated ==
  ASSUME HashTableInv, [HashTableNext]_hashTableVars
  PROVE  [IteratedOnce]_hashTableVars
<1>1. CASE UNCHANGED hashTableVars
  BY <1>1
<1>2. CASE HashTableNext
  <2>1. CASE it' = it
    BY <2>1 DEF IteratedOnce
  <2>2. CASE it' # it
    <3>1. ASSUME NEW k, NEW v, Set(k, v) \/ SetIfExists(k, v) \/ Unset(k)
          PROVE  it' = it
      BY <3>1 DEF Set, SetIfExists, Unset, Meanwhile
    <3>2. Start \/ NextItem
      BY <1>2, <2>2, <3>1 DEF HashTableNext
    <3>3. CASE Start
      BY <3>3 DEF Start, IteratedOnce
    <3>4. CASE NextItem
      <4>. DEFINE i == IteratorNext(table, it)
      <4>1. it # NULL /\ it' = i
        BY <3>4 DEF NextItem, Walk
      <4>2. Fit(table) /\ Stands(table, it) /\ (~resized => Walking(table, it, due, seen))
        BY <4>1 DEF HashTableInv, TableInv, WalkInv
      <4>3. \A dues, passed : Walking(table, it, dues, passed) =>
              IF i = NULL THEN dues \subseteq passed
              ELSE /\ table.heap[i.entry].key \notin passed
                   /\ Walking(table, i, dues, passed \union {table.heap[i.entry].key})
        BY <4>2, StepIs
      <4>. HIDE DEF i
      <4>. QED  BY <4>1, <4>2, <4>3 DEF IteratedOnce
    <3>. QED  BY <3>2, <3>3, <3>4
  <2>. QED  BY <2>1, <2>2
<1>. QED  BY <1>1, <1>2

\* A table of hash.c keeps its shape: every entry is in the bucket where its
\* key is looked for, no key has two, and count is not below the entries; and
\* lookups agree with what the callers were told, but for the keys that were
\* lost with one in front of them, whatever the keys, the hashes and the
\* sizes at which it grows and shrinks (hash_put, hash_change_size,
\* dfsch_hash_unset).
THEOREM ChainsAreMaps == HashTableSpec => []MapButForLost
<1>1. HashTableInv => MapButForLost
  BY InvMap
<1>. QED  BY <1>1, InvAlways, PTL

\* An iteration over a table that keeps its size yields no key twice unless it
\* was unset in between, and every key that was there throughout, although the
\* entry the iterator stands at may leave the table (hash_iterator_next).
THEOREM IterationsAreWhole == HashTableSpec => IteratesOnce
<1>1. HashTableInv /\ [HashTableNext]_hashTableVars => [IteratedOnce]_hashTableVars
  BY InvIterated
<1>. QED  BY <1>1, InvAlways, PTL DEF HashTableSpec, IteratesOnce
=============================================================================
