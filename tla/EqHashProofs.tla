---------------------------- MODULE EqHashProofs ----------------------------
(***************************************************************************)
(* Proofs about EqHash, for any keys, hashes, values and sizes: no          *)
(* operation leaves two entries for a key, or one where it is not looked    *)
(* for, and until a key is unset from a large table, or set again in one    *)
(* that has grown, what is found is what was set.                           *)
(***************************************************************************)
EXTENDS EqHash, SequenceTheorems, FiniteSetTheorems, WellFoundedInduction, TLAPS

-----------------------------------------------------------------------------
(* Numbers.                                                                *)

\* A set of natural numbers has a least element.
LEMMA LeastOf ==
  ASSUME NEW some \in SUBSET Nat, some # {}
  PROVE  \E i \in some : \A j \in some : i <= j
<1>1. OpToRel(<, Nat) = {ss \in Nat \X Nat : ss[1] < ss[2]}
  BY DEF OpToRel
<1>2. PICK k \in some : \A j \in some : ~(<<j, k>> \in OpToRel(<, Nat))
  BY NatLessThanWellFounded, WFMin, Zenon
<1>3. \A j \in some : k <= j
  <2>1. SUFFICES ASSUME NEW j \in some, ~(k <= j)
                 PROVE  FALSE
    OBVIOUS
  <2>2. j \in Nat /\ k \in Nat /\ j < k
    BY <2>1
  <2>3. <<j, k>> \in {ss \in Nat \X Nat : ss[1] < ss[2]}
    BY <2>2
  <2>. QED  BY <1>1, <1>2, <2>3
<1>. QED  BY <1>3

LEMMA MinOf ==
  ASSUME NEW some \in SUBSET Nat, some # {}
  PROVE  Min(some) \in some /\ \A j \in some : Min(some) <= j
<1>1. \E i \in some : \A j \in some : i <= j
  BY LeastOf
<1>. QED  BY <1>1, Zenon DEF Min

\* What holds of 0, and of the next number whenever it holds of one, holds up
\* to any number.
LEMMA Upward ==
  ASSUME NEW N \in Nat, NEW S, 0 \in S, \A n \in 0..(N - 1) : n \in S => n + 1 \in S
  PROVE  \A n \in 0..N : n \in S
<1>. DEFINE rest == {n \in 0..N : n \notin S}
<1>1. SUFFICES ASSUME rest # {}
               PROVE  FALSE
  OBVIOUS
<1>2. PICK i \in rest : \A j \in rest : i <= j
  <2>. rest \in SUBSET Nat
    OBVIOUS
  <2>. HIDE DEF rest
  <2>. QED  BY <1>1, LeastOf
<1>3. i # 0 /\ i \in 0..N /\ i \notin S
  OBVIOUS
<1>4. i - 1 \in 0..(N - 1) /\ i - 1 \notin rest
  BY <1>2, <1>3
<1>5. i - 1 \in S
  BY <1>4
<1>6. (i - 1) + 1 \in S
  BY <1>4, <1>5
<1>. QED  BY <1>3, <1>6

\* A recursive function exists.
Follows(f, N, base, step) == f[0] = base /\ \A k \in 1..N : f[k] = step[<<k, f[k - 1]>>]

LEMMA Recursion ==
  ASSUME NEW N \in Nat, NEW X, NEW base \in X, NEW step \in [(1..N) \X X -> X]
  PROVE  \E f \in [0..N -> X] : Follows(f, N, base, step)
<1>. DEFINE Upto(n, f) == f[0] = base /\ \A k \in 1..n : f[k] = step[<<k, f[k - 1]>>]
            S == {n \in 0..N : \E f \in [0..n -> X] : Upto(n, f)}
<1>1. 0 \in S
  <2>. DEFINE g == [i \in 0..0 |-> base]
  <2>1. g \in [0..0 -> X]
    OBVIOUS
  <2>2. Upto(0, g)
    OBVIOUS
  <2>. HIDE DEF g, Upto
  <2>. QED  BY <2>1, <2>2
<1>2. ASSUME NEW n \in 0..(N - 1), n \in S
      PROVE  n + 1 \in S
  <2>1. PICK f \in [0..n -> X] : Upto(n, f)
    BY <1>2
  <2>. DEFINE next == step[<<n + 1, f[n]>>]
              g == [i \in 0..(n + 1) |-> IF i = n + 1 THEN next ELSE f[i]]
  <2>2. n + 1 \in 1..N /\ f[n] \in X
    OBVIOUS
  <2>3. next \in X
    BY <2>2
  <2>4. g \in [0..(n + 1) -> X]
    <3>1. ASSUME NEW i \in 0..(n + 1), i # n + 1  PROVE f[i] \in X
      <4>. i \in 0..n
        BY <3>1
      <4>. QED  OBVIOUS
    <3>. HIDE DEF next
    <3>. QED  BY <2>3, <3>1
  <2>5. g[0] = base
    BY <2>1
  <2>6. ASSUME NEW k \in 1..(n + 1)
        PROVE  g[k] = step[<<k, g[k - 1]>>]
    <3>1. CASE k = n + 1
      <4>. g[k] = next /\ g[k - 1] = f[n]
        BY <3>1
      <4>. QED  BY <3>1
    <3>2. CASE k # n + 1
      <4>1. k \in 1..n /\ k - 1 \in 0..n
        BY <3>2
      <4>2. g[k] = f[k] /\ g[k - 1] = f[k - 1]
        BY <4>1
      <4>. QED  BY <2>1, <4>1, <4>2
    <3>. QED  BY <3>1, <3>2
  <2>7. Upto(n + 1, g)
    BY <2>5, <2>6
  <2>8. n + 1 \in 0..N
    OBVIOUS
  <2>. HIDE DEF g, Upto
  <2>. QED  BY <2>4, <2>7, <2>8
<1>3. \A n \in 0..N : n \in S
  <2>. HIDE DEF S
  <2>. QED  BY <1>1, <1>2, Upward
<1>4. PICK f \in [0..N -> X] : Upto(N, f)
  BY <1>3
<1>. QED  BY <1>4 DEF Follows

\* The place found by SelectInSeq.
LEMMA MinIn ==
  ASSUME NEW n \in Nat, NEW some \in SUBSET (1..n), some # {}
  PROVE  Min(some) \in some /\ \A j \in some : Min(some) <= j
<1>1. some \in SUBSET Nat
  OBVIOUS
<1>. QED  BY <1>1, MinOf

\* A chain without one of its entries.
LEMMA RemoveAtIs ==
  ASSUME NEW S, NEW c \in Seq(S), NEW at \in 1..Len(c), NEW r, r = RemoveAt(c, at)
  PROVE  /\ r \in Seq(S) /\ Len(r) = Len(c) - 1
         /\ \A i \in 1..(at - 1) : r[i] = c[i]
         /\ \A i \in at..(Len(c) - 1) : r[i] = c[i + 1]
<1>. DEFINE n == Len(c)
            before == SubSeq(c, 1, at - 1)
            after == SubSeq(c, at + 1, n)
<1>1. n \in Nat /\ at - 1 \in 0..n /\ r = before \o after
  BY DEF RemoveAt
<1>2. before \in Seq(S) /\ Len(before) = at - 1 /\ \A i \in 1..(at - 1) : before[i] = c[i]
  OBVIOUS
<1>3. after \in Seq(S) /\ Len(after) = n - at /\ \A i \in 1..(n - at) : after[i] = c[at + i]
  OBVIOUS
<1>. HIDE DEF before, after
<1>4. r \in Seq(S) /\ Len(r) = n - 1
  <2>1. before \o after \in Seq(S) /\ Len(before \o after) = Len(before) + Len(after)
    BY <1>2, <1>3, ConcatProperties
  <2>2. (at - 1) + (n - at) = n - 1
    BY <1>1
  <2>. QED  BY <1>1, <1>2, <1>3, <2>1, <2>2
<1>5. ASSUME NEW i \in 1..(n - 1)
      PROVE  r[i] = IF i <= at - 1 THEN before[i] ELSE after[i - (at - 1)]
  BY <1>1, <1>2, <1>3
<1>6. ASSUME NEW i \in 1..(at - 1)
      PROVE  r[i] = c[i]
  <2>1. i \in 1..(n - 1) /\ i <= at - 1
    BY <1>1
  <2>. QED  BY <1>2, <1>5, <2>1
<1>7. ASSUME NEW i \in at..(n - 1)
      PROVE  r[i] = c[i + 1]
  <2>1. i \in 1..(n - 1) /\ ~(i <= at - 1) /\ i - (at - 1) \in 1..(n - at)
    BY <1>1
  <2>2. at + (i - (at - 1)) = i + 1
    BY <2>1
  <2>. QED  BY <1>3, <1>5, <2>1, <2>2
<1>. QED  BY <1>4, <1>6, <1>7

LEMMA RemoveAtHas ==
  ASSUME NEW S, NEW c \in Seq(S), NEW at \in 1..Len(c), NEW r, r = RemoveAt(c, at),
         \A i, j \in 1..Len(c) : c[i] = c[j] => i = j
  PROVE  /\ ToSet(r) = ToSet(c) \ {c[at]}
         /\ \A i, j \in 1..Len(r) : r[i] = r[j] => i = j
<1>1. /\ r \in Seq(S) /\ Len(r) = Len(c) - 1
      /\ \A i \in 1..(at - 1) : r[i] = c[i]
      /\ \A i \in at..(Len(c) - 1) : r[i] = c[i + 1]
  BY RemoveAtIs
<1>. DEFINE from(i) == IF i < at THEN i ELSE i + 1
<1>2. ASSUME NEW i \in 1..Len(r)
      PROVE  from(i) \in 1..Len(c) /\ from(i) # at /\ r[i] = c[from(i)]
  <2>1. CASE i < at
    <3>1. i \in 1..(at - 1)
      BY <2>1
    <3>. QED  BY <1>1, <2>1, <3>1
  <2>2. CASE ~(i < at)
    <3>1. i \in at..(Len(c) - 1)
      BY <1>1, <2>2
    <3>. QED  BY <1>1, <2>2, <3>1
  <2>. QED  BY <2>1, <2>2
<1>3. ASSUME NEW i \in 1..Len(c), i # at
      PROVE  \E k \in 1..Len(r) : from(k) = i
  <2>1. CASE i < at
    <3>1. i \in 1..Len(r) /\ from(i) = i
      BY <1>1, <2>1
    <3>. QED  BY <3>1
  <2>2. CASE i > at
    <3>1. i - 1 \in 1..Len(r) /\ from(i - 1) = i
      BY <1>1, <2>2
    <3>. QED  BY <3>1
  <2>. QED  BY <1>3, <2>1, <2>2
<1>4. ToSet(r) \subseteq ToSet(c) \ {c[at]}
  BY <1>1, <1>2 DEF ToSet
<1>5. ToSet(c) \ {c[at]} \subseteq ToSet(r)
  <2>1. SUFFICES ASSUME NEW i \in 1..Len(c), i # at
                 PROVE  c[i] \in ToSet(r)
    BY DEF ToSet
  <2>2. PICK k \in 1..Len(r) : from(k) = i
    BY <1>3, <2>1
  <2>3. r[k] = c[i]
    BY <1>2, <2>2
  <2>4. k \in DOMAIN r
    BY <1>1
  <2>. QED  BY <2>3, <2>4 DEF ToSet
<1>6. ASSUME NEW i \in 1..Len(r), NEW j \in 1..Len(r), r[i] = r[j]
      PROVE  i = j
  <2>1. from(i) = from(j)
    <3>. HIDE DEF from
    <3>. QED  BY <1>2, <1>6
  <2>. QED  BY <2>1
<1>. QED  BY <1>4, <1>5, <1>6

-----------------------------------------------------------------------------
(* What a vector of buckets is.                                            *)

Name == Nat \X Nat
Item ==
  [key : Key, value : HashValue, flags : Nat]
    \union [key : {NoKey}, value : {NoValue}, flags : Nat]

\* A chain begins with the entry of its bucket, has allocated entries behind it,
\* and no entry twice.
IsChain(c, first) ==
  /\ c \in Seq(Name) /\ c # <<>> /\ c[1] = first
  /\ \A i \in 2..Len(c) : c[i][1] = 0
  /\ \A i, j \in 1..Len(c) : c[i] = c[j] => i = j

IsHeap(heap, mask) ==
  /\ heap \in [DOMAIN heap -> Item]
  /\ IsFiniteSet(DOMAIN heap) /\ DOMAIN heap \subseteq (0..mask) \X Nat

IsVector(v) ==
  /\ v = [mask |-> v.mask, chain |-> v.chain, heap |-> v.heap]
  /\ v.mask \in Nat \ {0}
  /\ DOMAIN v.chain = Buckets(v.mask) /\ v.chain = [b \in Buckets(v.mask) |-> v.chain[b]]
  /\ IsHeap(v.heap, v.mask)
  /\ \A b \in Buckets(v.mask) :
       IsChain(v.chain[b], InPlace(b, v.mask)) /\ ToSet(v.chain[b]) \subseteq DOMAIN v.heap

Links(v) == UNION {ToSet(v.chain[b]) : b \in Buckets(v.mask)}

\* Every key is in the bucket it is looked for in, and in one entry.
Placed(v) ==
  \A b \in Buckets(v.mask) : \A e \in ToSet(v.chain[b]) :
    v.heap[e].key # NoKey => Bucket(v.heap[e].key, v.mask) = b
Once(v) ==
  \A d, e \in Links(v) : v.heap[d].key # NoKey /\ v.heap[d].key = v.heap[e].key => d = e

\* A bucket whose first entry is free has no other.
Tight(v) ==
  \A b \in Buckets(v.mask) :
    v.heap[InPlace(b, v.mask)].key = NoKey => ToSet(v.chain[b]) = {InPlace(b, v.mask)}

Holds(v, k, x) == \E e \in Links(v) : v.heap[e].key = k /\ v.heap[e].value = x

LEMMA BucketIn ==
  ASSUME NEW k \in Key \union {NoKey}, NEW mask \in Nat
  PROVE  Bucket(k, mask) \in Buckets(mask)
<1>1. Hash[k].low \in Nat
  BY EqHashAssumption
<1>2. mask + 1 \in Nat /\ mask + 1 > 0
  OBVIOUS
<1>3. \A h \in Nat, s \in Nat : s > 0 => h % s \in 0..(s - 1)
  OBVIOUS
<1>4. Hash[k].low % (mask + 1) \in 0..((mask + 1) - 1)
  BY <1>1, <1>2, <1>3
<1>. QED  BY <1>4 DEF Bucket, Buckets

\* A free name is found.
LEMMA UnusedIs ==
  ASSUME NEW heap, IsFiniteSet(DOMAIN heap)
  PROVE  Unused(heap) \in {0} \X Nat /\ Unused(heap) \notin DOMAIN heap
<1>. DEFINE n == Cardinality(DOMAIN heap)
            free == {i \in 0..n : <<0, i>> \notin DOMAIN heap}
<1>1. n \in Nat
  BY FS_CardinalityType
<1>2. free # {}
  <2>1. SUFFICES ASSUME free = {}
                 PROVE  FALSE
    OBVIOUS
  <2>. DEFINE f == [i \in 0..n |-> <<0, i>>]
  <2>2. f \in Injection(0..n, DOMAIN heap)
    <3>1. f \in [0..n -> DOMAIN heap]
      BY <2>1
    <3>2. \A i, j \in 0..n : f[i] = f[j] => i = j
      OBVIOUS
    <3>. HIDE DEF f, n
    <3>. QED  BY <3>1, <3>2 DEF Injection, IsInjective
  <2>3. Cardinality(0..n) <= n
    <3>. HIDE DEF f
    <3>. QED  BY <2>2, FS_Injection
  <2>4. Cardinality(0..n) = n + 1
    <3>. HIDE DEF n
    <3>. QED  BY <1>1, FS_Interval
  <2>. HIDE DEF n
  <2>. QED  BY <1>1, <2>3, <2>4
<1>3. free \in SUBSET Nat
  BY <1>1
<1>4. Min(free) \in free
  <2>. HIDE DEF free
  <2>. QED  BY <1>2, <1>3, MinOf
<1>5. Unused(heap) = <<0, Min(free)>>
  BY DEF Unused
<1>. QED  BY <1>4, <1>5

-----------------------------------------------------------------------------
(* One entry put into a vector.                                            *)

\* What a vector v becomes when entry e of it gets an item.
Stored(v, w, item, e) ==
  /\ w.mask = v.mask
  /\ e \in DOMAIN w.heap /\ w.heap[e] = item
  /\ e \in DOMAIN v.heap =>
       v.heap[e].key = NoKey /\ e = InPlace(Bucket(item.key, v.mask), v.mask)
  /\ \A d \in DOMAIN v.heap : d \in DOMAIN w.heap /\ (d # e => w.heap[d] = v.heap[d])
  /\ e \in ToSet(w.chain[Bucket(item.key, v.mask)])
  /\ \A b \in Buckets(v.mask) : \A d \in ToSet(w.chain[b]) :
       d \in ToSet(v.chain[b]) \/ (d = e /\ b = Bucket(item.key, v.mask))

\* None is lost.
Added(v, w) ==
  /\ Tight(w)
  /\ \A b \in Buckets(v.mask) : ToSet(v.chain[b]) \subseteq ToSet(w.chain[b])

\* An entry behind the first one of its bucket.
LEMMA PutBehind ==
  ASSUME NEW v, IsVector(v), NEW item \in Item,
         v.heap[InPlace(Bucket(item.key, v.mask), v.mask)].key # NoKey
  PROVE  /\ IsVector(PutLow(v, item))
         /\ \E e : Stored(v, PutLow(v, item), item, e)
         /\ Tight(v) => Added(v, PutLow(v, item))
<1>. DEFINE w == PutLow(v, item)
            mask == v.mask
            b == Bucket(item.key, mask)
            c == v.chain[b]
            first == InPlace(b, mask)
            new == Unused(v.heap)
            d == <<first, new>> \o Tail(c)
<1>1. item.key \in Key \union {NoKey} /\ mask \in Nat \ {0} /\ b \in Buckets(mask)
  <2>1. item.key \in Key \union {NoKey} /\ mask \in Nat \ {0}
    BY DEF Item, IsVector
  <2>. QED  BY <2>1, BucketIn
<1>2. /\ c \in Seq(Name) /\ c # <<>> /\ c[1] = first /\ Head(c) = first
      /\ \A i \in 2..Len(c) : c[i][1] = 0
      /\ \A i, j \in 1..Len(c) : c[i] = c[j] => i = j
      /\ ToSet(c) \subseteq DOMAIN v.heap
  BY <1>1 DEF IsVector, IsChain
<1>3. new \in {0} \X Nat /\ new \notin DOMAIN v.heap /\ new \in Name /\ new[1] = 0
  BY UnusedIs DEF IsVector, IsHeap, Name
<1>4. w = [mask |-> mask, chain |-> [v.chain EXCEPT ![b] = d],
           heap |-> [e \in DOMAIN v.heap \union {new} |-> IF e = new THEN item ELSE v.heap[e]]]
  <2>1. w = [v EXCEPT !.chain[b] = <<Head(v.chain[b]), Unused(v.heap)>> \o Tail(@),
                      !.heap = [e \in DOMAIN @ \union {Unused(v.heap)} |->
                                  IF e = Unused(v.heap) THEN item ELSE @[e]]]
    BY <1>2 DEF PutLow
  <2>. QED  BY <1>2, <2>1 DEF IsVector
<1>5. /\ d \in Seq(Name) /\ Len(d) = Len(c) + 1 /\ d[1] = first /\ d[2] = new
      /\ \A i \in 3..Len(d) : i - 1 \in 2..Len(c) /\ d[i] = c[i - 1]
  <2>1. first \in Name
    BY <1>2
  <2>2. /\ Tail(c) \in Seq(Name) /\ Len(Tail(c)) = Len(c) - 1
        /\ \A i \in 1..(Len(c) - 1) : Tail(c)[i] = c[i + 1]
    BY <1>2
  <2>3. /\ d \in Seq(Name) /\ Len(d) = 2 + Len(Tail(c))
        /\ \A i \in 1..(2 + Len(Tail(c))) : d[i] = IF i <= 2 THEN <<first, new>>[i] ELSE Tail(c)[i - 2]
    BY <1>3, <2>1, <2>2, ConcatProperties
  <2>4. Len(c) \in Nat \ {0}
    BY <1>2
  <2>5. ASSUME NEW i \in 3..Len(d)
        PROVE  i - 1 \in 2..Len(c) /\ d[i] = c[i - 1]
    <3>1. i \in 1..(2 + Len(Tail(c))) /\ ~(i <= 2) /\ i - 2 \in 1..(Len(c) - 1) /\ (i - 2) + 1 = i - 1
      BY <2>2, <2>3, <2>4
    <3>. QED  BY <2>2, <2>3, <2>4, <3>1
  <2>. QED  BY <2>2, <2>3, <2>4, <2>5
<1>. HIDE DEF w, mask, b, c, first, new, d
<1>6. ToSet(d) = ToSet(c) \union {new}
  <2>0. DOMAIN c = 1..Len(c) /\ DOMAIN d = 1..Len(d) /\ Len(c) \in Nat /\ Len(c) # 0
    BY <1>2, <1>5
  <2>1. ASSUME NEW i \in 1..Len(d)
        PROVE  d[i] \in ToSet(c) \union {new}
    <3>1. CASE i = 1
      BY <1>2, <1>5, <2>0, <3>1 DEF ToSet
    <3>2. CASE i = 2
      BY <1>5, <3>2
    <3>3. CASE i \in 3..Len(d)
      <4>. i - 1 \in DOMAIN c /\ d[i] = c[i - 1]
        BY <1>5, <2>0, <3>3
      <4>. QED  BY DEF ToSet
    <3>. QED  BY <1>5, <2>0, <3>1, <3>2, <3>3
  <2>2. ASSUME NEW i \in 1..Len(c)
        PROVE  c[i] \in ToSet(d)
    <3>1. CASE i = 1
      <4>. 1 \in DOMAIN d /\ d[1] = c[1]
        BY <1>2, <1>5, <2>0
      <4>. QED  BY <3>1 DEF ToSet
    <3>2. CASE i # 1
      <4>1. i + 1 \in 3..Len(d) /\ (i + 1) - 1 = i
        BY <1>5, <2>0, <3>2
      <4>2. d[i + 1] = c[i] /\ i + 1 \in DOMAIN d
        BY <1>5, <2>0, <4>1
      <4>. QED  BY <4>2 DEF ToSet
    <3>. QED  BY <3>1, <3>2
  <2>3. new \in ToSet(d)
    <3>. 2 \in DOMAIN d
      BY <1>5, <2>0
    <3>. QED  BY <1>5 DEF ToSet
  <2>. QED  BY <2>0, <2>1, <2>2, <2>3 DEF ToSet
<1>7. IsChain(d, first)
  <2>0. Len(c) \in Nat \ {0}
    BY <1>2
  <2>1. ASSUME NEW i \in 1..Len(c)
        PROVE  c[i] # new
    <3>. i \in DOMAIN c
      BY <1>2
    <3>. QED  BY <1>2, <1>3 DEF ToSet
  <2>2. ASSUME NEW i \in 2..Len(d)
        PROVE  d[i][1] = 0
    <3>1. CASE i = 2
      BY <1>3, <1>5, <3>1
    <3>2. CASE i \in 3..Len(d)
      BY <1>2, <1>5, <3>2
    <3>. QED  BY <1>5, <3>1, <3>2
  <2>3. ASSUME NEW i \in 1..Len(d), NEW j \in 1..Len(d), d[i] = d[j]
        PROVE  i = j
    <3>. DEFINE from(n) == IF n = 1 THEN 1 ELSE n - 1
    <3>1. ASSUME NEW n \in 1..Len(d)
          PROVE  \/ n = 2 /\ d[n] = new
                 \/ n # 2 /\ from(n) \in 1..Len(c) /\ d[n] = c[from(n)]
      <4>1. CASE n = 1
        BY <1>2, <1>5, <2>0, <4>1
      <4>2. CASE n = 2
        BY <1>5, <4>2
      <4>3. CASE n \in 3..Len(d)
        BY <1>5, <2>0, <4>3
      <4>. QED  BY <1>5, <4>1, <4>2, <4>3
    <3>2. CASE i = 2
      BY <2>1, <2>3, <3>1, <3>2
    <3>3. CASE j = 2
      BY <2>1, <2>3, <3>1, <3>3
    <3>4. CASE i # 2 /\ j # 2
      <4>1. from(i) = from(j)
        <5>. HIDE DEF from
        <5>. QED  BY <1>2, <2>3, <3>1, <3>4
      <4>. QED  BY <3>4, <4>1
    <3>. QED  BY <3>2, <3>3, <3>4
  <2>4. d # <<>>
    BY <1>5, <2>0
  <2>. QED  BY <1>5, <2>2, <2>3, <2>4 DEF IsChain
<1>8. /\ w.mask = mask /\ w = [mask |-> w.mask, chain |-> w.chain, heap |-> w.heap]
      /\ DOMAIN w.chain = Buckets(mask) /\ w.chain[b] = d
      /\ \A a \in Buckets(mask) : a # b => w.chain[a] = v.chain[a]
      /\ DOMAIN w.heap = DOMAIN v.heap \union {new}
      /\ w.heap[new] = item
      /\ \A e \in DOMAIN v.heap : w.heap[e] = v.heap[e]
  BY <1>1, <1>3, <1>4 DEF IsVector, mask
<1>9. IsHeap(w.heap, mask)
  <2>1. IsHeap(v.heap, mask)
    BY DEF IsVector, mask
  <2>2. IsFiniteSet(DOMAIN w.heap)
    BY <1>8, <2>1, FS_AddElement DEF IsHeap
  <2>3. DOMAIN w.heap \subseteq (0..mask) \X Nat
    BY <1>1, <1>3, <1>8, <2>1 DEF IsHeap
  <2>4. w.heap \in [DOMAIN w.heap -> Item]
    <3>. w.heap = [e \in DOMAIN v.heap \union {new} |-> IF e = new THEN item ELSE v.heap[e]]
      BY <1>4
    <3>. QED  BY <1>8, <2>1 DEF IsHeap
  <2>. QED  BY <2>2, <2>3, <2>4 DEF IsHeap
<1>10. IsVector(w)
  <2>1. ASSUME NEW a \in Buckets(mask)
        PROVE  IsChain(w.chain[a], InPlace(a, mask)) /\ ToSet(w.chain[a]) \subseteq DOMAIN w.heap
    <3>1. CASE a = b
      BY <1>2, <1>6, <1>7, <1>8, <3>1 DEF first
    <3>2. CASE a # b
      BY <1>8, <3>2 DEF IsVector, mask
    <3>. QED  BY <3>1, <3>2
  <2>2. w.chain = [a \in Buckets(mask) |-> w.chain[a]]
    BY <1>4, <1>8 DEF IsVector, mask
  <2>. QED  BY <1>1, <1>8, <1>9, <2>1, <2>2 DEF IsVector
<1>11. Stored(v, w, item, new)
  <2>1. ASSUME NEW a \in Buckets(mask), NEW e \in ToSet(w.chain[a])
        PROVE  e \in ToSet(v.chain[a]) \/ (e = new /\ a = b)
    BY <1>6, <1>8 DEF c
  <2>2. new \in ToSet(w.chain[b])
    BY <1>6, <1>8
  <2>. QED  BY <1>3, <1>8, <2>1, <2>2 DEF Stored, mask, b
<1>12. ASSUME Tight(v)
       PROVE  Added(v, w)
  <2>1. ASSUME NEW a \in Buckets(mask)
        PROVE  ToSet(v.chain[a]) \subseteq ToSet(w.chain[a])
    BY <1>6, <1>8 DEF c
  <2>2. ASSUME NEW a \in Buckets(mask), w.heap[InPlace(a, mask)].key = NoKey
        PROVE  ToSet(w.chain[a]) = {InPlace(a, mask)}
    <3>1. InPlace(a, mask) \in DOMAIN v.heap
      <4>. IsChain(v.chain[a], InPlace(a, mask)) /\ ToSet(v.chain[a]) \subseteq DOMAIN v.heap
        BY DEF IsVector, mask
      <4>. 1 \in DOMAIN v.chain[a] /\ v.chain[a][1] = InPlace(a, mask)
        BY DEF IsChain
      <4>. QED  BY DEF ToSet
    <3>2. v.heap[InPlace(a, mask)].key = NoKey
      BY <1>8, <2>2, <3>1
    <3>3. a # b
      BY <3>2 DEF b, mask
    <3>. QED  BY <1>8, <1>12, <3>2, <3>3 DEF Tight, mask
  <2>. QED  BY <1>8, <2>1, <2>2 DEF Added, Tight, mask
<1>. QED  BY <1>10, <1>11, <1>12 DEF w

\* The first entry of a vector's bucket is in use there.
LEMMA FirstOfBucket ==
  ASSUME NEW v, IsVector(v), NEW b \in Buckets(v.mask)
  PROVE  /\ InPlace(b, v.mask) \in ToSet(v.chain[b]) /\ InPlace(b, v.mask) \in DOMAIN v.heap
         /\ \A a \in Buckets(v.mask) : InPlace(b, v.mask) \in ToSet(v.chain[a]) => a = b
<1>1. v.mask \in Nat \ {0} /\ \A a \in Buckets(v.mask) :
        IsChain(v.chain[a], InPlace(a, v.mask)) /\ ToSet(v.chain[a]) \subseteq DOMAIN v.heap
  BY DEF IsVector
<1>2. 1 \in DOMAIN v.chain[b] /\ v.chain[b][1] = InPlace(b, v.mask)
  BY <1>1 DEF IsChain
<1>3. ASSUME NEW a \in Buckets(v.mask), NEW i \in DOMAIN v.chain[a],
             v.chain[a][i] = InPlace(b, v.mask)
      PROVE  a = b
  <2>1. v.chain[a] \in Seq(Name) /\ DOMAIN v.chain[a] = 1..Len(v.chain[a])
    BY <1>1 DEF IsChain
  <2>2. CASE i = 1
    BY <1>1, <1>3, <2>2 DEF IsChain, InPlace
  <2>3. CASE i # 1
    <3>1. i \in 2..Len(v.chain[a])
      BY <2>1, <2>3
    <3>2. v.chain[a][i][1] = 0
      BY <1>1, <3>1 DEF IsChain
    <3>. QED  BY <1>1, <1>3, <3>2 DEF InPlace
  <2>. QED  BY <2>2, <2>3
<1>. QED  BY <1>1, <1>2, <1>3 DEF ToSet

\* A free entry is taken.
LEMMA PutInPlace ==
  ASSUME NEW v, IsVector(v), NEW item \in Item,
         v.heap[InPlace(Bucket(item.key, v.mask), v.mask)].key = NoKey
  PROVE  /\ IsVector(PutLow(v, item))
         /\ \E e : Stored(v, PutLow(v, item), item, e)
         /\ Tight(v) => Added(v, PutLow(v, item))
<1>. DEFINE w == PutLow(v, item)
            mask == v.mask
            b == Bucket(item.key, mask)
            first == InPlace(b, mask)
<1>1. item.key \in Key \union {NoKey} /\ mask \in Nat \ {0} /\ b \in Buckets(mask)
  <2>1. item.key \in Key \union {NoKey} /\ mask \in Nat \ {0}
    BY DEF Item, IsVector
  <2>. QED  BY <2>1, BucketIn
<1>2. Head(v.chain[b]) = first
  BY <1>1 DEF IsVector, IsChain
<1>3. /\ first \in ToSet(v.chain[b]) /\ first \in DOMAIN v.heap
      /\ \A a \in Buckets(mask) : first \in ToSet(v.chain[a]) => a = b
  BY <1>1, FirstOfBucket
<1>4. w = [mask |-> mask, chain |-> [v.chain EXCEPT ![b] = <<first>>],
           heap |-> [v.heap EXCEPT ![first] = item]]
  <2>1. w = [v EXCEPT !.chain[b] = <<Head(v.chain[b])>>, !.heap[Head(v.chain[b])] = item]
    BY <1>2 DEF PutLow
  <2>. QED  BY <1>2, <2>1 DEF IsVector
<1>. HIDE DEF w, mask, b, first
<1>5. first \in Name /\ ToSet(<<first>>) = {first} /\ IsChain(<<first>>, first)
  <2>1. first \in Name
    BY <1>3 DEF IsVector, IsHeap, Name
  <2>2. Len(<<first>>) = 1 /\ DOMAIN <<first>> = {1} /\ <<first>>[1] = first
    OBVIOUS
  <2>. QED  BY <2>1, <2>2 DEF IsChain, ToSet
<1>6. /\ w.mask = mask /\ w = [mask |-> w.mask, chain |-> w.chain, heap |-> w.heap]
      /\ DOMAIN w.chain = Buckets(mask) /\ w.chain[b] = <<first>>
      /\ \A a \in Buckets(mask) : a # b => w.chain[a] = v.chain[a]
      /\ DOMAIN w.heap = DOMAIN v.heap
      /\ w.heap[first] = item
      /\ \A e \in DOMAIN v.heap : e # first => w.heap[e] = v.heap[e]
  BY <1>1, <1>3, <1>4 DEF IsVector, IsHeap, mask
<1>7. IsHeap(w.heap, mask)
  <2>1. IsHeap(v.heap, mask)
    BY DEF IsVector, mask
  <2>2. w.heap = [v.heap EXCEPT ![first] = item]
    BY <1>4
  <2>. QED  BY <1>3, <1>6, <2>1, <2>2 DEF IsHeap
<1>8. IsVector(w)
  <2>1. ASSUME NEW a \in Buckets(mask)
        PROVE  IsChain(w.chain[a], InPlace(a, mask)) /\ ToSet(w.chain[a]) \subseteq DOMAIN w.heap
    <3>1. CASE a = b
      BY <1>3, <1>5, <1>6, <3>1 DEF first
    <3>2. CASE a # b
      BY <1>6, <3>2 DEF IsVector, mask
    <3>. QED  BY <3>1, <3>2
  <2>2. w.chain = [a \in Buckets(mask) |-> w.chain[a]]
    BY <1>4, <1>6 DEF IsVector, mask
  <2>. QED  BY <1>1, <1>6, <1>7, <2>1, <2>2 DEF IsVector
<1>9. Stored(v, w, item, first)
  <2>1. ASSUME NEW a \in Buckets(mask), NEW e \in ToSet(w.chain[a])
        PROVE  e \in ToSet(v.chain[a]) \/ (e = first /\ a = b)
    BY <1>5, <1>6
  <2>2. first \in ToSet(w.chain[b])
    BY <1>5, <1>6
  <2>3. v.heap[first].key = NoKey
    BY DEF first, b, mask
  <2>4. \A d \in DOMAIN v.heap : d \in DOMAIN w.heap /\ (d # first => w.heap[d] = v.heap[d])
    BY <1>6
  <2>. QED  BY <1>3, <1>6, <2>1, <2>2, <2>3, <2>4 DEF Stored, mask, b, first
<1>10. ASSUME Tight(v)
       PROVE  Added(v, w)
  <2>1. ToSet(v.chain[b]) = {first}
    BY <1>1, <1>10 DEF Tight, first, b, mask
  <2>2. ASSUME NEW a \in Buckets(mask)
        PROVE  ToSet(v.chain[a]) \subseteq ToSet(w.chain[a])
    BY <1>5, <1>6, <2>1
  <2>3. ASSUME NEW a \in Buckets(mask), w.heap[InPlace(a, mask)].key = NoKey
        PROVE  ToSet(w.chain[a]) = {InPlace(a, mask)}
    <3>1. CASE a = b
      BY <1>5, <1>6, <3>1 DEF first
    <3>2. CASE a # b
      <4>1. InPlace(a, mask) # first /\ InPlace(a, mask) \in DOMAIN v.heap
        BY <3>2, FirstOfBucket DEF first, InPlace, mask
      <4>2. v.heap[InPlace(a, mask)].key = NoKey
        BY <1>6, <2>3, <4>1
      <4>. QED  BY <1>6, <1>10, <3>2, <4>2 DEF Tight, mask
    <3>. QED  BY <3>1, <3>2
  <2>. QED  BY <1>6, <2>2, <2>3 DEF Added, Tight, mask
<1>. QED  BY <1>8, <1>9, <1>10 DEF w

LEMMA PutLowIs ==
  ASSUME NEW v, IsVector(v), NEW item \in Item
  PROVE  /\ IsVector(PutLow(v, item))
         /\ \E e : Stored(v, PutLow(v, item), item, e)
         /\ Tight(v) => Added(v, PutLow(v, item))
BY PutBehind, PutInPlace

\* A vector to which a key is added that it has not is still in order.
LEMMA StoredInOrder ==
  ASSUME NEW v, IsVector(v), NEW w, IsVector(w), NEW item \in Item, NEW e,
         Stored(v, w, item, e), Placed(v), Once(v),
         item.key # NoKey => \A d \in Links(v) : v.heap[d].key # item.key
  PROVE  Placed(w) /\ Once(w)
<1>. DEFINE b == Bucket(item.key, v.mask)
<1>1. ASSUME NEW a \in Buckets(v.mask), NEW d \in ToSet(v.chain[a])
      PROVE  d \in DOMAIN v.heap
  BY DEF IsVector
<1>2. ASSUME NEW a \in Buckets(w.mask), NEW d \in ToSet(w.chain[a]), w.heap[d].key # NoKey
      PROVE  \/ d = e /\ a = b /\ w.heap[d] = item
             \/ d # e /\ d \in ToSet(v.chain[a]) /\ w.heap[d] = v.heap[d]
             \/ d = e /\ d \in ToSet(v.chain[a]) /\ w.heap[d] = item
  BY <1>1 DEF Stored
<1>3. ASSUME NEW a \in Buckets(w.mask), e \in ToSet(v.chain[a]), item.key # NoKey
      PROVE  a = b
  <2>1. e = InPlace(b, v.mask) /\ a \in Buckets(v.mask)
    BY <1>1, <1>3 DEF Stored
  <2>2. b \in Buckets(v.mask)
    BY BucketIn DEF IsVector, Item
  <2>. HIDE DEF b
  <2>. QED  BY <1>3, <2>1, <2>2, FirstOfBucket
<1>4. Placed(w)
  <2>1. ASSUME NEW a \in Buckets(w.mask), NEW d \in ToSet(w.chain[a]), w.heap[d].key # NoKey
        PROVE  Bucket(w.heap[d].key, w.mask) = a
    <3>1. w.mask = v.mask
      BY DEF Stored
    <3>. QED  BY <1>2, <1>3, <2>1, <3>1 DEF Placed
  <2>. QED  BY <2>1 DEF Placed
<1>5. ASSUME NEW d \in Links(w), d # e
      PROVE  d \in Links(v) /\ w.heap[d] = v.heap[d]
  <2>1. PICK a \in Buckets(w.mask) : d \in ToSet(w.chain[a])
    BY DEF Links
  <2>2. a \in Buckets(v.mask) /\ d \in ToSet(v.chain[a])
    BY <1>5, <2>1 DEF Stored
  <2>. QED  BY <1>1, <1>5, <2>2 DEF Links, Stored
<1>6. ASSUME NEW d \in Links(w), NEW f \in Links(w), w.heap[d].key # NoKey,
             w.heap[d].key = w.heap[f].key
      PROVE  d = f
  <2>0. w.heap[e] = item
    BY DEF Stored
  <2>1. CASE d # e /\ f # e
    BY <1>5, <1>6, <2>1 DEF Once
  <2>2. CASE d = e /\ f # e
    BY <1>5, <1>6, <2>0, <2>2
  <2>3. CASE d # e /\ f = e
    BY <1>5, <1>6, <2>0, <2>3
  <2>. QED  BY <2>1, <2>2, <2>3
<1>. QED  BY <1>4, <1>6 DEF Once

\* What it holds then.
LEMMA StoredHolds ==
  ASSUME NEW v, IsVector(v), NEW w, IsVector(w), NEW item \in Item, NEW e,
         Stored(v, w, item, e), NEW k \in Key, NEW x
  PROVE  /\ Holds(w, k, x) => Holds(v, k, x) \/ (item.key = k /\ item.value = x)
         /\ item.key = k /\ item.value = x => Holds(w, k, x)
         /\ Added(v, w) /\ Holds(v, k, x) => Holds(w, k, x)
<1>0. NoKey \notin Key
  BY EqHashAssumption
<1>1. ASSUME NEW d \in Links(w), d # e
      PROVE  d \in Links(v) /\ w.heap[d] = v.heap[d]
  <2>1. PICK a \in Buckets(w.mask) : d \in ToSet(w.chain[a])
    BY DEF Links
  <2>2. a \in Buckets(v.mask) /\ d \in ToSet(v.chain[a])
    BY <1>1, <2>1 DEF Stored
  <2>. QED  BY <1>1, <2>2 DEF Links, Stored, IsVector
<1>2. ASSUME Holds(w, k, x)
      PROVE  Holds(v, k, x) \/ (item.key = k /\ item.value = x)
  <2>1. PICK d \in Links(w) : w.heap[d].key = k /\ w.heap[d].value = x
    BY <1>2 DEF Holds
  <2>. QED  BY <1>1, <2>1 DEF Holds, Stored
<1>3. ASSUME item.key = k, item.value = x
      PROVE  Holds(w, k, x)
  <2>1. Bucket(item.key, v.mask) \in Buckets(w.mask)
    BY <1>3, BucketIn DEF Stored, IsVector
  <2>2. e \in Links(w) /\ w.heap[e] = item
    BY <2>1 DEF Stored, Links
  <2>. QED  BY <1>3, <2>2 DEF Holds
<1>4. ASSUME Added(v, w), Holds(v, k, x)
      PROVE  Holds(w, k, x)
  <2>1. PICK d \in Links(v) : v.heap[d].key = k /\ v.heap[d].value = x
    BY <1>4 DEF Holds
  <2>2. PICK a \in Buckets(v.mask) : d \in ToSet(v.chain[a])
    BY DEF Links
  <2>3. d \in DOMAIN v.heap /\ d \in Links(w)
    BY <1>4, <2>2 DEF Added, Links, Stored, IsVector
  <2>4. d # e
    BY <1>0, <2>1, <2>3 DEF Stored
  <2>. QED  BY <2>1, <2>3, <2>4 DEF Stored, Holds
<1>. QED  BY <1>2, <1>3, <1>4

-----------------------------------------------------------------------------
(* Many entries put into a vector.                                         *)

\* The vectors of one size.
Vectors(mask) ==
  {v \in [mask : {mask}, chain : [Buckets(mask) -> Seq(Name)],
          heap : UNION {[names -> Item] : names \in SUBSET Name}] : IsVector(v)}

LEMMA VectorsAre ==
  ASSUME NEW v, NEW mask
  PROVE  v \in Vectors(mask) <=> IsVector(v) /\ v.mask = mask
<1>1. ASSUME v \in Vectors(mask)
      PROVE  IsVector(v) /\ v.mask = mask
  BY <1>1 DEF Vectors
<1>2. ASSUME IsVector(v), v.mask = mask
      PROVE  v \in Vectors(mask)
  <2>1. v.chain \in [Buckets(mask) -> Seq(Name)]
    BY <1>2 DEF IsVector, IsChain
  <2>2. DOMAIN v.heap \in SUBSET Name /\ v.heap \in [DOMAIN v.heap -> Item]
    BY <1>2 DEF IsVector, IsHeap, Name
  <2>3. v.heap \in UNION {[names -> Item] : names \in SUBSET Name}
    BY <2>2
  <2>4. v = [mask |-> mask, chain |-> v.chain, heap |-> v.heap]
    BY <1>2 DEF IsVector
  <2>. QED  BY <1>2, <2>1, <2>3, <2>4 DEF Vectors
<1>. QED  BY <1>1, <1>2

\* Of the items src, those at some places are in vector v, and nothing else is;
\* the entries kept are beside it.
Moved(src, some, kept, v) ==
  /\ Placed(v) /\ Once(v) /\ Tight(v)
  /\ \A d \in DOMAIN kept : d \in DOMAIN v.heap /\ v.heap[d] = kept[d] /\ d \notin Links(v)
  /\ \A k \in Key : \A x : Holds(v, k, x) <=> \E s \in some : src[s].key = k /\ src[s].value = x

\* An empty vector.
LEMMA AllocVectorIs ==
  ASSUME NEW mask \in Nat \ {0}, NEW old \in Nat, old < mask, NEW heap, IsHeap(heap, old),
         NEW src
  PROVE  AllocVector(mask, heap) \in Vectors(mask) /\ Moved(src, {}, heap, AllocVector(mask, heap))
<1>. DEFINE v == AllocVector(mask, heap)
            firsts == {InPlace(b, mask) : b \in Buckets(mask)}
<1>1. v = [mask |-> mask, chain |-> [b \in Buckets(mask) |-> <<InPlace(b, mask)>>],
           heap |-> [e \in DOMAIN heap \union firsts |->
                       IF e \in DOMAIN heap THEN heap[e] ELSE FreeEntry]]
  BY DEF AllocVector
<1>2. v.mask = mask /\ DOMAIN v.chain = Buckets(mask) /\ DOMAIN v.heap = DOMAIN heap \union firsts
  BY <1>1
<1>3. \A e \in DOMAIN v.heap : v.heap[e] = IF e \in DOMAIN heap THEN heap[e] ELSE FreeEntry
  BY <1>1
<1>4. firsts \subseteq (0..mask) \X Nat /\ IsFiniteSet(firsts)
  <2>1. firsts \subseteq (0..mask) \X Nat
    BY DEF InPlace, Buckets
  <2>. DEFINE f == [b \in 0..mask |-> InPlace(b, mask)]
  <2>2. f \in Surjection(0..mask, firsts)
    <3>1. f \in [0..mask -> firsts] /\ \A e \in firsts : \E b \in 0..mask : f[b] = e
      BY DEF Buckets
    <3>. HIDE DEF f, firsts
    <3>. QED  BY <3>1 DEF Surjection
  <2>3. IsFiniteSet(0..mask)
    BY FS_Interval
  <2>4. IsFiniteSet(firsts)
    <3>. HIDE DEF f, firsts
    <3>. QED  BY <2>2, <2>3, FS_Surjection
  <2>. QED  BY <2>1, <2>4
<1>5. DOMAIN heap \intersect firsts = {}
  BY DEF IsHeap, InPlace
<1>6. FreeEntry \in Item /\ FreeEntry.key = NoKey
  BY DEF FreeEntry, Entry, Item
<1>. HIDE DEF firsts
<1>7. IsHeap(v.heap, mask)
  <2>1. IsFiniteSet(DOMAIN heap \union firsts)
    BY <1>4, FS_Union DEF IsHeap
  <2>2. DOMAIN heap \subseteq (0..mask) \X Nat
    BY DEF IsHeap
  <2>3. v.heap \in [DOMAIN v.heap -> Item]
    BY <1>1, <1>6 DEF IsHeap
  <2>. QED  BY <1>2, <1>4, <2>1, <2>2, <2>3 DEF IsHeap
<1>8. ASSUME NEW b \in Buckets(mask)
      PROVE  /\ v.chain[b] = <<InPlace(b, mask)>> /\ ToSet(v.chain[b]) = {InPlace(b, mask)}
             /\ InPlace(b, mask) \in firsts /\ InPlace(b, mask) \in Name
  <2>1. v.chain[b] = <<InPlace(b, mask)>>
    BY <1>1
  <2>2. InPlace(b, mask) \in firsts
    BY DEF firsts
  <2>. HIDE DEF v
  <2>. QED  BY <1>4, <2>1, <2>2 DEF ToSet, Name
<1>9. IsVector(v)
  <2>1. ASSUME NEW b \in Buckets(mask)
        PROVE  IsChain(v.chain[b], InPlace(b, mask)) /\ ToSet(v.chain[b]) \subseteq DOMAIN v.heap
    <3>1. PICK e \in Name : e = InPlace(b, mask)
      BY <1>8
    <3>2. <<e>> \in Seq(Name) /\ Len(<<e>>) = 1 /\ <<e>>[1] = e /\ <<e>> # <<>>
      OBVIOUS
    <3>3. v.chain[b] = <<e>>
      BY <1>8, <3>1
    <3>4. IsChain(v.chain[b], e)
      BY <3>2, <3>3 DEF IsChain
    <3>. HIDE DEF v
    <3>. QED  BY <1>2, <1>8, <3>1, <3>4
  <2>2. v = [mask |-> v.mask, chain |-> v.chain, heap |-> v.heap]
        /\ v.chain = [b \in Buckets(v.mask) |-> v.chain[b]]
    BY <1>1
  <2>. HIDE DEF v
  <2>. QED  BY <1>2, <1>7, <2>1, <2>2 DEF IsVector
<1>. HIDE DEF v
<1>10. ASSUME NEW e \in Links(v)
       PROVE  e \in firsts /\ e \notin DOMAIN heap /\ v.heap[e].key = NoKey
  <2>1. e \in firsts
    BY <1>2, <1>8 DEF Links
  <2>. QED  BY <1>2, <1>3, <1>5, <1>6, <2>1
<1>11. \A b \in Buckets(mask) : ToSet(v.chain[b]) \subseteq Links(v)
  BY <1>2 DEF Links
<1>12. Placed(v) /\ Once(v) /\ Tight(v)
  BY <1>2, <1>8, <1>10, <1>11 DEF Placed, Once, Tight
<1>13. \A k \in Key : \A x : ~Holds(v, k, x)
  BY <1>10, EqHashAssumption DEF Holds
<1>14. \A d \in DOMAIN heap : d \in DOMAIN v.heap /\ v.heap[d] = heap[d] /\ d \notin Links(v)
  BY <1>2, <1>3, <1>10
<1>. QED  BY <1>2, <1>9, <1>12, <1>13, <1>14, VectorsAre DEF Moved, v

\* One more.
LEMMA MoveOne ==
  ASSUME NEW mask, NEW v \in Vectors(mask), NEW src, NEW some, NEW kept,
         Moved(src, some, kept, v), NEW at, src[at] \in Item,
         src[at].key # NoKey => \A s \in some : src[s].key # src[at].key
  PROVE  /\ PutLow(v, src[at]) \in Vectors(mask)
         /\ Moved(src, some \union {at}, kept, PutLow(v, src[at]))
<1>. DEFINE item == src[at]
            w == PutLow(v, item)
<1>0. IsVector(v) /\ v.mask = mask
  BY VectorsAre
<1>1. IsVector(w) /\ (\E e : Stored(v, w, item, e)) /\ (Tight(v) => Added(v, w))
  <2>1. item \in Item
    OBVIOUS
  <2>. HIDE DEF item
  <2>. QED  BY <1>0, <2>1, PutLowIs
<1>. HIDE DEF w, item
<1>2. item \in Item
  BY DEF item
<1>3. PICK e : Stored(v, w, item, e)
  BY <1>1
<1>4. Tight(v) /\ Added(v, w) /\ Placed(v) /\ Once(v)
  BY <1>1 DEF Moved
<1>5. item.key # NoKey => \A d \in Links(v) : v.heap[d].key # item.key
  <2>1. SUFFICES ASSUME item.key # NoKey, NEW d \in Links(v), v.heap[d].key = item.key
                 PROVE  FALSE
    OBVIOUS
  <2>2. item.key \in Key
    BY <1>2, <2>1 DEF Item
  <2>3. Holds(v, item.key, v.heap[d].value)
    BY <2>1 DEF Holds
  <2>4. PICK s \in some : src[s].key = item.key
    BY <2>2, <2>3 DEF Moved
  <2>. QED  BY <2>1, <2>4 DEF item
<1>6. Placed(w) /\ Once(w)
  BY <1>0, <1>1, <1>2, <1>3, <1>4, <1>5, StoredInOrder
<1>7. ASSUME NEW d \in DOMAIN kept
      PROVE  d \in DOMAIN w.heap /\ w.heap[d] = kept[d] /\ d \notin Links(w)
  <2>1. d \in DOMAIN v.heap /\ v.heap[d] = kept[d] /\ d \notin Links(v)
    BY DEF Moved
  <2>2. d # e
    <3>1. SUFFICES ASSUME d = e
                   PROVE  FALSE
      OBVIOUS
    <3>2. d = InPlace(Bucket(item.key, v.mask), v.mask)
      BY <1>3, <2>1, <3>1 DEF Stored
    <3>3. Bucket(item.key, v.mask) \in Buckets(v.mask)
      BY <1>0, <1>2, BucketIn DEF Item, IsVector
    <3>. QED  BY <1>0, <2>1, <3>2, <3>3, FirstOfBucket DEF Links
  <2>3. d \notin Links(w)
    BY <1>3, <2>1, <2>2 DEF Links, Stored
  <2>. QED  BY <1>3, <2>1, <2>2, <2>3 DEF Stored
<1>8. ASSUME NEW k \in Key, NEW x
      PROVE  Holds(w, k, x) <=> \E s \in some \union {at} : src[s].key = k /\ src[s].value = x
  <2>1. Holds(v, k, x) <=> \E s \in some : src[s].key = k /\ src[s].value = x
    BY DEF Moved
  <2>2. Holds(w, k, x) <=> Holds(v, k, x) \/ (item.key = k /\ item.value = x)
    BY <1>0, <1>1, <1>2, <1>3, <1>4, StoredHolds
  <2>. QED  BY <2>1, <2>2 DEF item
<1>9. Moved(src, some \union {at}, kept, w)
  BY <1>4, <1>6, <1>7, <1>8 DEF Moved, Added
<1>10. w \in Vectors(mask)
  BY <1>0, <1>1, <1>3, VectorsAre DEF Stored
<1>. QED  BY <1>9, <1>10 DEF w, item

\* The entries of a list.
LEMMA PutAllIs ==
  ASSUME NEW mask, NEW v \in Vectors(mask), NEW src, NEW some, NEW kept,
         Moved(src, some, kept, v), NEW entries \in Seq(Item), NEW at,
         \A i \in 1..Len(entries) : entries[i] = src[at[i]],
         \A i, j \in 1..Len(entries) :
           entries[i].key # NoKey /\ entries[i].key = entries[j].key => i = j,
         \A i \in 1..Len(entries), s \in some :
           entries[i].key # NoKey => src[s].key # entries[i].key
  PROVE  /\ PutAll(v, entries) \in Vectors(mask)
         /\ Moved(src, some \union {at[i] : i \in 1..Len(entries)}, kept, PutAll(v, entries))
<1>. DEFINE X == Vectors(mask)
            N == Len(entries)
            After(n, u) == PutLow(u, entries[n])
            step == [p \in (1..N) \X X |-> After(p[1], p[2])]
            IsRun(f) == f = [n \in 0..N |-> IF n = 0 THEN v ELSE After(n, f[n - 1])]
            run == CHOOSE f : IsRun(f)
<1>1. PutAll(v, entries) = run[N]
  BY DEF PutAll
<1>2. N \in Nat
  OBVIOUS
<1>3. step \in [(1..N) \X X -> X]
  <2>1. ASSUME NEW n \in 1..N, NEW u \in X
        PROVE  After(n, u) \in X
    <3>1. entries[n] \in Item /\ IsVector(u) /\ u.mask = mask
      BY VectorsAre
    <3>2. IsVector(PutLow(u, entries[n])) /\ \E e : Stored(u, PutLow(u, entries[n]), entries[n], e)
      BY <3>1, PutLowIs
    <3>3. PutLow(u, entries[n]).mask = mask
      BY <3>1, <3>2 DEF Stored
    <3>. QED  BY <3>2, <3>3, VectorsAre
  <2>. HIDE DEF After, X
  <2>. QED  BY <2>1
<1>4. \E f : IsRun(f)
  <2>0. v \in X
    OBVIOUS
  <2>. HIDE DEF step, X, N
  <2>2. PICK f \in [0..N -> X] : Follows(f, N, v, step)
    BY <1>2, <1>3, <2>0, Recursion
  <2>3. ASSUME NEW n \in 1..N
        PROVE  f[n] = After(n, f[n - 1])
    <3>1. n - 1 \in 0..N
      BY <1>2
    <3>2. f[n - 1] \in X
      BY <3>1
    <3>. HIDE DEF After
    <3>. QED  BY <2>2, <3>2 DEF step, Follows
  <2>4. \A n \in 0..N : f[n] = IF n = 0 THEN v ELSE After(n, f[n - 1])
    <3>. HIDE DEF After
    <3>1. \A n \in 0..N : n # 0 => n \in 1..N
      BY <1>2
    <3>. QED  BY <2>2, <2>3, <3>1 DEF Follows
  <2>5. f = [n \in 0..N |-> IF n = 0 THEN v ELSE After(n, f[n - 1])]
    <3>. HIDE DEF After
    <3>. QED  BY <2>4
  <2>. QED  BY <2>5
<1>5. IsRun(run)
  <2>. HIDE DEF IsRun
  <2>. QED  BY <1>4
<1>6. run[0] = v /\ \A n \in 1..N : run[n] = After(n, run[n - 1])
  <2>. HIDE DEF run, After
  <2>1. 0 \in 0..N /\ \A n \in 1..N : n \in 0..N /\ n # 0
    OBVIOUS
  <2>. QED  BY <1>5, <2>1
<1>. DEFINE upto(n) == some \union {at[i] : i \in 1..n}
            S == {n \in 0..N : run[n] \in Vectors(mask) /\ Moved(src, upto(n), kept, run[n])}
<1>7. 0 \in S
  <2>1. upto(0) = some
    OBVIOUS
  <2>. HIDE DEF upto, run
  <2>. QED  BY <1>2, <1>6, <2>1
<1>8. ASSUME NEW n \in 0..(N - 1), n \in S
      PROVE  n + 1 \in S
  <2>1. n + 1 \in 1..N /\ (n + 1) - 1 = n /\ n + 1 \in 0..N
    BY <1>2
  <2>2. run[n + 1] = PutLow(run[n], entries[n + 1])
    <3>. HIDE DEF run, N
    <3>. QED  BY <1>6, <2>1
  <2>. DEFINE here == at[n + 1]
  <2>3. entries[n + 1] = src[here] /\ src[here] \in Item
    BY <2>1
  <2>4. src[here].key # NoKey => \A s \in upto(n) : src[s].key # src[here].key
    <3>1. SUFFICES ASSUME src[here].key # NoKey, NEW s \in upto(n), src[s].key = src[here].key
                   PROVE  FALSE
      OBVIOUS
    <3>2. CASE s \in some
      BY <2>1, <2>3, <3>1, <3>2
    <3>3. CASE s \notin some
      <4>1. PICK i \in 1..n : s = at[i]
        BY <3>3
      <4>2. i \in 1..N /\ i # n + 1 /\ entries[i] = src[s]
        BY <4>1
      <4>. QED  BY <2>1, <2>3, <3>1, <4>2
    <3>. QED  BY <3>2, <3>3
  <2>5. upto(n + 1) = upto(n) \union {here}
    <3>1. 1..(n + 1) = (1..n) \union {n + 1}
      OBVIOUS
    <3>. QED  BY <3>1
  <2>6. run[n] \in Vectors(mask) /\ Moved(src, upto(n), kept, run[n])
    BY <1>8
  <2>. HIDE DEF run, upto, here
  <2>7. /\ PutLow(run[n], src[here]) \in Vectors(mask)
        /\ Moved(src, upto(n) \union {here}, kept, PutLow(run[n], src[here]))
    BY <2>3, <2>4, <2>6, MoveOne
  <2>. QED  BY <2>1, <2>2, <2>3, <2>5, <2>7
<1>9. N \in S
  <2>1. N \in 0..N
    BY <1>2
  <2>. HIDE DEF S, N
  <2>. QED  BY <1>2, <1>7, <1>8, <2>1, Upward
<1>. QED  BY <1>1, <1>9

\* convert_to_large
LEMMA ConvertIs ==
  ASSUME NEW small \in [1..SMALL_SIZE -> Item],
         \A i, j \in 1..SMALL_SIZE :
           small[i].key # NoKey /\ small[i].key = small[j].key => i = j,
         NEW v, v = PutAll(AllocVector(INITIAL_MASK, <<>>), small)
  PROVE  v \in Vectors(INITIAL_MASK) /\ Moved(small, 1..SMALL_SIZE, <<>>, v)
<1>1. SMALL_SIZE \in Nat /\ INITIAL_MASK \in Nat \ {0}
  BY EqHashAssumption
<1>2. small \in Seq(Item) /\ Len(small) = SMALL_SIZE
  BY <1>1
<1>3. IsHeap(<<>>, 0)
  <2>1. DOMAIN <<>> = {}
    OBVIOUS
  <2>2. IsFiniteSet({})
    BY FS_EmptySet
  <2>3. <<>> \in [{} -> Item]
    BY <2>1
  <2>. QED  BY <2>1, <2>2, <2>3 DEF IsHeap
<1>. DEFINE start == AllocVector(INITIAL_MASK, <<>>)
            at == [i \in 1..SMALL_SIZE |-> i]
<1>4. start \in Vectors(INITIAL_MASK) /\ Moved(small, {}, <<>>, start)
  BY <1>1, <1>3, AllocVectorIs
<1>5. {} \union {at[i] : i \in 1..SMALL_SIZE} = 1..SMALL_SIZE
  OBVIOUS
<1>6. \A i \in 1..SMALL_SIZE : small[i] = small[at[i]]
  OBVIOUS
<1>. HIDE DEF start, at
<1>7. /\ PutAll(start, small) \in Vectors(INITIAL_MASK)
      /\ Moved(small, {} \union {at[i] : i \in 1..Len(small)}, <<>>, PutAll(start, small))
  BY <1>2, <1>4, <1>6, PutAllIs
<1>. QED  BY <1>2, <1>5, <1>7 DEF start

\* grow_hash
LEMMA GrowIs ==
  ASSUME NEW t, NEW v, v = t.vec, IsVector(v), Placed(v), Once(v),
         t = [is_large |-> t.is_large, small |-> t.small, vec |-> t.vec, count |-> t.count,
              cache |-> t.cache],
         NEW mask, mask = (v.mask + 1) * 2 - 1
  PROVE  /\ Grow(t) = [t EXCEPT !.vec = Grow(t).vec]
         /\ Grow(t).vec \in Vectors(mask)
         /\ Moved(v.heap, Links(v), v.heap, Grow(t).vec)
<1>. DEFINE X == Vectors(mask)
            N == v.mask + 1
            base == AllocVector(mask, v.heap)
            entries(b) == [i \in 1..Len(v.chain[b]) |-> v.heap[v.chain[b][i]]]
            After(n, u) == PutAll(u, entries(n - 1))
            IsRun(f) == f = [n \in 0..N |-> IF n = 0 THEN base ELSE After(n, f[n - 1])]
            run == CHOOSE f : IsRun(f)
<1>1. Grow(t) = [t EXCEPT !.vec = run[N]] /\ Grow(t).vec = run[N]
  <2>1. Grow(t) = [t EXCEPT !.vec = run[N]]
    BY DEF Grow
  <2>. HIDE DEF run
  <2>. QED  BY <2>1
<1>2. v.mask \in Nat \ {0} /\ N \in Nat /\ mask \in Nat \ {0} /\ v.mask < mask
  BY DEF IsVector
<1>3. ASSUME NEW b \in Buckets(v.mask)
      PROVE  /\ entries(b) \in Seq(Item) /\ Len(entries(b)) = Len(v.chain[b])
             /\ \A i \in 1..Len(v.chain[b]) :
                  entries(b)[i] = v.heap[v.chain[b][i]] /\ v.chain[b][i] \in Links(v)
             /\ ToSet(v.chain[b]) = {v.chain[b][i] : i \in 1..Len(v.chain[b])}
             /\ \A i, j \in 1..Len(v.chain[b]) :
                  entries(b)[i].key # NoKey /\ entries(b)[i].key = entries(b)[j].key => i = j
  <2>1. IsChain(v.chain[b], InPlace(b, v.mask)) /\ ToSet(v.chain[b]) \subseteq DOMAIN v.heap
        /\ v.heap \in [DOMAIN v.heap -> Item]
    BY DEF IsVector, IsHeap
  <2>2. Len(v.chain[b]) \in Nat /\ DOMAIN v.chain[b] = 1..Len(v.chain[b])
    BY <2>1 DEF IsChain
  <2>3. ASSUME NEW i \in 1..Len(v.chain[b])
        PROVE  v.chain[b][i] \in ToSet(v.chain[b]) /\ v.heap[v.chain[b][i]] \in Item
    BY <2>1, <2>2 DEF ToSet
  <2>4. ToSet(v.chain[b]) \subseteq Links(v)
    BY DEF Links
  <2>5. entries(b) \in Seq(Item) /\ Len(entries(b)) = Len(v.chain[b])
    BY <2>2, <2>3
  <2>6. \A i \in 1..Len(v.chain[b]) : entries(b)[i] = v.heap[v.chain[b][i]]
    OBVIOUS
  <2>. HIDE DEF entries
  <2>7. \A i, j \in 1..Len(v.chain[b]) :
          entries(b)[i].key # NoKey /\ entries(b)[i].key = entries(b)[j].key => i = j
    BY <2>1, <2>3, <2>4, <2>6 DEF Once, IsChain
  <2>8. ToSet(v.chain[b]) = {v.chain[b][i] : i \in 1..Len(v.chain[b])}
    BY <2>2 DEF ToSet
  <2>. QED  BY <2>3, <2>4, <2>5, <2>6, <2>7, <2>8
<1>. DEFINE before(n) == UNION {ToSet(v.chain[b]) : b \in 0..(n - 1)}
<1>4. base \in X /\ Moved(v.heap, {}, v.heap, base)
  BY <1>2, AllocVectorIs DEF IsVector
<1>5. ASSUME NEW n \in 1..N, NEW u \in X, Moved(v.heap, before(n - 1), v.heap, u)
      PROVE  After(n, u) \in X /\ Moved(v.heap, before(n), v.heap, After(n, u))
  <2>. DEFINE b == n - 1
              c == v.chain[b]
  <2>1. b \in Buckets(v.mask) /\ n \in Nat
    BY <1>2 DEF Buckets
  <2>2. before(n) = before(b) \union ToSet(c)
    <3>1. 0..(n - 1) = (0..(b - 1)) \union {b}
      BY <2>1
    <3>. HIDE DEF b
    <3>. QED  BY <3>1
  <2>3. ASSUME NEW i \in 1..Len(c), NEW s \in before(b), entries(b)[i].key # NoKey
        PROVE  v.heap[s].key # entries(b)[i].key
    <3>1. PICK a \in 0..(b - 1) : s \in ToSet(v.chain[a])
      OBVIOUS
    <3>2. a \in Buckets(v.mask) /\ a # b
      BY <1>2, <2>1, <3>1 DEF Buckets
    <3>. HIDE DEF b, entries
    <3>3. c[i] \in ToSet(c) /\ entries(b)[i] = v.heap[c[i]]
      BY <1>3, <2>1
    <3>4. Bucket(v.heap[c[i]].key, v.mask) = b
      BY <2>1, <2>3, <3>3 DEF Placed
    <3>5. v.heap[s].key # NoKey => Bucket(v.heap[s].key, v.mask) = a
      BY <3>1, <3>2 DEF Placed
    <3>. QED  BY <2>3, <3>2, <3>3, <3>4, <3>5
  <2>. HIDE DEF b, before, entries
  <2>4. /\ entries(b) \in Seq(Item) /\ Len(entries(b)) = Len(c)
        /\ \A i \in 1..Len(c) : entries(b)[i] = v.heap[c[i]]
        /\ \A i, j \in 1..Len(c) :
             entries(b)[i].key # NoKey /\ entries(b)[i].key = entries(b)[j].key => i = j
        /\ ToSet(c) = {c[i] : i \in 1..Len(c)}
    BY <1>3, <2>1
  <2>5. Moved(v.heap, before(b), v.heap, u)
    BY <1>5 DEF b
  <2>. HIDE DEF c
  <2>6. /\ PutAll(u, entries(b)) \in Vectors(mask)
        /\ Moved(v.heap, before(b) \union {c[i] : i \in 1..Len(entries(b))}, v.heap,
                 PutAll(u, entries(b)))
    BY <2>3, <2>4, <2>5, PutAllIs
  <2>. QED  BY <2>2, <2>4, <2>6 DEF b
<1>. DEFINE S == {n \in 0..N : \E f \in [0..n -> X] :
                    /\ f[0] = base /\ (\A m \in 1..n : f[m] = After(m, f[m - 1]))
                    /\ \A m \in 0..n : Moved(v.heap, before(m), v.heap, f[m])}
<1>6. 0 \in S
  <2>1. before(0) = {}
    OBVIOUS
  <2>. DEFINE f == [m \in 0..0 |-> base]
  <2>2. f \in [0..0 -> X] /\ f[0] = base
    BY <1>4
  <2>. HIDE DEF f, before, base, X, After
  <2>3. \A m \in 0..0 : m = 0 /\ Moved(v.heap, before(m), v.heap, f[m])
    BY <1>4, <2>1, <2>2
  <2>4. 1..0 = {}
    OBVIOUS
  <2>. QED  BY <1>2, <2>2, <2>3, <2>4
<1>7. ASSUME NEW n \in 0..(N - 1), n \in S
      PROVE  n + 1 \in S
  <2>. HIDE DEF X, N, base, After, before
  <2>1. PICK f \in [0..n -> X] :
          /\ f[0] = base /\ (\A m \in 1..n : f[m] = After(m, f[m - 1]))
          /\ \A m \in 0..n : Moved(v.heap, before(m), v.heap, f[m])
    BY <1>7
  <2>2. n + 1 \in 1..N /\ (n + 1) - 1 = n /\ n + 1 \in 0..N /\ n \in 0..n
    BY <1>2
  <2>. DEFINE next == After(n + 1, f[n])
              g == [m \in 0..(n + 1) |-> IF m = n + 1 THEN next ELSE f[m]]
  <2>3. next \in X /\ Moved(v.heap, before(n + 1), v.heap, next)
    BY <1>5, <2>1, <2>2
  <2>. HIDE DEF next
  <2>4. \A m \in 0..(n + 1) : m = n + 1 \/ m \in 0..n
    BY <2>2
  <2>5. g \in [0..(n + 1) -> X] /\ g[0] = base
    BY <2>1, <2>2, <2>3, <2>4
  <2>6. ASSUME NEW m \in 1..(n + 1)
        PROVE  g[m] = After(m, g[m - 1])
    <3>1. CASE m = n + 1
      BY <2>2, <3>1 DEF next
    <3>2. CASE m # n + 1
      <4>1. m \in 1..n /\ m - 1 \in 0..n /\ m \in 0..n /\ m - 1 # n + 1
        BY <2>2, <3>2
      <4>2. g[m] = f[m] /\ g[m - 1] = f[m - 1]
        BY <3>2, <4>1
      <4>. QED  BY <2>1, <4>1, <4>2
    <3>. QED  BY <3>1, <3>2
  <2>7. ASSUME NEW m \in 0..(n + 1)
        PROVE  Moved(v.heap, before(m), v.heap, g[m])
    BY <2>1, <2>3, <2>4
  <2>. HIDE DEF g
  <2>. QED  BY <2>2, <2>5, <2>6, <2>7
<1>8. N \in S
  <2>1. N \in 0..N
    BY <1>2
  <2>. HIDE DEF S, N
  <2>. QED  BY <1>2, <1>6, <1>7, <2>1, Upward
<1>9. PICK f \in [0..N -> X] :
        /\ f[0] = base /\ (\A m \in 1..N : f[m] = After(m, f[m - 1]))
        /\ \A m \in 0..N : Moved(v.heap, before(m), v.heap, f[m])
  BY <1>8
<1>10. IsRun(f)
  <2>. HIDE DEF base, After, X, N
  <2>1. \A n \in 0..N : f[n] = IF n = 0 THEN base ELSE After(n, f[n - 1])
    <3>1. \A n \in 0..N : n # 0 => n \in 1..N
      BY <1>2
    <3>. QED  BY <1>9, <3>1
  <2>. QED  BY <2>1
<1>11. IsRun(run)
  <2>. HIDE DEF IsRun
  <2>. QED  BY <1>10
<1>12. \A n \in 0..N : run[n] = IF n = 0 THEN base ELSE After(n, run[n - 1])
  <2>. HIDE DEF run, After, base
  <2>. QED  BY <1>11
<1>. DEFINE R == {n \in 0..N : run[n] \in X /\ Moved(v.heap, before(n), v.heap, run[n])}
<1>13. 0 \in R
  <2>1. before(0) = {} /\ 0 \in 0..N
    BY <1>2
  <2>. HIDE DEF run, before, base, After
  <2>. QED  BY <1>4, <1>12, <2>1
<1>14. ASSUME NEW n \in 0..(N - 1), n \in R
       PROVE  n + 1 \in R
  <2>1. n + 1 \in 1..N /\ (n + 1) - 1 = n /\ n + 1 \in 0..N /\ n + 1 # 0
    BY <1>2
  <2>. HIDE DEF run, before, base, After, X, N
  <2>. QED  BY <1>5, <1>12, <1>14, <2>1
<1>15. N \in R
  <2>1. N \in 0..N
    BY <1>2
  <2>. HIDE DEF R, N
  <2>. QED  BY <1>2, <1>13, <1>14, <2>1, Upward
<1>16. before(N) = Links(v)
  <2>. 0..(N - 1) = Buckets(v.mask)
    BY <1>2 DEF Buckets
  <2>. QED  BY DEF Links
<1>. HIDE DEF run, before
<1>17. run[N] \in X /\ Moved(v.heap, Links(v), v.heap, run[N])
  BY <1>15, <1>16
<1>. QED  BY <1>1, <1>17

-----------------------------------------------------------------------------
(* What a large table is.                                                  *)

Held(v) == {k \in Key : \E e \in Links(v) : v.heap[e].key = k}

\* A table keeps its shape whatever is done.
Shaped(v, cache, count) ==
  /\ IsVector(v) /\ Placed(v) /\ Once(v)
  /\ INITIAL_MASK <= v.mask /\ count \in Nat /\ count <= v.mask
  /\ IsFiniteSet(Held(v)) /\ Cardinality(Held(v)) <= count
  /\ cache \in [0..(CACHE_SIZE - 1) -> Name \union {NoEntry}]
  /\ \A c \in DOMAIN cache : cache[c] # NoEntry => cache[c] \in DOMAIN v.heap

\* A cached entry, which may have been left behind by the growth of the table,
\* has the value that its key has.
Current(v, e, m) ==
  /\ v.heap[e].key # NoKey => m[v.heap[e].key] = v.heap[e].value
  /\ v.mask = INITIAL_MASK => e \in Links(v)

\* A table finds what was set until something is unset or rewritten.
Synced(v, cache, m) ==
  /\ Tight(v)
  /\ \A k \in Key : \A x : Holds(v, k, x) <=> m[k] = x /\ x # NoValue
  /\ \A c \in DOMAIN cache : cache[c] # NoEntry => Current(v, cache[c], m)

LEMMA LinkIs ==
  ASSUME NEW v, IsVector(v), NEW e \in Links(v)
  PROVE  e \in DOMAIN v.heap /\ v.heap[e] \in Item /\ e \in Name /\ e # NoEntry
<1>1. PICK b \in Buckets(v.mask) : e \in ToSet(v.chain[b])
  BY DEF Links
<1>2. e \in DOMAIN v.heap
  BY <1>1 DEF IsVector
<1>. QED  BY <1>2, EqHashAssumption DEF IsVector, IsHeap, Name

LEMMA PlaceOfIs ==
  ASSUME NEW t, IsVector(t.vec), NEW k \in Key
  PROVE  /\ Bucket(k, t.vec.mask) \in Buckets(t.vec.mask)
         /\ \/ /\ PlaceOf(t, k) = 0
               /\ \A i \in 1..Len(ChainOf(t, k)) : t.vec.heap[ChainOf(t, k)[i]].key # k
            \/ /\ PlaceOf(t, k) \in 1..Len(ChainOf(t, k))
               /\ t.vec.heap[ChainOf(t, k)[PlaceOf(t, k)]].key = k
<1>. DEFINE chain == ChainOf(t, k)
            some == {i \in 1..Len(chain) : t.vec.heap[chain[i]].key = k}
<1>1. Bucket(k, t.vec.mask) \in Buckets(t.vec.mask)
  BY BucketIn DEF IsVector
<1>2. chain \in Seq(Name)
  BY <1>1 DEF ChainOf, IsVector, IsChain
<1>3. PlaceOf(t, k) = IF some # {} THEN Min(some) ELSE 0
  BY DEF PlaceOf, SelectInSeq
<1>4. some # {} => Min(some) \in some
  <2>1. Len(chain) \in Nat /\ some \in SUBSET (1..Len(chain))
    BY <1>2
  <2>. HIDE DEF some
  <2>. QED  BY <2>1, MinIn
<1>. QED  BY <1>1, <1>3, <1>4

\* What a search in a bucket finds.
LEMMA InBucketIs ==
  ASSUME NEW t, IsVector(t.vec), Placed(t.vec), NEW k \in Key
  PROVE  \/ /\ InBucket(t, k) = NoEntry
            /\ \A e \in Links(t.vec) : t.vec.heap[e].key # k
         \/ /\ InBucket(t, k) \in Links(t.vec) /\ InBucket(t, k) # NoEntry
            /\ t.vec.heap[InBucket(t, k)].key = k
<1>. DEFINE v == t.vec
            b == Bucket(k, v.mask)
<1>1. b \in Buckets(v.mask) /\ ChainOf(t, k) = v.chain[b]
  BY PlaceOfIs DEF ChainOf
<1>2. v.chain[b] \in Seq(Name) /\ DOMAIN v.chain[b] = 1..Len(v.chain[b])
  BY <1>1 DEF IsVector, IsChain
<1>3. ToSet(v.chain[b]) \subseteq Links(v)
  BY <1>1 DEF Links
<1>4. CASE PlaceOf(t, k) = 0 /\ \A i \in 1..Len(v.chain[b]) : v.heap[v.chain[b][i]].key # k
  <2>1. ASSUME NEW e \in Links(v), v.heap[e].key = k
        PROVE  FALSE
    <3>1. PICK a \in Buckets(v.mask) : e \in ToSet(v.chain[a])
      BY DEF Links
    <3>2. a = b
      BY <2>1, <3>1, EqHashAssumption DEF Placed
    <3>. QED  BY <1>2, <1>4, <2>1, <3>1, <3>2 DEF ToSet
  <2>. QED  BY <1>4, <2>1 DEF InBucket
<1>5. CASE PlaceOf(t, k) \in 1..Len(v.chain[b]) /\ v.heap[v.chain[b][PlaceOf(t, k)]].key = k
  <2>1. InBucket(t, k) = v.chain[b][PlaceOf(t, k)]
    BY <1>1, <1>2, <1>5 DEF InBucket
  <2>2. InBucket(t, k) \in Links(v)
    BY <1>2, <1>3, <1>5, <2>1 DEF ToSet
  <2>. QED  BY <1>5, <2>1, <2>2, LinkIs
<1>. QED  BY <1>1, <1>4, <1>5, PlaceOfIs

\* find_entry: what it finds has the key, and is in the buckets or was cached.
LEMMA FindEntryIs ==
  ASSUME NEW t, Shaped(t.vec, t.cache, t.count), NEW k \in Key
  PROVE  \/ /\ FindEntry(t, k) = NoEntry
            /\ \A e \in Links(t.vec) : t.vec.heap[e].key # k
         \/ /\ FindEntry(t, k) # NoEntry
            /\ FindEntry(t, k) \in DOMAIN t.vec.heap /\ t.vec.heap[FindEntry(t, k)].key = k
            /\ \/ FindEntry(t, k) \in Links(t.vec)
               \/ \E c \in DOMAIN t.cache : t.cache[c] = FindEntry(t, k)
<1>1. IsVector(t.vec) /\ Placed(t.vec)
  BY DEF Shaped
<1>2. CASE CacheHit(t, k)
  <2>. DEFINE c == CacheIndex(k)
  <2>1. FindEntry(t, k) = t.cache[c] /\ t.cache[c] # NoEntry /\ t.vec.heap[t.cache[c]].key = k
    BY <1>2 DEF FindEntry, CacheHit
  <2>2. c \in DOMAIN t.cache
    <3>1. Hash[k].high \in Nat /\ CACHE_SIZE \in Nat /\ CACHE_SIZE > 0
      BY EqHashAssumption
    <3>2. \A h \in Nat, s \in Nat : s > 0 => h % s \in 0..(s - 1)
      OBVIOUS
    <3>3. Hash[k].high % CACHE_SIZE \in 0..(CACHE_SIZE - 1)
      BY <3>1, <3>2
    <3>. QED  BY <3>3 DEF Shaped, CacheIndex
  <2>. QED  BY <2>1, <2>2 DEF Shaped
<1>3. CASE ~CacheHit(t, k)
  <2>1. FindEntry(t, k) = InBucket(t, k)
    BY <1>3 DEF FindEntry
  <2>. QED  BY <1>1, <2>1, InBucketIs, LinkIs
<1>. QED  BY <1>2, <1>3

LEMMA FoundIsCurrent ==
  ASSUME NEW t, Shaped(t.vec, t.cache, t.count), NEW m, Synced(t.vec, t.cache, m),
         NEW k \in Key, FindEntry(t, k) # NoEntry
  PROVE  Current(t.vec, FindEntry(t, k), m)
<1>. DEFINE e == FindEntry(t, k)
<1>1. CASE e \in Links(t.vec)
  <2>1. e \in DOMAIN t.vec.heap /\ t.vec.heap[e].key = k
    BY FindEntryIs
  <2>2. Holds(t.vec, k, t.vec.heap[e].value)
    BY <1>1, <2>1 DEF Holds
  <2>3. m[k] = t.vec.heap[e].value
    BY <2>2 DEF Synced
  <2>. QED  BY <1>1, <2>1, <2>3 DEF Current
<1>2. CASE \E c \in DOMAIN t.cache : t.cache[c] = e
  BY <1>2 DEF Synced
<1>. QED  BY <1>1, <1>2, FindEntryIs

\* Until something is rewritten, a lookup returns what was set.
LEMMA RefIs ==
  ASSUME NEW t, t.is_large, Shaped(t.vec, t.cache, t.count), NEW m, Synced(t.vec, t.cache, m),
         NEW k \in Key, m[k] \in HashValue \union {NoValue}
  PROVE  Ref(t, k) = m[k]
<1>1. CASE FindEntry(t, k) = NoEntry
  <2>1. \A e \in Links(t.vec) : t.vec.heap[e].key # k
    BY <1>1, FindEntryIs
  <2>2. ~Holds(t.vec, k, m[k])
    BY <2>1 DEF Holds
  <2>3. m[k] = NoValue
    BY <2>2 DEF Synced
  <2>. QED  BY <1>1, <2>3 DEF Ref, Has
<1>2. CASE FindEntry(t, k) # NoEntry
  <2>1. Current(t.vec, FindEntry(t, k), m) /\ t.vec.heap[FindEntry(t, k)].key = k
    BY <1>2, FindEntryIs, FoundIsCurrent
  <2>2. Ref(t, k) = t.vec.heap[FindEntry(t, k)].value
    BY <1>2 DEF Ref, Has
  <2>. QED  BY <2>1, <2>2, EqHashAssumption DEF Current
<1>. QED  BY <1>1, <1>2

-----------------------------------------------------------------------------
(* What the operations of a large table do.                                *)

\* An entry of a vector gets an item of the same key.
LEMMA ItemChanged ==
  ASSUME NEW v, NEW cache, NEW count, Shaped(v, cache, count), NEW e \in DOMAIN v.heap,
         NEW item \in Item, item.key = v.heap[e].key,
         NEW w, w = [mask |-> v.mask, chain |-> v.chain, heap |-> [v.heap EXCEPT ![e] = item]]
  PROVE  /\ Shaped(w, cache, count) /\ Links(w) = Links(v) /\ w.mask = v.mask
         /\ DOMAIN w.heap = DOMAIN v.heap /\ w.heap[e] = item
         /\ \A d \in DOMAIN v.heap : w.heap[d].key = v.heap[d].key /\ (d # e => w.heap[d] = v.heap[d])
         /\ Tight(v) => Tight(w)
<1>1. w.mask = v.mask /\ w.chain = v.chain /\ w.heap = [v.heap EXCEPT ![e] = item]
  OBVIOUS
<1>2. IsVector(v) /\ Placed(v) /\ Once(v) /\ IsHeap(v.heap, v.mask)
  BY DEF Shaped, IsVector
<1>3. /\ DOMAIN w.heap = DOMAIN v.heap /\ w.heap[e] = item
      /\ \A d \in DOMAIN v.heap : w.heap[d].key = v.heap[d].key /\ (d # e => w.heap[d] = v.heap[d])
  BY <1>1
<1>4. IsHeap(w.heap, w.mask)
  BY <1>1, <1>2, <1>3 DEF IsHeap
<1>5. IsVector(w)
  <2>1. w = [mask |-> w.mask, chain |-> w.chain, heap |-> w.heap]
    OBVIOUS
  <2>. QED  BY <1>1, <1>2, <1>3, <1>4, <2>1 DEF IsVector
<1>6. Links(w) = Links(v)
  BY <1>1 DEF Links
<1>7. \A b \in Buckets(v.mask) : ToSet(v.chain[b]) \subseteq DOMAIN v.heap
  BY <1>2 DEF IsVector
<1>8. Links(v) \subseteq DOMAIN v.heap
  BY <1>7 DEF Links
<1>9. Placed(w) /\ Once(w)
  BY <1>1, <1>2, <1>3, <1>6, <1>7, <1>8 DEF Placed, Once
<1>10. Held(w) = Held(v)
  BY <1>3, <1>6, <1>8 DEF Held
<1>11. ASSUME Tight(v)
       PROVE  Tight(w)
  <2>1. \A b \in Buckets(v.mask) : InPlace(b, v.mask) \in DOMAIN v.heap
    BY <1>2, FirstOfBucket
  <2>. QED  BY <1>1, <1>3, <1>11, <2>1 DEF Tight
<1>12. Shaped(w, cache, count)
  BY <1>1, <1>3, <1>5, <1>9, <1>10 DEF Shaped
<1>. QED  BY <1>1, <1>3, <1>6, <1>11, <1>12

\* New flags change nothing that is found.
LEMMA FlagsChanged ==
  ASSUME NEW v, NEW cache, NEW count, Shaped(v, cache, count), NEW e \in DOMAIN v.heap,
         NEW item \in Item, item.key = v.heap[e].key, item.value = v.heap[e].value,
         NEW w, w = [mask |-> v.mask, chain |-> v.chain, heap |-> [v.heap EXCEPT ![e] = item]],
         NEW m, Synced(v, cache, m)
  PROVE  Synced(w, cache, m)
<1>1. /\ Links(w) = Links(v) /\ w.mask = v.mask /\ DOMAIN w.heap = DOMAIN v.heap
      /\ \A d \in DOMAIN v.heap : w.heap[d].key = v.heap[d].key /\ (d # e => w.heap[d] = v.heap[d])
      /\ w.heap[e] = item /\ Tight(w)
  BY ItemChanged DEF Synced
<1>2. \A d \in DOMAIN v.heap : w.heap[d].value = v.heap[d].value
  BY <1>1
<1>3. Links(v) \subseteq DOMAIN v.heap
  BY LinkIs DEF Shaped
<1>4. \A k \in Key : \A x : Holds(w, k, x) <=> Holds(v, k, x)
  BY <1>1, <1>2, <1>3 DEF Holds
<1>5. \A c \in DOMAIN cache : cache[c] # NoEntry => Current(w, cache[c], m)
  BY <1>1, <1>2 DEF Synced, Shaped, Current
<1>. QED  BY <1>1, <1>4, <1>5 DEF Synced

\* A key of a table that has not grown gets a value.
LEMMA ValueChanged ==
  ASSUME NEW v, NEW cache, NEW count, Shaped(v, cache, count), v.mask = INITIAL_MASK,
         NEW e \in Links(v), NEW k \in Key, v.heap[e].key = k,
         NEW item \in Item, item.key = k, item.value # NoValue,
         NEW w, w = [mask |-> v.mask, chain |-> v.chain, heap |-> [v.heap EXCEPT ![e] = item]],
         NEW m \in [Key -> HashValue \union {NoValue}], Synced(v, cache, m)
  PROVE  Synced(w, cache, [m EXCEPT ![k] = item.value])
<1>. DEFINE x == item.value
            n == [m EXCEPT ![k] = x]
<1>0. e \in DOMAIN v.heap
  BY LinkIs DEF Shaped
<1>1. /\ Links(w) = Links(v) /\ w.mask = v.mask /\ DOMAIN w.heap = DOMAIN v.heap
      /\ \A d \in DOMAIN v.heap : w.heap[d].key = v.heap[d].key /\ (d # e => w.heap[d] = v.heap[d])
      /\ w.heap[e] = item /\ Tight(w)
  BY <1>0, ItemChanged DEF Synced
<1>2. n[k] = x /\ \A j \in Key : j # k => n[j] = m[j]
  OBVIOUS
<1>3. Links(v) \subseteq DOMAIN v.heap
  BY LinkIs DEF Shaped
<1>4. \A d \in Links(v) : v.heap[d].key = k => d = e
  BY EqHashAssumption DEF Shaped, Once
<1>. HIDE DEF n
<1>5. ASSUME NEW j \in Key, NEW y
      PROVE  Holds(w, j, y) <=> n[j] = y /\ y # NoValue
  <2>1. CASE j = k
    BY <1>1, <1>2, <1>3, <1>4, <2>1 DEF Holds
  <2>2. CASE j # k
    <3>1. Holds(w, j, y) <=> Holds(v, j, y)
      BY <1>1, <1>3, <2>2 DEF Holds
    <3>2. Holds(v, j, y) <=> m[j] = y /\ y # NoValue
      BY DEF Synced
    <3>. QED  BY <1>2, <2>2, <3>1, <3>2
  <2>. QED  BY <2>1, <2>2
<1>6. ASSUME NEW c \in DOMAIN cache, cache[c] # NoEntry
      PROVE  Current(w, cache[c], n)
  <2>1. cache[c] \in Links(v) /\ cache[c] \in DOMAIN v.heap
    BY <1>6, <1>3 DEF Synced, Current
  <2>2. CASE cache[c] = e
    BY <1>1, <1>2, <2>1, <2>2 DEF Current
  <2>3. CASE cache[c] # e
    <3>1. v.heap[cache[c]].key # k
      BY <1>4, <2>1, <2>3
    <3>2. v.heap[cache[c]] \in Item
      BY <2>1, LinkIs DEF Shaped
    <3>3. v.heap[cache[c]].key # NoKey =>
            v.heap[cache[c]].key \in Key /\ m[v.heap[cache[c]].key] = v.heap[cache[c]].value
      BY <1>6, <3>2 DEF Synced, Current, Item
    <3>. QED  BY <1>1, <1>2, <2>1, <2>3, <3>1, <3>3 DEF Current
  <2>. QED  BY <2>2, <2>3
<1>. QED  BY <1>1, <1>5, <1>6 DEF Synced, n

\* The cache gets an entry.
LEMMA EntryCached ==
  ASSUME NEW v, NEW cache, NEW count, Shaped(v, cache, count), NEW i,
         NEW e \in DOMAIN v.heap
  PROVE  /\ Shaped(v, [cache EXCEPT ![i] = e], count)
         /\ \A m : Synced(v, cache, m) /\ Current(v, e, m) => Synced(v, [cache EXCEPT ![i] = e], m)
<1>. DEFINE d == [cache EXCEPT ![i] = e]
<1>1. e \in Name
  BY DEF Shaped, IsVector, IsHeap, Name
<1>2. d \in [0..(CACHE_SIZE - 1) -> Name \union {NoEntry}] /\ DOMAIN d = DOMAIN cache
  BY <1>1 DEF Shaped
<1>3. \A c \in DOMAIN cache : d[c] = cache[c] \/ d[c] = e
  OBVIOUS
<1>. HIDE DEF d
<1>. QED  BY <1>2, <1>3 DEF Shaped, Synced, d

\* The collector takes entries that are neither in the buckets nor cached.
LEMMA EntriesTaken ==
  ASSUME NEW v, NEW cache, NEW count, Shaped(v, cache, count), NEW reach,
         Links(v) \subseteq reach,
         \A c \in DOMAIN cache : cache[c] # NoEntry => cache[c] \in reach,
         NEW w, w = [mask |-> v.mask, chain |-> v.chain,
                     heap |-> [e \in DOMAIN v.heap \intersect reach |-> v.heap[e]]]
  PROVE  /\ Shaped(w, cache, count)
         /\ \A m : Synced(v, cache, m) => Synced(w, cache, m)
<1>1. /\ w.mask = v.mask /\ w.chain = v.chain /\ DOMAIN w.heap = DOMAIN v.heap \intersect reach
      /\ \A e \in DOMAIN v.heap \intersect reach : w.heap[e] = v.heap[e]
  OBVIOUS
<1>2. IsVector(v) /\ Placed(v) /\ Once(v) /\ IsHeap(v.heap, v.mask)
  BY DEF Shaped, IsVector
<1>3. Links(v) \subseteq DOMAIN v.heap \intersect reach /\ Links(w) = Links(v)
  <2>1. Links(w) = Links(v)
    BY <1>1 DEF Links
  <2>. QED  BY <1>2, <2>1, LinkIs
<1>4. IsHeap(w.heap, w.mask)
  <2>1. IsFiniteSet(DOMAIN w.heap)
    BY <1>1, <1>2, FS_Subset DEF IsHeap
  <2>2. w.heap \in [DOMAIN w.heap -> Item]
    BY <1>2 DEF IsHeap
  <2>. QED  BY <1>1, <1>2, <2>1, <2>2 DEF IsHeap
<1>5. \A b \in Buckets(v.mask) : ToSet(v.chain[b]) \subseteq Links(v)
  BY DEF Links
<1>6. IsVector(w)
  <2>1. w = [mask |-> w.mask, chain |-> w.chain, heap |-> w.heap]
    OBVIOUS
  <2>. HIDE DEF Links
  <2>. QED  BY <1>1, <1>2, <1>3, <1>4, <1>5, <2>1 DEF IsVector
<1>7. \A e \in Links(v) : w.heap[e] = v.heap[e]
  BY <1>1, <1>3
<1>8. Placed(w) /\ Once(w)
  BY <1>1, <1>2, <1>3, <1>5, <1>7 DEF Placed, Once
<1>9. Held(w) = Held(v)
  BY <1>3, <1>7 DEF Held
<1>10. \A c \in DOMAIN cache : cache[c] # NoEntry =>
         cache[c] \in DOMAIN v.heap \intersect reach
  BY DEF Shaped
<1>11. Shaped(w, cache, count)
  BY <1>1, <1>6, <1>8, <1>9, <1>10 DEF Shaped
<1>12. ASSUME NEW m, Synced(v, cache, m)
       PROVE  Synced(w, cache, m)
  <2>1. \A k \in Key : \A x : Holds(w, k, x) <=> Holds(v, k, x)
    BY <1>3, <1>7 DEF Holds
  <2>2. \A b \in Buckets(v.mask) : InPlace(b, v.mask) \in Links(v)
    BY <1>2, <1>5, FirstOfBucket
  <2>3. Tight(w)
    <3>1. Tight(v)
      BY <1>12 DEF Synced
    <3>2. \A b \in Buckets(v.mask) : w.heap[InPlace(b, v.mask)] = v.heap[InPlace(b, v.mask)]
      BY <1>7, <2>2
    <3>. HIDE DEF Links
    <3>. QED  BY <1>1, <3>1, <3>2 DEF Tight
  <2>4. \A c \in DOMAIN cache : cache[c] # NoEntry => Current(w, cache[c], m)
    BY <1>1, <1>3, <1>10, <1>12 DEF Synced, Current
  <2>. QED  BY <1>12, <2>1, <2>3, <2>4 DEF Synced
<1>. QED  BY <1>11, <1>12

\* A key is added where there is room.
LEMMA KeyAdded ==
  ASSUME NEW v, NEW cache, NEW count \in Nat, Shaped(v, cache, count), count + 1 <= v.mask,
         NEW k \in Key, \A e \in Links(v) : v.heap[e].key # k,
         NEW x \in HashValue, NEW w, w = PutLow(v, Entry(k, x, 0))
  PROVE  /\ Shaped(w, cache, count + 1)
         /\ \A m \in [Key -> HashValue \union {NoValue}] :
              Synced(v, cache, m) => Synced(w, cache, [m EXCEPT ![k] = x])
<1>. DEFINE item == Entry(k, x, 0)
<1>1. item \in Item /\ item.key = k /\ item.value = x /\ k # NoKey /\ x # NoValue
  BY EqHashAssumption DEF Entry, Item
<1>. HIDE DEF item
<1>2. IsVector(v) /\ Placed(v) /\ Once(v)
  BY DEF Shaped
<1>3. IsVector(w) /\ (\E e : Stored(v, w, item, e)) /\ (Tight(v) => Added(v, w))
  BY <1>1, <1>2, PutLowIs DEF item
<1>4. PICK e : Stored(v, w, item, e)
  BY <1>3
<1>5. Placed(w) /\ Once(w)
  BY <1>1, <1>2, <1>3, <1>4, StoredInOrder
<1>6. \A d \in DOMAIN v.heap : d \in DOMAIN w.heap /\ (d # e => w.heap[d] = v.heap[d])
  BY <1>4 DEF Stored
<1>7. Held(w) \subseteq Held(v) \union {k}
  <2>1. SUFFICES ASSUME NEW j \in Key, NEW d \in Links(w), w.heap[d].key = j
                 PROVE  j \in Held(v) \union {k}
    BY DEF Held
  <2>2. Holds(w, j, w.heap[d].value)
    BY <2>1 DEF Holds
  <2>3. Holds(v, j, w.heap[d].value) \/ j = k
    BY <1>1, <1>2, <1>3, <1>4, <2>2, StoredHolds
  <2>. QED  BY <2>3 DEF Holds, Held
<1>8. IsFiniteSet(Held(w)) /\ Cardinality(Held(w)) <= count + 1
  <2>1. IsFiniteSet(Held(v)) /\ Cardinality(Held(v)) <= count /\ k \notin Held(v)
    BY DEF Shaped, Held
  <2>2. IsFiniteSet(Held(v) \union {k}) /\ Cardinality(Held(v) \union {k}) = Cardinality(Held(v)) + 1
    BY <2>1, FS_AddElement
  <2>3. IsFiniteSet(Held(w)) /\ Cardinality(Held(w)) <= Cardinality(Held(v) \union {k})
    BY <1>7, <2>2, FS_Subset
  <2>4. Cardinality(Held(v)) \in Nat /\ Cardinality(Held(w)) \in Nat
    BY <2>1, <2>3, FS_CardinalityType
  <2>. QED  BY <2>1, <2>2, <2>3, <2>4
<1>9. Shaped(w, cache, count + 1)
  <2>1. w.mask = v.mask
    BY <1>4 DEF Stored
  <2>2. \A c \in DOMAIN cache : cache[c] # NoEntry => cache[c] \in DOMAIN w.heap
    BY <1>6 DEF Shaped
  <2>. QED  BY <1>3, <1>5, <1>8, <2>1, <2>2 DEF Shaped
<1>10. ASSUME NEW m \in [Key -> HashValue \union {NoValue}], Synced(v, cache, m)
       PROVE  Synced(w, cache, [m EXCEPT ![k] = x])
  <2>. DEFINE n == [m EXCEPT ![k] = x]
  <2>1. Added(v, w) /\ Tight(w)
    BY <1>3, <1>10 DEF Synced, Added
  <2>2. n[k] = x /\ \A j \in Key : j # k => n[j] = m[j]
    OBVIOUS
  <2>. HIDE DEF n
  <2>3. ASSUME NEW j \in Key, NEW y
        PROVE  Holds(w, j, y) <=> n[j] = y /\ y # NoValue
    <3>1. Holds(w, j, y) <=> Holds(v, j, y) \/ (k = j /\ x = y)
      BY <1>1, <1>2, <1>3, <1>4, <2>1, StoredHolds
    <3>2. Holds(v, j, y) <=> m[j] = y /\ y # NoValue
      BY <1>10 DEF Synced
    <3>3. j = k => ~Holds(v, j, y)
      BY DEF Holds
    <3>. QED  BY <1>1, <2>2, <3>1, <3>2, <3>3
  <2>4. m[k] = NoValue
    <3>1. ~Holds(v, k, m[k])
      BY DEF Holds
    <3>. QED  BY <1>10, <3>1 DEF Synced
  <2>5. ASSUME NEW c \in DOMAIN cache, cache[c] # NoEntry
        PROVE  Current(w, cache[c], n)
    <3>0. w.mask = v.mask /\ w.heap[e] = item
      BY <1>4 DEF Stored
    <3>1. Current(v, cache[c], m) /\ cache[c] \in DOMAIN v.heap
      BY <1>10, <2>5 DEF Synced, Shaped
    <3>2. v.mask = INITIAL_MASK => cache[c] \in Links(w)
      <4>1. SUFFICES ASSUME v.mask = INITIAL_MASK
                     PROVE  cache[c] \in Links(w)
        OBVIOUS
      <4>2. cache[c] \in Links(v)
        BY <3>1, <4>1 DEF Current
      <4>3. Links(v) \subseteq Links(w)
        BY <2>1, <3>0 DEF Added, Links
      <4>. QED  BY <4>2, <4>3
    <3>3. CASE cache[c] = e
      BY <1>1, <2>2, <3>0, <3>2, <3>3 DEF Current
    <3>4. CASE cache[c] # e
      <4>1. w.heap[cache[c]] = v.heap[cache[c]] /\ v.heap[cache[c]] \in Item
        BY <1>2, <1>6, <3>1, <3>4 DEF IsVector, IsHeap
      <4>2. v.heap[cache[c]].key # NoKey =>
              /\ v.heap[cache[c]].key \in Key
              /\ m[v.heap[cache[c]].key] = v.heap[cache[c]].value
              /\ v.heap[cache[c]].value # NoValue
        BY <3>1, <4>1, EqHashAssumption DEF Current, Item
      <4>3. v.heap[cache[c]].key # NoKey => v.heap[cache[c]].key # k
        BY <2>4, <4>2
      <4>. QED  BY <2>2, <3>0, <3>2, <4>1, <4>2, <4>3 DEF Current
    <3>. QED  BY <3>3, <3>4
  <2>. QED  BY <2>1, <2>3, <2>5 DEF Synced, n
<1>. QED  BY <1>9, <1>10

\* What a vector holds when all that another one holds, or a list of items, was
\* put into it.
LEMMA HeldWhenMoved ==
  ASSUME NEW src, NEW some, NEW kept, NEW v, Moved(src, some, kept, v)
  PROVE  \A k \in Key : k \in Held(v) <=> \E s \in some : src[s].key = k
<1>1. ASSUME NEW k \in Held(v)
      PROVE  \E s \in some : src[s].key = k
  <2>1. PICK e \in Links(v) : v.heap[e].key = k
    BY DEF Held
  <2>2. Holds(v, k, v.heap[e].value)
    BY <2>1 DEF Holds
  <2>3. k \in Key
    BY DEF Held
  <2>. QED  BY <2>2, <2>3 DEF Moved
<1>2. ASSUME NEW k \in Key, NEW s \in some, src[s].key = k
      PROVE  k \in Held(v)
  <2>1. Holds(v, k, src[s].value)
    BY <1>2 DEF Moved
  <2>. QED  BY <2>1 DEF Holds, Held
<1>. QED  BY <1>1, <1>2

\* A table grows.
LEMMA TableGrows ==
  ASSUME NEW v, NEW cache, NEW count, Shaped(v, cache, count),
         NEW mask, mask = (v.mask + 1) * 2 - 1,
         NEW w \in Vectors(mask), Moved(v.heap, Links(v), v.heap, w)
  PROVE  /\ Shaped(w, cache, count) /\ Held(w) = Held(v)
         /\ \A m : Synced(v, cache, m) => Synced(w, cache, m)
<1>1. v.mask \in Nat \ {0} /\ mask \in Nat /\ v.mask < mask /\ INITIAL_MASK \in Nat
  BY EqHashAssumption DEF Shaped, IsVector
<1>2. IsVector(w) /\ w.mask = mask
  BY VectorsAre
<1>3. Held(w) = Held(v)
  <2>1. \A k \in Key : k \in Held(w) <=> k \in Held(v)
    <3>1. \A k \in Key : k \in Held(w) <=> \E s \in Links(v) : v.heap[s].key = k
      BY HeldWhenMoved
    <3>. QED  BY <3>1 DEF Held
  <2>2. Held(w) \subseteq Key /\ Held(v) \subseteq Key
    BY DEF Held
  <2>. QED  BY <2>1, <2>2
<1>4. \A c \in DOMAIN cache : cache[c] # NoEntry =>
        /\ cache[c] \in DOMAIN v.heap /\ cache[c] \in DOMAIN w.heap
        /\ w.heap[cache[c]] = v.heap[cache[c]]
  BY DEF Shaped, Moved
<1>5. INITIAL_MASK < mask /\ count \in Nat /\ count <= mask
  BY <1>1 DEF Shaped
<1>6. Shaped(w, cache, count)
  <2>1. Placed(w) /\ Once(w)
    BY DEF Moved
  <2>2. IsFiniteSet(Held(w)) /\ Cardinality(Held(w)) <= count
    BY <1>3 DEF Shaped
  <2>3. cache \in [0..(CACHE_SIZE - 1) -> Name \union {NoEntry}]
    BY DEF Shaped
  <2>4. INITIAL_MASK <= w.mask /\ count <= w.mask
    BY <1>1, <1>2, <1>5
  <2>. QED  BY <1>2, <1>4, <1>5, <2>1, <2>2, <2>3, <2>4 DEF Shaped
<1>7. ASSUME NEW m, Synced(v, cache, m)
      PROVE  Synced(w, cache, m)
  <2>1. ASSUME NEW k \in Key, NEW x
        PROVE  Holds(w, k, x) <=> m[k] = x /\ x # NoValue
    <3>1. Holds(w, k, x) <=> \E e \in Links(v) : v.heap[e].key = k /\ v.heap[e].value = x
      BY DEF Moved
    <3>2. Holds(w, k, x) <=> Holds(v, k, x)
      BY <3>1 DEF Holds
    <3>. QED  BY <1>7, <3>2 DEF Synced
  <2>2. \A c \in DOMAIN cache : cache[c] # NoEntry => Current(w, cache[c], m)
    <3>1. \A c \in DOMAIN cache : cache[c] # NoEntry => Current(v, cache[c], m)
      BY <1>7 DEF Synced
    <3>2. w.mask # INITIAL_MASK
      BY <1>1, <1>2, <1>5
    <3>. QED  BY <1>4, <3>1, <3>2 DEF Current
  <2>. QED  BY <2>1, <2>2 DEF Synced, Moved
<1>. QED  BY <1>3, <1>6, <1>7

\* A full small table becomes a large one.
SmallAgrees(small, m) ==
  /\ small \in [1..SMALL_SIZE -> Item]
  /\ \A i, j \in 1..SMALL_SIZE : small[i].key # NoKey /\ small[i].key = small[j].key => i = j
  /\ \A k \in Key : \A x :
       (\E i \in 1..SMALL_SIZE : small[i].key = k /\ small[i].value = x)
         <=> m[k] = x /\ x # NoValue

LEMMA TableConverted ==
  ASSUME NEW small, NEW m, SmallAgrees(small, m),
         NEW v, v = PutAll(AllocVector(INITIAL_MASK, <<>>), small)
  PROVE  Shaped(v, EmptyCache, SMALL_SIZE) /\ Synced(v, EmptyCache, m)
         /\ Held(v) = {k \in Key : \E i \in 1..SMALL_SIZE : small[i].key = k}
         /\ v.mask = INITIAL_MASK
<1>1. v \in Vectors(INITIAL_MASK) /\ Moved(small, 1..SMALL_SIZE, <<>>, v)
  BY ConvertIs DEF SmallAgrees
<1>2. IsVector(v) /\ v.mask = INITIAL_MASK
  BY <1>1, VectorsAre
<1>3. Held(v) = {k \in Key : \E i \in 1..SMALL_SIZE : small[i].key = k}
  <2>1. \A k \in Key : k \in Held(v) <=> \E i \in 1..SMALL_SIZE : small[i].key = k
    BY <1>1, HeldWhenMoved
  <2>2. Held(v) \subseteq Key
    BY DEF Held
  <2>. QED  BY <2>1, <2>2
<1>4. SMALL_SIZE \in Nat /\ INITIAL_MASK \in Nat /\ SMALL_SIZE <= INITIAL_MASK /\ CACHE_SIZE \in Nat
  BY EqHashAssumption
<1>5. IsFiniteSet(Held(v)) /\ Cardinality(Held(v)) <= SMALL_SIZE
  <2>. DEFINE full == {i \in 1..SMALL_SIZE : small[i].key \in Key}
              f == [i \in full |-> small[i].key]
  <2>1. f \in Surjection(full, Held(v))
    <3>1. f \in [full -> Held(v)] /\ \A k \in Held(v) : \E i \in full : f[i] = k
      BY <1>3
    <3>. HIDE DEF f, full
    <3>. QED  BY <3>1 DEF Surjection
  <2>2. IsFiniteSet(1..SMALL_SIZE) /\ Cardinality(1..SMALL_SIZE) = SMALL_SIZE
    BY <1>4, FS_Interval
  <2>3. full \in SUBSET (1..SMALL_SIZE)
    OBVIOUS
  <2>. HIDE DEF full, f
  <2>4. IsFiniteSet(full) /\ Cardinality(full) <= SMALL_SIZE
    BY <2>2, <2>3, FS_Subset
  <2>5. IsFiniteSet(Held(v)) /\ Cardinality(Held(v)) <= Cardinality(full)
    BY <2>1, <2>4, FS_Surjection
  <2>6. Cardinality(Held(v)) \in Nat /\ Cardinality(full) \in Nat
    BY <2>4, <2>5, FS_CardinalityType
  <2>. QED  BY <1>4, <2>4, <2>5, <2>6
<1>6. /\ EmptyCache \in [0..(CACHE_SIZE - 1) -> Name \union {NoEntry}]
      /\ \A c \in DOMAIN EmptyCache : EmptyCache[c] = NoEntry
  BY DEF EmptyCache
<1>7. Shaped(v, EmptyCache, SMALL_SIZE)
  BY <1>1, <1>2, <1>4, <1>5, <1>6 DEF Shaped, Moved
<1>8. ASSUME NEW k \in Key, NEW x
      PROVE  Holds(v, k, x) <=> m[k] = x /\ x # NoValue
  BY <1>1 DEF Moved, SmallAgrees
<1>. QED  BY <1>1, <1>2, <1>3, <1>6, <1>7, <1>8 DEF Synced, Moved

-----------------------------------------------------------------------------
(* Deletion.                                                               *)

\* A table as the record that it is.
IsTable(t) ==
  t = [is_large |-> t.is_large, small |-> t.small, vec |-> t.vec, count |-> t.count,
       cache |-> t.cache]

\* A chain without an entry behind its first one.
LEMMA ChainShortened ==
  ASSUME NEW first, NEW c, IsChain(c, first), NEW at \in 2..Len(c), NEW r, r = RemoveAt(c, at)
  PROVE  IsChain(r, first) /\ ToSet(r) = ToSet(c) \ {c[at]}
<1>1. /\ c \in Seq(Name) /\ c[1] = first /\ at \in 1..Len(c) /\ Len(c) \in Nat
      /\ \A i \in 2..Len(c) : c[i][1] = 0
      /\ \A i, j \in 1..Len(c) : c[i] = c[j] => i = j
  BY DEF IsChain
<1>2. /\ r \in Seq(Name) /\ Len(r) = Len(c) - 1
      /\ \A i \in 1..(at - 1) : r[i] = c[i]
      /\ \A i \in at..(Len(c) - 1) : r[i] = c[i + 1]
  <2>1. c \in Seq(Name) /\ at \in 1..Len(c) /\ r = RemoveAt(c, at)
    BY <1>1
  <2>. QED  BY ONLY <2>1, RemoveAtIs
<1>3. ToSet(r) = ToSet(c) \ {c[at]} /\ \A i, j \in 1..Len(r) : r[i] = r[j] => i = j
  BY <1>1, RemoveAtHas
<1>4. r # <<>> /\ r[1] = first
  BY <1>1, <1>2
<1>5. ASSUME NEW i \in 2..Len(r)
      PROVE  r[i][1] = 0
  <2>1. CASE i <= at - 1
    <3>. i \in 1..(at - 1) /\ i \in 2..Len(c)
      BY <1>1, <1>2, <2>1
    <3>. QED  BY <1>1, <1>2
  <2>2. CASE ~(i <= at - 1)
    <3>. i \in at..(Len(c) - 1) /\ i + 1 \in 2..Len(c)
      BY <1>1, <1>2, <2>2
    <3>. QED  BY <1>1, <1>2
  <2>. QED  BY <2>1, <2>2
<1>. QED  BY <1>2, <1>3, <1>4, <1>5 DEF IsChain

\* A vector with another chain in one bucket and other items in its entries.
LEMMA Rebuilt ==
  ASSUME NEW v, IsVector(v), NEW b \in Buckets(v.mask), NEW r,
         IsChain(r, InPlace(b, v.mask)), ToSet(r) \subseteq ToSet(v.chain[b]),
         NEW heap \in [DOMAIN v.heap -> Item],
         NEW w, w = [mask |-> v.mask, chain |-> [v.chain EXCEPT ![b] = r], heap |-> heap]
  PROVE  /\ IsVector(w) /\ w.mask = v.mask /\ w.heap = heap /\ w.chain[b] = r
         /\ \A a \in Buckets(v.mask) : a # b => w.chain[a] = v.chain[a]
         /\ \A a \in Buckets(v.mask) : ToSet(w.chain[a]) \subseteq ToSet(v.chain[a])
         /\ Links(w) \subseteq Links(v)
<1>1. /\ w.mask = v.mask /\ w.heap = heap /\ w.chain = [v.chain EXCEPT ![b] = r]
      /\ w = [mask |-> w.mask, chain |-> w.chain, heap |-> w.heap]
  OBVIOUS
<1>2. /\ DOMAIN w.chain = Buckets(v.mask) /\ w.chain = [a \in Buckets(v.mask) |-> w.chain[a]]
      /\ w.chain[b] = r /\ \A a \in Buckets(v.mask) : a # b => w.chain[a] = v.chain[a]
  BY <1>1 DEF IsVector
<1>3. \A a \in Buckets(v.mask) : ToSet(w.chain[a]) \subseteq ToSet(v.chain[a])
  BY <1>2
<1>4. Links(w) \subseteq Links(v)
  BY <1>1, <1>3 DEF Links
<1>5. IsHeap(heap, v.mask)
  <2>1. IsHeap(v.heap, v.mask) /\ DOMAIN heap = DOMAIN v.heap
    BY DEF IsVector
  <2>. QED  BY <2>1 DEF IsHeap
<1>6. ASSUME NEW a \in Buckets(v.mask)
      PROVE  IsChain(w.chain[a], InPlace(a, v.mask)) /\ ToSet(w.chain[a]) \subseteq DOMAIN heap
  <2>1. IsChain(v.chain[a], InPlace(a, v.mask)) /\ ToSet(v.chain[a]) \subseteq DOMAIN v.heap
    BY DEF IsVector
  <2>2. DOMAIN heap = DOMAIN v.heap
    OBVIOUS
  <2>. QED  BY <1>2, <1>3, <2>1, <2>2
<1>7. v.mask \in Nat \ {0}
  BY DEF IsVector
<1>8. IsVector(w)
  BY <1>1, <1>2, <1>5, <1>6, <1>7 DEF IsVector
<1>. QED  BY <1>1, <1>2, <1>3, <1>4, <1>8

\* One key less is in order.
Without(v, w, k) == IsVector(w) /\ w.mask = v.mask /\ DOMAIN w.heap = DOMAIN v.heap
                    /\ Placed(w) /\ Once(w) /\ Held(w) \subseteq Held(v) \ {k}

\* An allocated entry is unlinked.
LEMMA EntryUnlinked ==
  ASSUME NEW v, IsVector(v), Placed(v), Once(v), NEW b \in Buckets(v.mask),
         NEW k \in Key, NEW at \in 2..Len(v.chain[b]), v.heap[v.chain[b][at]].key = k,
         NEW w, w = [mask |-> v.mask, chain |-> [v.chain EXCEPT ![b] = RemoveAt(v.chain[b], at)],
                     heap |-> v.heap]
  PROVE  Without(v, w, k)
<1>. DEFINE c == v.chain[b]
            r == RemoveAt(c, at)
            e == c[at]
<1>1. IsChain(c, InPlace(b, v.mask)) /\ v.heap \in [DOMAIN v.heap -> Item]
  BY DEF IsVector, IsHeap
<1>2. IsChain(r, InPlace(b, v.mask)) /\ ToSet(r) = ToSet(c) \ {e}
  BY <1>1, ChainShortened
<1>3. e \in ToSet(c) /\ e \in Links(v) /\ k # NoKey
  <2>1. at \in DOMAIN c
    BY <1>1 DEF IsChain
  <2>. QED  BY <2>1, EqHashAssumption DEF ToSet, Links
<1>. HIDE DEF r, e
<1>4. /\ IsVector(w) /\ w.mask = v.mask /\ w.heap = v.heap /\ w.chain[b] = r
      /\ \A a \in Buckets(v.mask) : a # b => w.chain[a] = v.chain[a]
      /\ \A a \in Buckets(v.mask) : ToSet(w.chain[a]) \subseteq ToSet(v.chain[a])
      /\ Links(w) \subseteq Links(v)
  BY <1>1, <1>2, Rebuilt DEF r
<1>5. Placed(w) /\ Once(w)
  BY <1>4 DEF Placed, Once
<1>6. ASSUME NEW d \in Links(w), v.heap[d].key = k
      PROVE  FALSE
  <2>1. d = e /\ v.heap[e].key = k
    BY <1>3, <1>4, <1>6 DEF Once, e
  <2>2. PICK a \in Buckets(v.mask) : d \in ToSet(w.chain[a])
    BY <1>4 DEF Links
  <2>3. a = b
    <3>1. Bucket(k, v.mask) = b
      BY <1>3, <2>1 DEF Placed
    <3>2. Bucket(k, v.mask) = a
      BY <1>3, <1>4, <1>6, <2>2 DEF Placed
    <3>. QED  BY <3>1, <3>2
  <2>. QED  BY <1>2, <1>4, <2>1, <2>2, <2>3
<1>7. Held(w) \subseteq Held(v) \ {k}
  BY <1>4, <1>6 DEF Held
<1>. QED  BY <1>4, <1>5, <1>7 DEF Without

\* The first entry of a bucket takes over the second.
LEMMA EntryTakenOver ==
  ASSUME NEW v, IsVector(v), Placed(v), Once(v), NEW b \in Buckets(v.mask),
         NEW k \in Key, Len(v.chain[b]) > 1, v.heap[v.chain[b][1]].key = k,
         NEW w, w = [mask |-> v.mask, chain |-> [v.chain EXCEPT ![b] = RemoveAt(v.chain[b], 2)],
                     heap |-> [v.heap EXCEPT ![v.chain[b][1]] = v.heap[v.chain[b][2]]]]
  PROVE  Without(v, w, k)
<1>. DEFINE c == v.chain[b]
            r == RemoveAt(c, 2)
            d == c[1]
            e == c[2]
<1>1. /\ IsChain(c, InPlace(b, v.mask)) /\ v.heap \in [DOMAIN v.heap -> Item]
      /\ ToSet(c) \subseteq DOMAIN v.heap
  BY DEF IsVector, IsHeap
<1>2. 2 \in 2..Len(c) /\ 1 \in DOMAIN c /\ 2 \in DOMAIN c /\ d # e /\ d = InPlace(b, v.mask)
  BY <1>1 DEF IsChain
<1>3. IsChain(r, InPlace(b, v.mask)) /\ ToSet(r) = ToSet(c) \ {e}
  BY <1>1, <1>2, ChainShortened
<1>4. d \in ToSet(c) /\ e \in ToSet(c) /\ d \in Links(v) /\ e \in Links(v) /\ k # NoKey
  BY <1>2, EqHashAssumption DEF ToSet, Links
<1>. DEFINE heap == [v.heap EXCEPT ![d] = v.heap[e]]
<1>5. heap \in [DOMAIN v.heap -> Item] /\ heap[d] = v.heap[e]
      /\ \A f \in DOMAIN v.heap : f # d => heap[f] = v.heap[f]
  BY <1>1, <1>4
<1>. HIDE DEF r, d, e, heap
<1>6. /\ IsVector(w) /\ w.mask = v.mask /\ w.heap = heap /\ w.chain[b] = r
      /\ \A a \in Buckets(v.mask) : a # b => w.chain[a] = v.chain[a]
      /\ \A a \in Buckets(v.mask) : ToSet(w.chain[a]) \subseteq ToSet(v.chain[a])
      /\ Links(w) \subseteq Links(v)
  BY <1>1, <1>3, <1>5, Rebuilt DEF r, heap, d, e
<1>7. \A a \in Buckets(v.mask) : \A f \in ToSet(v.chain[a]) : f \in Links(v) /\ f \in DOMAIN v.heap
  BY LinkIs DEF Links
<1>8. ASSUME NEW a \in Buckets(v.mask), NEW f \in ToSet(w.chain[a]), w.heap[f].key # NoKey
      PROVE  Bucket(w.heap[f].key, v.mask) = a /\ (f = d => a = b)
  <2>1. f \in ToSet(v.chain[a])
    BY <1>6
  <2>2. CASE f = d
    <3>1. a = b
      BY <1>2, <2>1, <2>2, FirstOfBucket
    <3>. QED  BY <1>4, <1>5, <1>6, <1>8, <2>2, <3>1 DEF Placed
  <2>3. CASE f # d
    BY <1>5, <1>6, <1>7, <1>8, <2>1, <2>3 DEF Placed
  <2>. QED  BY <2>2, <2>3
<1>9. ASSUME NEW f \in Links(w), v.heap[e].key # NoKey, f # d, v.heap[f].key = v.heap[e].key
      PROVE  FALSE
  <2>1. f = e
    BY <1>4, <1>6, <1>9 DEF Once
  <2>2. PICK a \in Buckets(v.mask) : f \in ToSet(w.chain[a])
    BY <1>6 DEF Links
  <2>3. a = b
    BY <1>4, <1>6, <1>9, <2>2 DEF Placed
  <2>. QED  BY <1>3, <1>6, <2>1, <2>2, <2>3
<1>10. \A f \in Links(w) : f \in Links(v) /\ f \in DOMAIN v.heap /\ (f # d => w.heap[f] = v.heap[f])
  BY <1>5, <1>6, LinkIs
<1>11. Once(w)
  <2>1. SUFFICES ASSUME NEW f \in Links(w), NEW g \in Links(w), w.heap[f].key # NoKey,
                        w.heap[f].key = w.heap[g].key
                 PROVE  f = g
    BY DEF Once
  <2>2. CASE f = d
    BY <1>5, <1>6, <1>9, <1>10, <2>1, <2>2
  <2>3. CASE g = d
    BY <1>5, <1>6, <1>9, <1>10, <2>1, <2>3
  <2>4. CASE f # d /\ g # d
    BY <1>10, <2>1, <2>4 DEF Once
  <2>. QED  BY <2>2, <2>3, <2>4
<1>12. Placed(w)
  BY <1>6, <1>8 DEF Placed
<1>13. Held(w) \subseteq Held(v) \ {k}
  <2>1. SUFFICES ASSUME NEW j \in Key, NEW f \in Links(w), w.heap[f].key = j
                 PROVE  j \in Held(v) /\ j # k
    BY DEF Held
  <2>2. v.heap[d].key = k
    BY DEF d
  <2>3. CASE f = d
    <3>1. v.heap[e].key = j
      BY <1>5, <1>6, <2>1, <2>3
    <3>2. j # k
      BY <1>2, <1>4, <2>2, <3>1 DEF Once
    <3>. QED  BY <1>4, <3>1, <3>2 DEF Held
  <2>4. CASE f # d
    <3>1. v.heap[f].key = j /\ f \in Links(v)
      BY <1>10, <2>1, <2>4
    <3>2. j # k
      BY <1>4, <2>2, <2>4, <3>1 DEF Once
    <3>. QED  BY <3>1, <3>2 DEF Held
  <2>. QED  BY <2>3, <2>4
<1>14. DOMAIN w.heap = DOMAIN v.heap
  BY <1>5, <1>6
<1>. QED  BY <1>6, <1>11, <1>12, <1>13, <1>14 DEF Without

\* The only entry of a bucket is marked free.
LEMMA EntryFreed ==
  ASSUME NEW v, IsVector(v), Placed(v), Once(v), NEW e \in Links(v),
         NEW k \in Key, v.heap[e].key = k, NEW item \in Item, item.key = NoKey,
         NEW w, w = [mask |-> v.mask, chain |-> v.chain, heap |-> [v.heap EXCEPT ![e] = item]]
  PROVE  Without(v, w, k)
<1>1. w.mask = v.mask /\ w.chain = v.chain /\ w.heap = [v.heap EXCEPT ![e] = item]
      /\ w = [mask |-> w.mask, chain |-> w.chain, heap |-> w.heap]
  OBVIOUS
<1>2. e \in DOMAIN v.heap /\ IsHeap(v.heap, v.mask)
  BY LinkIs DEF IsVector
<1>3. /\ DOMAIN w.heap = DOMAIN v.heap /\ w.heap[e] = item
      /\ \A d \in DOMAIN v.heap : d # e => w.heap[d] = v.heap[d]
  BY <1>1, <1>2
<1>4. IsHeap(w.heap, w.mask)
  BY <1>1, <1>2, <1>3 DEF IsHeap
<1>5. IsVector(w)
  BY <1>1, <1>3, <1>4 DEF IsVector
<1>6. Links(w) = Links(v)
  BY <1>1 DEF Links
<1>7. \A d \in Links(v) : d \in DOMAIN v.heap
  BY LinkIs
<1>8. \A b \in Buckets(v.mask) : ToSet(v.chain[b]) \subseteq Links(v)
  BY DEF Links
<1>9. ASSUME NEW d \in Links(v), w.heap[d].key # NoKey
      PROVE  d # e /\ w.heap[d] = v.heap[d]
  BY <1>3, <1>7, <1>9
<1>10. Placed(w)
  BY <1>1, <1>8, <1>9 DEF Placed
<1>11. Once(w)
  BY <1>6, <1>9 DEF Once
<1>12. Held(w) \subseteq Held(v) \ {k}
  <2>1. SUFFICES ASSUME NEW j \in Key, NEW d \in Links(v), w.heap[d].key = j
                 PROVE  j \in Held(v) /\ j # k
    BY <1>6 DEF Held
  <2>2. j # NoKey /\ k # NoKey
    BY EqHashAssumption
  <2>3. d # e /\ v.heap[d].key = j
    BY <1>9, <2>1, <2>2
  <2>. QED  BY <2>2, <2>3 DEF Held, Once
<1>. QED  BY <1>1, <1>3, <1>5, <1>10, <1>11, <1>12 DEF Without

-----------------------------------------------------------------------------
(* The operations on a large table.                                        *)

Big(t) ==
  IsTable(t) /\ t.is_large = TRUE /\ t.small = NoSmall /\ Shaped(t.vec, t.cache, t.count)

Agrees(t, m) == Synced(t.vec, t.cache, m)

LEMMA LargeWith ==
  ASSUME NEW v, NEW count, NEW cache, NEW t, t = Large(v, count, cache), NEW x
  PROVE  /\ [t EXCEPT !.vec = x] = Large(x, count, cache)
         /\ [t EXCEPT !.cache = x] = Large(v, count, x)
         /\ [t EXCEPT !.count = x] = Large(v, x, cache)
         /\ t.vec = v /\ t.count = count /\ t.cache = cache
<1>1. PICK large : large = TRUE
  OBVIOUS
<1>2. Large(v, count, cache) =
          [is_large |-> large, small |-> NoSmall, vec |-> v, count |-> count,
           cache |-> cache]
  BY ONLY <1>1, Zenon DEF Large
<1>3. Large(x, count, cache) =
          [is_large |-> large, small |-> NoSmall, vec |-> x, count |-> count,
           cache |-> cache]
  BY ONLY <1>1, Zenon DEF Large
<1>4. Large(v, count, x) =
          [is_large |-> large, small |-> NoSmall, vec |-> v, count |-> count,
           cache |-> x]
  BY ONLY <1>1, Zenon DEF Large
<1>5. Large(v, x, cache) =
          [is_large |-> large, small |-> NoSmall, vec |-> v, count |-> x,
           cache |-> cache]
  BY ONLY <1>1, Zenon DEF Large
<1>6. t = [is_large |-> large, small |-> NoSmall, vec |-> v, count |-> count,
           cache |-> cache]
  BY <1>2
<1>7. [t EXCEPT !.vec = x] =
          [is_large |-> large, small |-> NoSmall, vec |-> x, count |-> count,
           cache |-> cache]
  BY ONLY <1>6
<1>8. [t EXCEPT !.cache = x] =
          [is_large |-> large, small |-> NoSmall, vec |-> v, count |-> count,
           cache |-> x]
  BY ONLY <1>6
<1>9. [t EXCEPT !.count = x] =
          [is_large |-> large, small |-> NoSmall, vec |-> v, count |-> x,
           cache |-> cache]
  BY ONLY <1>6
<1>10. t.vec = v /\ t.count = count /\ t.cache = cache
  BY ONLY <1>6
<1>. QED  BY ONLY <1>3, <1>4, <1>5, <1>7, <1>8, <1>9, <1>10

\* A large table from its parts.
LEMMA BigIs ==
  ASSUME NEW v, NEW cache, NEW count, Shaped(v, cache, count), NEW t,
         t = Large(v, count, cache)
  PROVE  Big(t) /\ t.vec = v /\ t.cache = cache /\ t.count = count
<1>1. t.is_large = TRUE /\ t.small = NoSmall /\ t.vec = v /\ t.count = count /\ t.cache = cache
  BY DEF Large
<1>2. IsTable(t)
  BY <1>1 DEF IsTable, Large
<1>. QED  BY <1>1, <1>2 DEF Big

LEMMA BigHas ==
  ASSUME NEW t, Big(t)
  PROVE  /\ t = Large(t.vec, t.count, t.cache)
         /\ t.vec = [mask |-> t.vec.mask, chain |-> t.vec.chain, heap |-> t.vec.heap]
         /\ Shaped(t.vec, t.cache, t.count) /\ IsVector(t.vec) /\ t.count \in Nat
<1>1. IsTable(t) /\ t.is_large = TRUE /\ t.small = NoSmall /\ Shaped(t.vec, t.cache, t.count)
  BY DEF Big
<1>2. t = Large(t.vec, t.count, t.cache)
  BY <1>1 DEF IsTable, Large
<1>3. IsVector(t.vec) /\ t.count \in Nat
  BY <1>1 DEF Shaped
<1>4. t.vec = [mask |-> t.vec.mask, chain |-> t.vec.chain, heap |-> t.vec.heap]
  BY <1>3 DEF IsVector
<1>. QED  BY <1>1, <1>2, <1>3, <1>4

LEMMA KeptIs ==
  ASSUME NEW t, Big(t)
  PROVE  /\ Big(Kept(t)) /\ DOMAIN Kept(t).vec.heap = Reachable(Kept(t))
         /\ Kept(t).vec.mask = t.vec.mask
         /\ \A m : Agrees(t, m) => Agrees(Kept(t), m)
<1>. DEFINE v == t.vec
            reach == Reachable(t)
            w == [mask |-> v.mask, chain |-> v.chain,
                  heap |-> [e \in DOMAIN v.heap \intersect reach |-> v.heap[e]]]
            u == Kept(t)
<1>1. /\ t = Large(v, t.count, t.cache)
      /\ v = [mask |-> v.mask, chain |-> v.chain, heap |-> v.heap]
      /\ Shaped(v, t.cache, t.count) /\ IsVector(v)
  BY BigHas
<1>2. u = Large(w, t.count, t.cache)
  <2>. HIDE DEF reach
  <2>1. u = [t EXCEPT !.vec = [t.vec EXCEPT !.heap =
                                  [e \in (DOMAIN t.vec.heap) \intersect reach |-> t.vec.heap[e]]]]
    BY DEF Kept, reach
  <2>2. [t.vec EXCEPT !.heap = [e \in (DOMAIN t.vec.heap) \intersect reach |-> t.vec.heap[e]]] = w
    <3>. DEFINE h == [e \in (DOMAIN v.heap) \intersect reach |-> v.heap[e]]
    <3>1. [v EXCEPT !.heap = h] = [mask |-> v.mask, chain |-> v.chain, heap |-> h]
      <4>. HIDE DEF h, v
      <4>. QED  BY <1>1
    <3>. QED  BY <3>1
  <2>. HIDE DEF w, v
  <2>3. u = [t EXCEPT !.vec = w]
    BY <2>1, <2>2
  <2>. QED  BY ONLY <1>1, <2>3, LargeWith DEF v
<1>3. Linked(t) = Links(v)
  BY DEF Linked, Links
<1>4. Links(v) \subseteq reach
      /\ \A c \in DOMAIN t.cache : t.cache[c] # NoEntry => t.cache[c] \in reach
  BY <1>3 DEF Reachable
<1>. HIDE DEF v, reach, u
<1>5. Shaped(w, t.cache, t.count) /\ \A m : Synced(v, t.cache, m) => Synced(w, t.cache, m)
  BY <1>1, <1>4, EntriesTaken
<1>6. w.mask = v.mask /\ w.chain = v.chain /\ DOMAIN w.heap = DOMAIN v.heap \intersect reach
  OBVIOUS
<1>. HIDE DEF w
<1>7. Big(u) /\ u.vec = w /\ u.cache = t.cache
  BY <1>2, <1>5, BigIs
<1>8. Reachable(u) = reach
  BY <1>6, <1>7 DEF Reachable, Linked, reach, v
<1>9. reach \subseteq DOMAIN v.heap
  <2>1. Links(v) \subseteq DOMAIN v.heap
    BY <1>1, LinkIs
  <2>2. \A c \in DOMAIN t.cache : t.cache[c] # NoEntry => t.cache[c] \in DOMAIN v.heap
    BY <1>1 DEF Shaped
  <2>. QED  BY <1>3, <2>1, <2>2 DEF Reachable, reach
<1>10. \A m : Agrees(t, m) => Agrees(u, m)
  BY <1>5, <1>7 DEF Agrees, v
<1>. QED  BY <1>6, <1>7, <1>8, <1>9, <1>10 DEF u, v

\* find_entry leaves the table in order.
LEMMA CachedIs ==
  ASSUME NEW t, Big(t), NEW k \in Key
  PROVE  /\ Big(Cached(t, k)) /\ Cached(t, k).vec = t.vec
         /\ \A m : Agrees(t, m) => Agrees(Cached(t, k), m)
<1>1. CASE FindEntry(t, k) = NoEntry
  BY <1>1 DEF Cached
<1>2. CASE FindEntry(t, k) # NoEntry
  <2>. DEFINE e == FindEntry(t, k)
              i == CacheIndex(k)
              cache == [t.cache EXCEPT ![i] = e]
              u == Cached(t, k)
  <2>1. /\ t = Large(t.vec, t.count, t.cache)
        /\ Shaped(t.vec, t.cache, t.count)
    BY BigHas
  <2>2. u = [t EXCEPT !.cache[i] = e]
    BY <1>2 DEF Cached
  <2>3. u = Large(t.vec, t.count, cache)
    <3>1. u = [t EXCEPT !.cache = cache]
      BY <2>2
    <3>. QED  BY ONLY <2>1, <3>1, LargeWith
  <2>4. e \in DOMAIN t.vec.heap
    BY <1>2, <2>1, FindEntryIs
  <2>. HIDE DEF e, i, u
  <2>5. Shaped(t.vec, cache, t.count)
        /\ \A m : Synced(t.vec, t.cache, m) /\ Current(t.vec, e, m) => Synced(t.vec, cache, m)
    BY <2>1, <2>4, EntryCached
  <2>. HIDE DEF cache
  <2>6. Big(u) /\ u.vec = t.vec /\ u.cache = cache
    BY <2>3, <2>5, BigIs
  <2>7. ASSUME NEW m, Agrees(t, m)
        PROVE  Agrees(u, m)
    <3>1. Current(t.vec, e, m)
      BY <1>2, <2>1, <2>7, FoundIsCurrent DEF Agrees, e
    <3>. QED  BY <2>5, <2>6, <2>7, <3>1 DEF Agrees
  <2>. QED  BY <2>6, <2>7 DEF u
<1>. QED  BY <1>1, <1>2

\* The entry found gets an item of the same key.
LEMMA FoundChanged ==
  ASSUME NEW t, Big(t), NEW k \in Key, FindEntry(t, k) # NoEntry,
         NEW item \in Item, item.key = k,
         NEW u, u = [Cached(t, k) EXCEPT
                       !.vec = [mask |-> t.vec.mask, chain |-> t.vec.chain,
                                heap |-> [t.vec.heap EXCEPT ![FindEntry(t, k)] = item]]]
  PROVE  /\ Big(u) /\ u.vec.mask = t.vec.mask
         /\ \A m : Agrees(t, m) /\ item.value = t.vec.heap[FindEntry(t, k)].value => Agrees(u, m)
         /\ t.vec.mask = INITIAL_MASK /\ item.value # NoValue =>
              \A m \in [Key -> HashValue \union {NoValue}] :
                Agrees(t, m) => Agrees(u, [m EXCEPT ![k] = item.value])
<1>. DEFINE e == FindEntry(t, k)
            s == Cached(t, k)
            w == [mask |-> t.vec.mask, chain |-> t.vec.chain,
                  heap |-> [t.vec.heap EXCEPT ![e] = item]]
<1>1. Big(s) /\ s.vec = t.vec /\ \A m : Agrees(t, m) => Agrees(s, m)
  BY CachedIs
<1>2. Shaped(t.vec, t.cache, t.count)
  BY BigHas
<1>3. e \in DOMAIN t.vec.heap /\ t.vec.heap[e].key = k
  BY <1>2, FindEntryIs
<1>4. u = [s EXCEPT !.vec = w]
  OBVIOUS
<1>. HIDE DEF s, e
<1>5. Shaped(t.vec, s.cache, s.count)
      /\ s = Large(t.vec, s.count, s.cache)
  BY <1>1, BigHas
<1>6. Shaped(w, s.cache, s.count) /\ w.mask = t.vec.mask
  BY <1>3, <1>5, ItemChanged
<1>7. u = Large(w, s.count, s.cache)
  BY ONLY <1>4, <1>5, LargeWith
<1>8. Big(u) /\ u.vec = w /\ u.cache = s.cache
  BY ONLY <1>6, <1>7, BigIs
<1>9. ASSUME NEW m, Agrees(t, m), item.value = t.vec.heap[e].value
      PROVE  Agrees(u, m)
  <2>1. Synced(t.vec, s.cache, m)
    BY <1>1, <1>9 DEF Agrees
  <2>2. Synced(w, s.cache, m)
    BY <1>3, <1>5, <1>9, <2>1, FlagsChanged
  <2>. HIDE DEF w
  <2>. QED  BY <1>8, <2>2 DEF Agrees
<1>10. ASSUME NEW m \in [Key -> HashValue \union {NoValue}], Agrees(t, m),
              t.vec.mask = INITIAL_MASK, item.value # NoValue
       PROVE  Agrees(u, [m EXCEPT ![k] = item.value])
  <2>1. Synced(t.vec, s.cache, m)
    BY <1>1, <1>10 DEF Agrees
  <2>2. e \in Links(t.vec)
    <3>1. Current(t.vec, e, m)
      BY <1>2, <1>10, FoundIsCurrent DEF Agrees, e
    <3>. QED  BY <1>10, <3>1 DEF Current
  <2>3. Synced(w, s.cache, [m EXCEPT ![k] = item.value])
    BY <1>3, <1>5, <1>10, <2>1, <2>2, ValueChanged
  <2>. HIDE DEF w
  <2>. QED  BY <1>8, <2>3 DEF Agrees
<1>. HIDE DEF w
<1>. QED  BY <1>6, <1>8, <1>9, <1>10 DEF e

LEMMA WithoutOne ==
  ASSUME NEW v, NEW cache, NEW count, Shaped(v, cache, count), NEW k \in Held(v),
         NEW w, Without(v, w, k), NEW i, NEW x, x = NoEntry \/ x = cache[i]
  PROVE  Shaped(w, [cache EXCEPT ![i] = x], count - 1)
<1>. DEFINE d == [cache EXCEPT ![i] = x]
<1>1. /\ d \in [0..(CACHE_SIZE - 1) -> Name \union {NoEntry}]
      /\ \A c \in DOMAIN d : d[c] # NoEntry => d[c] \in DOMAIN w.heap
  <2>1. /\ cache \in [0..(CACHE_SIZE - 1) -> Name \union {NoEntry}]
        /\ \A c \in DOMAIN cache : cache[c] # NoEntry => cache[c] \in DOMAIN v.heap
        /\ DOMAIN w.heap = DOMAIN v.heap
    BY DEF Shaped, Without
  <2>2. DOMAIN d = DOMAIN cache /\ \A c \in DOMAIN cache : d[c] = cache[c] \/ d[c] = NoEntry
    OBVIOUS
  <2>3. d = [c \in DOMAIN cache |-> d[c]]
    OBVIOUS
  <2>. HIDE DEF d
  <2>. QED  BY <2>1, <2>2, <2>3
<1>. HIDE DEF d
<1>2. IsFiniteSet(Held(v)) /\ Cardinality(Held(v)) <= count /\ count \in Nat /\ count <= v.mask
      /\ INITIAL_MASK <= v.mask /\ v.mask \in Nat
  BY DEF Shaped, IsVector
<1>3. /\ IsFiniteSet(Held(v) \ {k}) /\ Cardinality(Held(v) \ {k}) = Cardinality(Held(v)) - 1
  BY <1>2, FS_RemoveElement
<1>4. Held(w) \subseteq Held(v) \ {k}
  BY DEF Without
<1>5. IsFiniteSet(Held(w)) /\ Cardinality(Held(w)) <= Cardinality(Held(v) \ {k})
  BY <1>3, <1>4, FS_Subset
<1>6. Cardinality(Held(w)) \in Nat /\ Cardinality(Held(v)) \in Nat
      /\ Cardinality(Held(v) \ {k}) \in Nat
  BY <1>2, <1>3, <1>5, FS_CardinalityType
<1>7. count - 1 \in Nat /\ Cardinality(Held(w)) <= count - 1 /\ count - 1 <= v.mask
  BY <1>2, <1>3, <1>5, <1>6
<1>. QED  BY <1>1, <1>2, <1>5, <1>7 DEF Shaped, Without, d

\* delete_entry leaves the table in order.
LEMMA DeletedIs ==
  ASSUME NEW t, Big(t), NEW k \in Key
  PROVE  Big(DeleteEntry(t, k)) /\ DeleteEntry(t, k).vec.mask = t.vec.mask
<1>. DEFINE v == t.vec
            b == Bucket(k, v.mask)
            c == v.chain[b]
            at == PlaceOf(t, k)
            i == Hash[k].mid % CACHE_SIZE
            x == IF t.cache[i] = c[at] THEN NoEntry ELSE t.cache[i]
            cache == [t.cache EXCEPT ![i] = x]
            count == t.count - 1
            u == DeleteEntry(t, k)
<1>1. /\ t = Large(v, t.count, t.cache) /\ Shaped(v, t.cache, t.count)
      /\ v = [mask |-> v.mask, chain |-> v.chain, heap |-> v.heap]
      /\ IsVector(v) /\ Placed(v) /\ Once(v)
  BY BigHas DEF Shaped
<1>2. b \in Buckets(v.mask) /\ ChainOf(t, k) = c
      /\ \/ at = 0
         \/ at \in 1..Len(c) /\ v.heap[c[at]].key = k
  BY <1>1, PlaceOfIs DEF ChainOf
<1>3. CASE at = 0
  BY <1>3 DEF DeleteEntry
<1>4. CASE at \in 1..Len(c) /\ v.heap[c[at]].key = k
  <2>1. IsChain(c, InPlace(b, v.mask)) /\ v.heap \in [DOMAIN v.heap -> Item] /\ at \in Nat
        /\ c[at] \in Links(v)
    <3>1. IsChain(c, InPlace(b, v.mask)) /\ v.heap \in [DOMAIN v.heap -> Item]
      BY <1>1, <1>2 DEF IsVector, IsHeap
    <3>2. at \in DOMAIN c
      BY <1>4, <3>1 DEF IsChain
    <3>. QED  BY <1>2, <1>4, <3>1, <3>2 DEF Links, ToSet
  <2>2. k \in Held(v)
    BY <1>4, <2>1 DEF Held
  <2>. DEFINE Ends(w) == u = Large(w, count, cache)
                         /\ Without(v, w, k)
  <2>3. ASSUME NEW w, Ends(w)
        PROVE  Big(u) /\ u.vec.mask = v.mask
    <3>1. Shaped(w, cache, count)
      <4>1. x = NoEntry \/ x = t.cache[i]
        OBVIOUS
      <4>2. Without(v, w, k)
        BY <2>3
      <4>. HIDE DEF x, i, v, Ends
      <4>. QED  BY <1>1, <2>2, <4>1, <4>2, WithoutOne
    <3>2. u = Large(w, count, cache)
      BY <2>3
    <3>3. w.mask = v.mask
      BY <2>3 DEF Without
    <3>. HIDE DEF u, cache, count
    <3>4. Big(u) /\ u.vec = w
      BY ONLY <3>1, <3>2, BigIs
    <3>. QED  BY <3>3, <3>4
  <2>4. CASE at > 1
    <3>. DEFINE w == [mask |-> v.mask, chain |-> [v.chain EXCEPT ![b] = RemoveAt(v.chain[b], at)],
                      heap |-> v.heap]
    <3>1. w = [t.vec EXCEPT !.chain[b] = RemoveAt(@, at)]
      <4>. HIDE DEF at, b
      <4>. QED  BY <1>1
    <3>2. u = Large(w, count, cache)
      <4>. HIDE DEF w
      <4>. QED  BY <1>2, <2>1, <2>4, <3>1 DEF DeleteEntry
    <3>3. Without(v, w, k)
      <4>1. at \in 2..Len(c)
        BY <1>4, <2>4
      <4>. HIDE DEF b, at, v
      <4>. QED  BY <1>1, <1>2, <1>4, <4>1, EntryUnlinked
    <3>. HIDE DEF w, count, cache
    <3>. QED  BY <2>3, <3>2, <3>3
  <2>5. CASE at = 1 /\ Len(c) > 1
    <3>. DEFINE w == [mask |-> v.mask, chain |-> [v.chain EXCEPT ![b] = RemoveAt(v.chain[b], 2)],
                      heap |-> [v.heap EXCEPT ![v.chain[b][1]] = v.heap[v.chain[b][2]]]]
    <3>1. w = [t.vec EXCEPT !.chain[b] = RemoveAt(@, 2), !.heap[c[1]] = t.vec.heap[c[2]]]
      <4>. DEFINE chain == [v.chain EXCEPT ![b] = RemoveAt(v.chain[b], 2)]
                  heap == [v.heap EXCEPT ![v.chain[b][1]] = v.heap[v.chain[b][2]]]
                  w1 == [v EXCEPT !.chain = chain]
                  w2 == [w1 EXCEPT !.heap = heap]
      <4>1. w1 = [mask |-> v.mask, chain |-> chain, heap |-> v.heap]
        <5>. HIDE DEF v, b, chain
        <5>. QED  BY <1>1
      <4>2. w2 = [mask |-> v.mask, chain |-> chain, heap |-> heap]
        <5>. HIDE DEF v, b, chain, heap, w1
        <5>. QED  BY ONLY <4>1
      <4>3. [t.vec EXCEPT !.chain[b] = RemoveAt(@, 2), !.heap[c[1]] = t.vec.heap[c[2]]] = w2
        <5>1. w1.heap = v.heap
          <6>. HIDE DEF w1
          <6>. QED  BY <4>1
        <5>2. [t.vec EXCEPT !.chain[b] = RemoveAt(@, 2), !.heap[c[1]] = t.vec.heap[c[2]]]
                = [w1 EXCEPT !.heap = [w1.heap EXCEPT ![c[1]] = v.heap[c[2]]]]
          <6>. HIDE DEF b
          <6>. QED  OBVIOUS
        <5>. QED  BY <5>1, <5>2
      <4>. QED  BY <4>2, <4>3
    <3>2. u = Large(w, count, cache)
      <4>1. at # 0 /\ ~(at > 1)
        BY <2>5
      <4>2. u = Large([t.vec EXCEPT !.chain[b] = RemoveAt(@, 2), !.heap[c[1]] = t.vec.heap[c[2]]],
                      count, cache)
        BY <1>2, <2>5, <4>1 DEF DeleteEntry
      <4>. HIDE DEF w
      <4>. QED  BY <3>1, <4>2
    <3>3. Without(v, w, k)
      <4>. HIDE DEF b, at, v
      <4>. QED  BY <1>1, <1>2, <1>4, <2>5, EntryTakenOver
    <3>. HIDE DEF w, count, cache
    <3>. QED  BY <2>3, <3>2, <3>3
  <2>6. CASE at = 1 /\ ~(Len(c) > 1)
    <3>. DEFINE e == c[1]
                item == Entry(NoKey, NoValue, v.heap[e].flags)
                w == [mask |-> v.mask, chain |-> v.chain, heap |-> [v.heap EXCEPT ![e] = item]]
    <3>1. w = [t.vec EXCEPT !.heap[c[1]] = Entry(NoKey, NoValue, @.flags)]
      <4>. HIDE DEF c
      <4>. QED  BY <1>1
    <3>2. u = Large(w, count, cache)
      <4>. HIDE DEF w
      <4>. QED  BY <1>2, <2>1, <2>6, <3>1 DEF DeleteEntry
    <3>3. item \in Item /\ item.key = NoKey
      <4>1. v.heap[e] \in Item
        BY <1>1, <2>1, <2>6, LinkIs
      <4>2. v.heap[e].flags \in Nat
        BY <4>1 DEF Item
      <4>. HIDE DEF v, e
      <4>. QED  BY <4>2 DEF Entry, Item
    <3>4. Without(v, w, k)
      <4>1. e \in Links(v) /\ v.heap[e].key = k
        BY <1>4, <2>1, <2>6
      <4>. HIDE DEF e, v, item
      <4>. QED  BY <1>1, <3>3, <4>1, EntryFreed
    <3>. HIDE DEF w, count, cache
    <3>. QED  BY <2>3, <3>2, <3>4
  <2>7. at > 1 \/ (at = 1 /\ Len(c) > 1) \/ (at = 1 /\ ~(Len(c) > 1))
    <3>. HIDE DEF at, c
    <3>. QED  BY <1>4
  <2>. QED  BY <2>4, <2>5, <2>6, <2>7
<1>. QED  BY <1>2, <1>3, <1>4

\* A found entry is given a value, or flags.
Assigned(t, k, v) == [Cached(t, k) EXCEPT !.vec.heap[FindEntry(t, k)].value = v]
Flagged(t, k, f) == [Cached(t, k) EXCEPT !.vec.heap[FindEntry(t, k)].flags = f]

LEMMA FoundItem ==
  ASSUME NEW t, Big(t), NEW k \in Key, FindEntry(t, k) # NoEntry,
         NEW item, item = t.vec.heap[FindEntry(t, k)]
  PROVE  item \in [key : Key, value : HashValue, flags : Nat] /\ item.key = k
<1>1. FindEntry(t, k) \in DOMAIN t.vec.heap /\ item.key = k
  BY BigHas, FindEntryIs
<1>2. item \in Item
  BY <1>1, BigHas DEF IsVector, IsHeap
<1>. QED  BY <1>1, <1>2, EqHashAssumption DEF Item

LEMMA AssignedIs ==
  ASSUME NEW t, Big(t), NEW k \in Key, FindEntry(t, k) # NoEntry, NEW v \in HashValue
  PROVE  /\ Big(Assigned(t, k, v)) /\ Assigned(t, k, v).vec.mask = t.vec.mask
         /\ t.vec.mask = INITIAL_MASK =>
              \A m \in [Key -> HashValue \union {NoValue}] :
                Agrees(t, m) => Agrees(Assigned(t, k, v), [m EXCEPT ![k] = v])
<1>. DEFINE e == FindEntry(t, k)
            s == Cached(t, k)
            old == t.vec.heap[e]
            item == [old EXCEPT !.value = v]
            w == [mask |-> t.vec.mask, chain |-> t.vec.chain, heap |-> [t.vec.heap EXCEPT ![e] = item]]
            u == Assigned(t, k, v)
<1>1. item \in Item /\ item.key = k /\ item.value = v /\ v # NoValue
  <2>1. old \in [key : Key, value : HashValue, flags : Nat] /\ old.key = k
    BY FoundItem
  <2>. HIDE DEF old
  <2>. QED  BY <2>1, EqHashAssumption DEF Item
<1>2. u = [s EXCEPT !.vec = w]
  <2>1. s.vec = t.vec
    BY CachedIs
  <2>2. t.vec = [mask |-> t.vec.mask, chain |-> t.vec.chain, heap |-> t.vec.heap]
    BY BigHas
  <2>. HIDE DEF s, e
  <2>3. u = [s EXCEPT !.vec = [s.vec EXCEPT !.heap = [s.vec.heap EXCEPT ![e] =
                                 [s.vec.heap[e] EXCEPT !.value = v]]]]
    BY DEF Assigned, s, e
  <2>4. [t.vec EXCEPT !.heap = [t.vec.heap EXCEPT ![e] = item]] = w
    <3>. DEFINE h == [t.vec.heap EXCEPT ![e] = item]
    <3>. HIDE DEF h
    <3>1. [t.vec EXCEPT !.heap = h] = [mask |-> t.vec.mask, chain |-> t.vec.chain, heap |-> h]
      BY <2>2
    <3>. QED  BY <3>1 DEF h
  <2>. HIDE DEF w
  <2>. QED  BY <2>1, <2>3, <2>4
<1>. HIDE DEF item, u
<1>3. /\ Big(u) /\ u.vec.mask = t.vec.mask
      /\ t.vec.mask = INITIAL_MASK /\ item.value # NoValue =>
           \A m \in [Key -> HashValue \union {NoValue}] :
             Agrees(t, m) => Agrees(u, [m EXCEPT ![k] = item.value])
  BY <1>1, <1>2, FoundChanged
<1>. QED  BY <1>1, <1>3 DEF u

LEMMA FlaggedIs ==
  ASSUME NEW t, Big(t), NEW k \in Key, FindEntry(t, k) # NoEntry, NEW f \in Nat
  PROVE  /\ Big(Flagged(t, k, f)) /\ Flagged(t, k, f).vec.mask = t.vec.mask
         /\ \A m : Agrees(t, m) => Agrees(Flagged(t, k, f), m)
<1>. DEFINE e == FindEntry(t, k)
            s == Cached(t, k)
            old == t.vec.heap[e]
            item == [old EXCEPT !.flags = f]
            w == [mask |-> t.vec.mask, chain |-> t.vec.chain, heap |-> [t.vec.heap EXCEPT ![e] = item]]
            u == Flagged(t, k, f)
<1>1. item \in Item /\ item.key = k /\ item.value = old.value
  <2>1. old \in [key : Key, value : HashValue, flags : Nat] /\ old.key = k
    BY FoundItem
  <2>. HIDE DEF old
  <2>. QED  BY <2>1 DEF Item
<1>2. u = [s EXCEPT !.vec = w]
  <2>1. s.vec = t.vec
    BY CachedIs
  <2>2. t.vec = [mask |-> t.vec.mask, chain |-> t.vec.chain, heap |-> t.vec.heap]
    BY BigHas
  <2>. HIDE DEF s, e
  <2>3. u = [s EXCEPT !.vec = [s.vec EXCEPT !.heap = [s.vec.heap EXCEPT ![e] =
                                 [s.vec.heap[e] EXCEPT !.flags = f]]]]
    BY DEF Flagged, s, e
  <2>4. [t.vec EXCEPT !.heap = [t.vec.heap EXCEPT ![e] = item]] = w
    <3>. DEFINE h == [t.vec.heap EXCEPT ![e] = item]
    <3>. HIDE DEF h
    <3>1. [t.vec EXCEPT !.heap = h] = [mask |-> t.vec.mask, chain |-> t.vec.chain, heap |-> h]
      BY <2>2
    <3>. QED  BY <3>1 DEF h
  <2>. HIDE DEF w
  <2>. QED  BY <2>1, <2>3, <2>4
<1>. HIDE DEF item, u
<1>3. /\ Big(u) /\ u.vec.mask = t.vec.mask
      /\ \A m : Agrees(t, m) /\ item.value = t.vec.heap[FindEntry(t, k)].value => Agrees(u, m)
  BY <1>1, <1>2, FoundChanged
<1>. QED  BY <1>1, <1>3 DEF u

\* A key that a large table does not have is put into it.
LEMMA PutLargeIs ==
  ASSUME NEW t, Big(t), NEW k \in Key, k \notin Held(t.vec), NEW x \in HashValue
  PROVE  /\ Big(PutLarge(t, k, x))
         /\ \A m \in [Key -> HashValue \union {NoValue}] :
              Agrees(t, m) => Agrees(PutLarge(t, k, x), [m EXCEPT ![k] = x])
<1>. DEFINE v == t.vec
            counted == [t EXCEPT !.count = @ + 1]
            count == t.count + 1
            grown == IF counted.count > v.mask THEN Grow(counted) ELSE counted
            put(vec) == PutLow(vec, Entry(k, x, 0))
            u == PutLarge(t, k, x)
<1>1. /\ t = Large(v, t.count, t.cache) /\ Shaped(v, t.cache, t.count) /\ IsVector(v)
      /\ t.count \in Nat
  BY BigHas
<1>2. counted = Large(v, count, t.cache) /\ counted.vec = v /\ counted.count = count
      /\ counted.cache = t.cache
  <2>1. counted = Large(v, count, t.cache)
    <3>. DEFINE c == t.count + 1
    <3>1. counted = [t EXCEPT !.count = c]
      OBVIOUS
    <3>. HIDE DEF c, v
    <3>2. counted = Large(v, c, t.cache)
      BY ONLY <1>1, <3>1, LargeWith
    <3>. QED  BY <3>2 DEF c
  <2>. HIDE DEF counted, v
  <2>. QED  BY ONLY <2>1, LargeWith
<1>3. u = [grown EXCEPT !.vec = put(grown.vec)]
  BY <1>2 DEF PutLarge
<1>. DEFINE Fits(w) == /\ grown = Large(w, count, t.cache) /\ Shaped(w, t.cache, t.count)
                       /\ count <= w.mask /\ Held(w) = Held(v)
                       /\ \A m : Synced(v, t.cache, m) => Synced(w, t.cache, m)
<1>4. \E w : Fits(w)
  <2>1. CASE count > v.mask
    <3>. DEFINE mask == (v.mask + 1) * 2 - 1
                w == Grow(counted).vec
    <3>1. grown = Grow(counted)
      BY <1>2, <2>1
    <3>2. counted = [is_large |-> counted.is_large, small |-> counted.small, vec |-> counted.vec,
                     count |-> counted.count, cache |-> counted.cache]
      <4>1. t = [is_large |-> t.is_large, small |-> t.small, vec |-> t.vec, count |-> t.count,
                 cache |-> t.cache]
        BY DEF Big, IsTable
      <4>. QED  BY <4>1
    <3>3. Placed(v) /\ Once(v)
      BY <1>1 DEF Shaped
    <3>. HIDE DEF counted, v
    <3>4. /\ Grow(counted) = [counted EXCEPT !.vec = w]
          /\ w \in Vectors(mask) /\ Moved(v.heap, Links(v), v.heap, w)
      BY <1>1, <1>2, <3>2, <3>3, GrowIs
    <3>5. /\ Shaped(w, t.cache, t.count) /\ Held(w) = Held(v)
          /\ \A m : Synced(v, t.cache, m) => Synced(w, t.cache, m)
      <4>. HIDE DEF w
      <4>. QED  BY <1>1, <3>4, TableGrows
    <3>6. Grow(counted) = Large(w, count, t.cache)
      <4>. HIDE DEF w, count
      <4>1. counted = Large(v, count, t.cache) /\ Grow(counted) = [counted EXCEPT !.vec = w]
        BY <1>2, <3>4
      <4>2. [counted EXCEPT !.vec = w] = Large(w, count, t.cache)
        BY ONLY <4>1, LargeWith
      <4>. QED  BY ONLY <4>1, <4>2
    <3>7. count <= w.mask
      <4>1. w.mask = mask
        <5>. HIDE DEF w, mask
        <5>. QED  BY <3>4, VectorsAre
      <4>2. t.count <= v.mask /\ v.mask \in Nat
        BY <1>1 DEF Shaped, IsVector
      <4>. HIDE DEF w
      <4>. QED  BY <1>1, <4>1, <4>2
    <3>. HIDE DEF w, grown, count
    <3>. QED  BY <3>1, <3>5, <3>6, <3>7
  <2>2. CASE ~(count > v.mask)
    <3>1. grown = Large(v, count, t.cache)
      <4>. HIDE DEF counted
      <4>. QED  BY <1>2, <2>2
    <3>2. count <= v.mask
      BY <1>1, <2>2 DEF IsVector
    <3>. HIDE DEF grown, count
    <3>. QED  BY <1>1, <3>1, <3>2
  <2>. QED  BY <2>1, <2>2
<1>5. PICK w : Fits(w)
  BY <1>4
<1>. HIDE DEF grown, v
<1>6. u = Large(put(w), count, t.cache)
  <2>1. grown = Large(w, count, t.cache)
    BY <1>5
  <2>. HIDE DEF u, put, count
  <2>2. grown.vec = w
    BY ONLY <2>1, LargeWith
  <2>3. u = [grown EXCEPT !.vec = put(w)]
    BY <1>3, <2>2
  <2>. QED  BY ONLY <2>1, <2>3, LargeWith
<1>7. \A e \in Links(w) : w.heap[e].key # k
  <2>1. k \notin Held(w)
    BY <1>5 DEF v
  <2>. QED  BY <2>1 DEF Held
<1>8. /\ Shaped(put(w), t.cache, count)
      /\ \A m \in [Key -> HashValue \union {NoValue}] :
           Synced(w, t.cache, m) => Synced(put(w), t.cache, [m EXCEPT ![k] = x])
  <2>1. Shaped(w, t.cache, t.count) /\ count <= w.mask
    BY <1>5
  <2>. HIDE DEF Fits
  <2>. QED  BY <1>1, <1>7, <2>1, KeyAdded
<1>9. Big(u) /\ u.vec = put(w) /\ u.cache = t.cache
  <2>1. Shaped(put(w), t.cache, count)
    BY <1>8
  <2>. HIDE DEF u, put, count
  <2>. QED  BY ONLY <1>6, <2>1, BigIs
<1>10. ASSUME NEW m \in [Key -> HashValue \union {NoValue}], Agrees(t, m)
       PROVE  Agrees(u, [m EXCEPT ![k] = x])
  <2>1. Synced(w, t.cache, m)
    BY <1>5, <1>10 DEF Agrees, v
  <2>2. Synced(put(w), t.cache, [m EXCEPT ![k] = x])
    BY <1>8, <2>1
  <2>. HIDE DEF u, put
  <2>. QED  BY <1>9, <2>2 DEF Agrees
<1>. QED  BY <1>9, <1>10

-----------------------------------------------------------------------------
(* A small table.                                                          *)

Little(t, m) == t = Small(t.small) /\ t.is_large = FALSE /\ SmallAgrees(t.small, m)

LEMMA SmallWith ==
  ASSUME NEW entries, NEW t, t = Small(entries), NEW x
  PROVE  /\ [t EXCEPT !.small = x] = Small(x) /\ t.small = entries /\ t.is_large = FALSE
         /\ t.vec = NoVector
<1>1. PICK large : large = FALSE
  OBVIOUS
<1>2. Small(entries) = [is_large |-> large, small |-> entries, vec |-> NoVector, count |-> 0,
                        cache |-> EmptyCache]
  BY ONLY <1>1, Zenon DEF Small
<1>3. Small(x) = [is_large |-> large, small |-> x, vec |-> NoVector, count |-> 0,
                  cache |-> EmptyCache]
  BY ONLY <1>1, Zenon DEF Small
<1>4. t = [is_large |-> large, small |-> entries, vec |-> NoVector, count |-> 0,
           cache |-> EmptyCache]
  BY <1>2
<1>5. [t EXCEPT !.small = x] = [is_large |-> large, small |-> x, vec |-> NoVector, count |-> 0,
                                cache |-> EmptyCache]
  BY ONLY <1>4
<1>6. t.small = entries /\ t.is_large = large /\ t.vec = NoVector
  BY ONLY <1>4
<1>. QED  BY ONLY <1>1, <1>3, <1>5, <1>6

LEMMA SmallWithEntries ==
  ASSUME NEW entries, NEW x
  PROVE  [Small(entries) EXCEPT !.small = x] = Small(x)
<1>1. PICK t : t = Small(entries)
  OBVIOUS
<1>. QED  BY ONLY <1>1, SmallWith

LEMMA LittleIs ==
  ASSUME NEW entries, NEW t, t = Small(entries), NEW m, SmallAgrees(entries, m)
  PROVE  Little(t, m)
<1>1. t.small = entries /\ t.is_large = FALSE
  BY SmallWith
<1>. QED  BY <1>1 DEF Little

LEMMA SmallIndexIs ==
  ASSUME NEW t, t.small \in [1..SMALL_SIZE -> Item], NEW k
  PROVE  \/ SmallIndex(t, k) = 0 /\ \A i \in 1..SMALL_SIZE : t.small[i].key # k
         \/ SmallIndex(t, k) \in 1..SMALL_SIZE /\ t.small[SmallIndex(t, k)].key = k
<1>. DEFINE some == {i \in 1..Len(t.small) : t.small[i].key = k}
<1>1. SMALL_SIZE \in Nat /\ Len(t.small) = SMALL_SIZE
  BY EqHashAssumption
<1>2. SmallIndex(t, k) = IF some # {} THEN Min(some) ELSE 0
  BY DEF SmallIndex, SelectInSeq
<1>3. some # {} => Min(some) \in some
  <2>1. some \in SUBSET (1..SMALL_SIZE)
    BY <1>1
  <2>. HIDE DEF some
  <2>. QED  BY <1>1, <2>1, MinIn
<1>. QED  BY <1>1, <1>2, <1>3

\* An entry of a small table gets a key and a value, or is marked free.
LEMMA SmallChanged ==
  ASSUME NEW small, NEW m \in [Key -> HashValue \union {NoValue}], SmallAgrees(small, m),
         NEW k \in Key, NEW i \in 1..SMALL_SIZE, small[i].key \in {k, NoKey},
         \A j \in 1..SMALL_SIZE : j # i => small[j].key # k,
         NEW item \in Item, NEW x,
         \/ item.key = k /\ item.value = x /\ x # NoValue
         \/ item.key = NoKey /\ x = NoValue
  PROVE  SmallAgrees([small EXCEPT ![i] = item], [m EXCEPT ![k] = x])
<1>. DEFINE new == [small EXCEPT ![i] = item]
            n == [m EXCEPT ![k] = x]
<1>1. new \in [1..SMALL_SIZE -> Item] /\ new[i] = item
      /\ \A j \in 1..SMALL_SIZE : j # i => new[j] = small[j]
  BY DEF SmallAgrees
<1>2. n[k] = x /\ \A j \in Key : j # k => n[j] = m[j]
  OBVIOUS
<1>. HIDE DEF new, n
<1>3. ASSUME NEW a \in 1..SMALL_SIZE, NEW b \in 1..SMALL_SIZE,
             new[a].key # NoKey, new[a].key = new[b].key
      PROVE  a = b
  BY <1>1, <1>3 DEF SmallAgrees
<1>4. ASSUME NEW j \in Key, NEW y
      PROVE  (\E a \in 1..SMALL_SIZE : new[a].key = j /\ new[a].value = y)
               <=> n[j] = y /\ y # NoValue
  <2>1. NoKey \notin Key
    BY EqHashAssumption
  <2>2. CASE j = k
    <3>1. \A a \in 1..SMALL_SIZE : new[a].key = j => a = i
      BY <1>1, <2>2
    <3>2. (\E a \in 1..SMALL_SIZE : new[a].key = j /\ new[a].value = y)
            <=> item.key = j /\ item.value = y
      BY <1>1, <3>1
    <3>. QED  BY <1>2, <2>1, <2>2, <3>2
  <2>3. CASE j # k
    <3>1. (\E a \in 1..SMALL_SIZE : new[a].key = j /\ new[a].value = y)
            <=> (\E a \in 1..SMALL_SIZE : small[a].key = j /\ small[a].value = y)
      BY <1>1, <2>1, <2>3
    <3>2. (\E a \in 1..SMALL_SIZE : small[a].key = j /\ small[a].value = y)
            <=> m[j] = y /\ y # NoValue
      BY DEF SmallAgrees
    <3>. QED  BY <1>2, <2>3, <3>1, <3>2
  <2>. QED  BY <2>2, <2>3
<1>. QED  BY <1>1, <1>3, <1>4 DEF SmallAgrees, new, n

\* What a small table has for a key.
LEMMA SmallHas ==
  ASSUME NEW t, NEW m \in [Key -> HashValue \union {NoValue}], Little(t, m), NEW k \in Key
  PROVE  \/ /\ SmallIndex(t, k) = 0 /\ m[k] = NoValue
            /\ \A i \in 1..SMALL_SIZE : t.small[i].key # k
         \/ /\ SmallIndex(t, k) \in 1..SMALL_SIZE
            /\ t.small[SmallIndex(t, k)] \in [key : Key, value : HashValue, flags : Nat]
            /\ t.small[SmallIndex(t, k)].key = k
            /\ t.small[SmallIndex(t, k)].value = m[k] /\ m[k] # NoValue
            /\ \A j \in 1..SMALL_SIZE : j # SmallIndex(t, k) => t.small[j].key # k
<1>. DEFINE i == SmallIndex(t, k)
<1>1. /\ t.small \in [1..SMALL_SIZE -> Item]
      /\ \A a, b \in 1..SMALL_SIZE :
           t.small[a].key # NoKey /\ t.small[a].key = t.small[b].key => a = b
      /\ \A x : (\E a \in 1..SMALL_SIZE : t.small[a].key = k /\ t.small[a].value = x)
                  <=> m[k] = x /\ x # NoValue
  BY DEF Little, SmallAgrees
<1>2. k # NoKey
  BY EqHashAssumption
<1>3. CASE i = 0 /\ \A a \in 1..SMALL_SIZE : t.small[a].key # k
  BY <1>1, <1>3
<1>4. CASE i \in 1..SMALL_SIZE /\ t.small[i].key = k
  <2>. HIDE DEF i
  <2>1. t.small[i] \in [key : Key, value : HashValue, flags : Nat]
    BY <1>1, <1>2, <1>4 DEF Item
  <2>2. t.small[i].value = m[k] /\ m[k] # NoValue
    BY <1>1, <1>4
  <2>3. \A j \in 1..SMALL_SIZE : j # i => t.small[j].key # k
    BY <1>1, <1>2, <1>4
  <2>. QED  BY <1>4, <2>1, <2>2, <2>3 DEF i
<1>5. \/ i = 0 /\ \A a \in 1..SMALL_SIZE : t.small[a].key # k
      \/ i \in 1..SMALL_SIZE /\ t.small[i].key = k
  BY <1>1, SmallIndexIs
<1>. QED  BY <1>3, <1>4, <1>5

LEMMA SmallSet ==
  ASSUME NEW t, NEW m \in [Key -> HashValue \union {NoValue}], Little(t, m), NEW k \in Key,
         NEW i \in 1..SMALL_SIZE, t.small[i].key \in {k, NoKey},
         \A j \in 1..SMALL_SIZE : j # i => t.small[j].key # k,
         NEW item \in Item, NEW x,
         \/ item.key = k /\ item.value = x /\ x # NoValue
         \/ item.key = NoKey /\ x = NoValue,
         NEW u, u = [t EXCEPT !.small = [t.small EXCEPT ![i] = item]]
  PROVE  Little(u, [m EXCEPT ![k] = x])
<1>. DEFINE new == [t.small EXCEPT ![i] = item]
            n == [m EXCEPT ![k] = x]
<1>1. SmallAgrees(t.small, m) /\ t = Small(t.small)
  BY DEF Little
<1>2. SmallAgrees(new, n)
  BY <1>1, SmallChanged
<1>. HIDE DEF new, n
<1>3. u = [t EXCEPT !.small = new]
  BY DEF new
<1>4. u = Small(new)
  <2>1. PICK entries : entries = t.small
    OBVIOUS
  <2>2. t = Small(entries)
    BY <1>1, <2>1
  <2>3. [t EXCEPT !.small = new] = Small(new)
    BY ONLY <2>2, SmallWithEntries
  <2>. QED  BY ONLY <1>3, <2>3
<1>5. Little(u, n)
  BY ONLY <1>2, <1>4, LittleIs
<1>. QED  BY <1>5 DEF n

\* The table after the conversion.
LEMMA Converted ==
  ASSUME NEW t, NEW m, Little(t, m), NEW k \in Key, SmallIndex(t, k) = 0
  PROVE  /\ Big(ConvertToLarge(t)) /\ Agrees(ConvertToLarge(t), m)
         /\ k \notin Held(ConvertToLarge(t).vec)
<1>. DEFINE v == PutAll(AllocVector(INITIAL_MASK, <<>>), t.small)
            u == ConvertToLarge(t)
<1>1. SmallAgrees(t.small, m) /\ t.small \in [1..SMALL_SIZE -> Item]
  BY DEF Little, SmallAgrees
<1>2. /\ Shaped(v, EmptyCache, SMALL_SIZE) /\ Synced(v, EmptyCache, m)
      /\ Held(v) = {j \in Key : \E i \in 1..SMALL_SIZE : t.small[i].key = j}
  BY <1>1, TableConverted
<1>3. u = Large(v, SMALL_SIZE, EmptyCache)
  BY DEF ConvertToLarge
<1>. HIDE DEF v, u
<1>4. Big(u) /\ u.vec = v /\ u.cache = EmptyCache
  BY ONLY <1>2, <1>3, BigIs
<1>5. \A i \in 1..SMALL_SIZE : t.small[i].key # k
  <2>1. SmallIndex(t, k) \notin 1..SMALL_SIZE
    BY EqHashAssumption
  <2>. QED  BY <1>1, <2>1, SmallIndexIs
<1>6. k \notin Held(u.vec)
  BY <1>2, <1>4, <1>5
<1>. QED  BY <1>2, <1>4, <1>6 DEF Agrees, u

-----------------------------------------------------------------------------
(* The invariant.  A small table agrees with what was set.  A large one is   *)
(* in order, and agrees too unless something was unset, or set again in a    *)
(* table that had grown.                                                     *)

Fine(t, m, lost) ==
  /\ m \in [Key -> HashValue \union {NoValue}]
  /\ \/ Little(t, m)
     \/ /\ Big(t) /\ DOMAIN t.vec.heap = Reachable(t)
        /\ lost = {} => Agrees(t, m)

LEMMA InitFine ==
  ASSUME HashInit
  PROVE  Fine(table, map, rewritten)
<1>1. /\ map = [k \in Key |-> NoValue] /\ map \in [Key -> HashValue \union {NoValue}]
      /\ \A k \in Key : map[k] = NoValue
  BY DEF HashInit
<1>2. CASE table = NewTable(FALSE)
  <2>1. table = Small(NoSmall)
    BY <1>2 DEF NewTable
  <2>2. NoSmall \in [1..SMALL_SIZE -> Item] /\ \A i \in 1..SMALL_SIZE : NoSmall[i].key = NoKey
    <3>1. FreeEntry \in Item /\ FreeEntry.key = NoKey
      BY DEF FreeEntry, Entry, Item
    <3>. QED  BY <3>1 DEF NoSmall
  <2>3. SmallAgrees(NoSmall, map)
    BY <1>1, <2>2, EqHashAssumption DEF SmallAgrees
  <2>. QED  BY <1>1, <2>1, <2>3, LittleIs DEF Fine
<1>3. CASE table = NewTable(TRUE)
  <2>. DEFINE v == AllocVector(INITIAL_MASK, <<>>)
  <2>1. table = Large(v, 0, EmptyCache)
    BY <1>3 DEF NewTable
  <2>2. INITIAL_MASK \in Nat \ {0} /\ CACHE_SIZE \in Nat
    BY EqHashAssumption
  <2>3. v \in Vectors(INITIAL_MASK) /\ Moved(<<>>, {}, <<>>, v)
    <3>1. DOMAIN <<>> = {} /\ <<>> \in [{} -> Item]
      OBVIOUS
    <3>2. IsHeap(<<>>, 0)
      BY <3>1, FS_EmptySet DEF IsHeap
    <3>. QED  BY <2>2, <3>2, AllocVectorIs
  <2>4. /\ DOMAIN v.heap = {InPlace(b, INITIAL_MASK) : b \in Buckets(INITIAL_MASK)}
        /\ v.chain = [b \in Buckets(INITIAL_MASK) |-> <<InPlace(b, INITIAL_MASK)>>]
        /\ v.mask = INITIAL_MASK
    BY DEF AllocVector
  <2>. HIDE DEF v
  <2>5. IsVector(v) /\ Placed(v) /\ Once(v) /\ Tight(v) /\ \A k \in Key : \A x : ~Holds(v, k, x)
    BY <2>3, VectorsAre DEF Moved
  <2>6. Held(v) = {}
    BY <2>5 DEF Held, Holds
  <2>7. IsFiniteSet(Held(v)) /\ Cardinality(Held(v)) <= 0
    BY <2>6, FS_EmptySet
  <2>8. EmptyCache \in [0..(CACHE_SIZE - 1) -> Name \union {NoEntry}]
        /\ \A c \in DOMAIN EmptyCache : EmptyCache[c] = NoEntry
    BY DEF EmptyCache
  <2>9. Shaped(v, EmptyCache, 0)
    BY <2>2, <2>4, <2>5, <2>7, <2>8 DEF Shaped
  <2>10. Big(table) /\ table.vec = v /\ table.cache = EmptyCache
    BY <2>1, <2>9, BigIs
  <2>11. Agrees(table, map)
    BY <1>1, <2>5, <2>8, <2>10 DEF Agrees, Synced
  <2>12. DOMAIN v.heap = Reachable(table)
    <3>1. Linked(table) = Links(v)
      BY <2>10 DEF Linked, Links
    <3>2. \A b \in Buckets(INITIAL_MASK) : ToSet(v.chain[b]) = {InPlace(b, INITIAL_MASK)}
      BY <2>4 DEF ToSet
    <3>3. Links(v) = {InPlace(b, INITIAL_MASK) : b \in Buckets(INITIAL_MASK)}
      <4>1. Links(v) = UNION {ToSet(v.chain[b]) : b \in Buckets(INITIAL_MASK)}
        BY <2>4 DEF Links
      <4>2. ASSUME NEW e
            PROVE  e \in Links(v) <=> \E b \in Buckets(INITIAL_MASK) : e = InPlace(b, INITIAL_MASK)
        BY <3>2, <4>1
      <4>. QED  BY <4>2
    <3>4. Reachable(table) = Linked(table)
      BY <2>8, <2>10 DEF Reachable
    <3>. QED  BY <2>4, <3>1, <3>3, <3>4
  <2>. QED  BY <1>1, <2>10, <2>11, <2>12 DEF Fine
<1>. QED  BY <1>2, <1>3 DEF HashInit

\* What the collector leaves is in order.
LEMMA KeptFine ==
  ASSUME NEW t, Big(t), NEW m \in [Key -> HashValue \union {NoValue}], NEW lost,
         lost = {} => Agrees(t, m)
  PROVE  Fine(Kept(t), m, lost)
BY KeptIs DEF Fine

\* A small table has one free entry in its vector.
LEMMA NoVectorIs ==
  /\ NoVector = [mask |-> NoVector.mask, chain |-> NoVector.chain, heap |-> NoVector.heap]
  /\ NoVector.mask = 0 /\ NoVector.chain[0] = <<InPlace(0, 0)>> /\ Buckets(0) = {0}
  /\ DOMAIN NoVector.heap = {InPlace(0, 0)} /\ NoVector.heap[InPlace(0, 0)] = FreeEntry
  /\ NoVector.heap = [e \in DOMAIN NoVector.heap |-> NoVector.heap[e]]
<1>1. Buckets(0) = {0}
  BY DEF Buckets
<1>. DEFINE chain == [b \in Buckets(0) |-> <<InPlace(b, 0)>>]
            heap == [e \in DOMAIN <<>> \union {InPlace(b, 0) : b \in Buckets(0)} |->
                       IF e \in DOMAIN <<>> THEN <<>>[e] ELSE FreeEntry]
<1>2. NoVector = [mask |-> 0, chain |-> chain, heap |-> heap]
  BY DEF NoVector, AllocVector
<1>3. DOMAIN heap = {InPlace(0, 0)} /\ heap[InPlace(0, 0)] = FreeEntry
  BY <1>1
<1>4. heap = [e \in DOMAIN heap |-> heap[e]]
  OBVIOUS
<1>5. chain[0] = <<InPlace(0, 0)>>
  BY <1>1
<1>. HIDE DEF chain, heap
<1>. QED  BY <1>1, <1>2, <1>3, <1>4, <1>5

LEMMA KeptLittle ==
  ASSUME NEW t, NEW m, Little(t, m)
  PROVE  Kept(t) = t
<1>. DEFINE v == t.vec
            reach == Reachable(t)
            h == [e \in (DOMAIN v.heap) \intersect reach |-> v.heap[e]]
<1>1. t = Small(t.small)
  BY DEF Little
<1>2. v = NoVector
  BY <1>1 DEF Small
<1>3. InPlace(0, 0) \in reach
  <2>1. ToSet(v.chain[0]) = {InPlace(0, 0)}
    BY <1>2, NoVectorIs DEF ToSet
  <2>2. InPlace(0, 0) \in Linked(t)
    BY <1>2, <2>1, NoVectorIs DEF Linked
  <2>. QED  BY <2>2 DEF Reachable
<1>4. h = v.heap
  <2>1. (DOMAIN v.heap) \intersect reach = DOMAIN v.heap
    BY <1>2, <1>3, NoVectorIs
  <2>. HIDE DEF v, reach
  <2>. QED  BY <1>2, <2>1, NoVectorIs
<1>5. Kept(t) = [t EXCEPT !.vec = [t.vec EXCEPT !.heap = h]]
  BY DEF Kept
<1>6. [t.vec EXCEPT !.heap = h] = v
  <2>1. t.vec = [mask |-> t.vec.mask, chain |-> t.vec.chain, heap |-> t.vec.heap]
    BY <1>2, NoVectorIs
  <2>. HIDE DEF h
  <2>. QED  BY <1>4, <2>1
<1>7. Kept(t) = [t EXCEPT !.vec = v]
  BY <1>5, <1>6
<1>8. t = [is_large |-> t.is_large, small |-> t.small, vec |-> t.vec, count |-> t.count,
           cache |-> t.cache]
  BY <1>1 DEF Small
<1>. QED  BY <1>7, <1>8

LEMMA LittleFine ==
  ASSUME NEW t, NEW m \in [Key -> HashValue \union {NoValue}], Little(t, m), NEW lost
  PROVE  Fine(t, m, lost)
BY DEF Fine

\* A large table is in order, and no small one is large.
LEMMA LargeFine ==
  ASSUME NEW t, NEW m, NEW lost, Fine(t, m, lost)
  PROVE  /\ m \in [Key -> HashValue \union {NoValue}]
         /\ t.is_large <=> Big(t)
         /\ t.is_large => DOMAIN t.vec.heap = Reachable(t) /\ (lost = {} => Agrees(t, m))
         /\ ~t.is_large => Little(t, m)
<1>1. Little(t, m) => ~t.is_large
  BY DEF Little
<1>2. Big(t) => t.is_large
  BY DEF Big
<1>. QED  BY <1>1, <1>2 DEF Fine

\* A value is given to a key that the table has.
LEMMA AssignFine ==
  ASSUME Fine(table, map, rewritten), NEW k \in Key, NEW v \in HashValue, Assign(k, v), Note(k)
  PROVE  Fine(table', [map EXCEPT ![k] = v], rewritten')
<1>1. [map EXCEPT ![k] = v] \in [Key -> HashValue \union {NoValue}] /\ v # NoValue
  BY LargeFine, EqHashAssumption
<1>2. CASE table.is_large
  <2>1. Big(table) /\ (rewritten = {} => Agrees(table, map))
    BY <1>2, LargeFine
  <2>2. FindEntry(table, k) # NoEntry
    BY <1>2 DEF Assign, Has
  <2>3. table' = Kept(Assigned(table, k, v))
    BY <1>2 DEF Assign, Assigned
  <2>4. /\ Big(Assigned(table, k, v))
        /\ table.vec.mask = INITIAL_MASK /\ Agrees(table, map) =>
             Agrees(Assigned(table, k, v), [map EXCEPT ![k] = v])
    BY <2>1, <2>2, AssignedIs, LargeFine
  <2>5. rewritten' = {} => rewritten = {} /\ table.vec.mask = INITIAL_MASK
    <3>1. table.vec.mask \in Nat /\ INITIAL_MASK \in Nat /\ INITIAL_MASK <= table.vec.mask
      BY <2>1, BigHas, EqHashAssumption DEF Shaped, IsVector
    <3>2. rewritten' = {} => rewritten = {} /\ ~Grown
      BY DEF Note
    <3>. QED  BY <1>2, <3>1, <3>2 DEF Grown
  <2>. QED  BY <1>1, <2>1, <2>3, <2>4, <2>5, KeptFine
<1>3. CASE ~table.is_large
  <2>. DEFINE i == SmallIndex(table, k)
              item == [table.small[i] EXCEPT !.value = v]
  <2>1. Little(table, map) /\ map \in [Key -> HashValue \union {NoValue}]
    BY <1>3, LargeFine
  <2>2. i # 0
    BY <1>3 DEF Assign, Has
  <2>3. /\ i \in 1..SMALL_SIZE
        /\ table.small[i] \in [key : Key, value : HashValue, flags : Nat]
        /\ table.small[i].key = k
        /\ \A j \in 1..SMALL_SIZE : j # i => table.small[j].key # k
    BY <2>1, <2>2, SmallHas
  <2>4. table' = [table EXCEPT !.small = [table.small EXCEPT ![i] = item]]
    BY <1>3 DEF Assign
  <2>. HIDE DEF i
  <2>5. item \in Item /\ item.key = k /\ item.value = v
    BY <2>3 DEF Item
  <2>. HIDE DEF item
  <2>6. Little(table', [map EXCEPT ![k] = v])
    BY <1>1, <2>1, <2>3, <2>4, <2>5, SmallSet
  <2>. QED  BY <1>1, <2>6, LittleFine
<1>. QED  BY <1>2, <1>3

\* A key is put into the table that does not have it.
LEMMA PutFine ==
  ASSUME Fine(table, map, rewritten), NEW k \in Key, NEW v \in HashValue, ~Has(table, k)
  PROVE  Fine(Kept(Put(table, k, v)), [map EXCEPT ![k] = v], rewritten)
<1>1. [map EXCEPT ![k] = v] \in [Key -> HashValue \union {NoValue}] /\ v # NoValue
      /\ map \in [Key -> HashValue \union {NoValue}]
  BY LargeFine, EqHashAssumption
<1>2. CASE table.is_large
  <2>1. Big(table) /\ (rewritten = {} => Agrees(table, map))
    BY <1>2, LargeFine
  <2>2. FindEntry(table, k) = NoEntry
    BY <1>2 DEF Has
  <2>3. k \notin Held(table.vec)
    BY <2>1, <2>2, BigHas, FindEntryIs DEF Held
  <2>4. Put(table, k, v) = PutLarge(table, k, v)
    BY <1>2 DEF Put
  <2>. QED  BY <1>1, <2>1, <2>3, <2>4, PutLargeIs, KeptFine
<1>3. CASE ~table.is_large
  <2>. DEFINE free == SmallIndex(table, NoKey)
  <2>1. Little(table, map) /\ table.small \in [1..SMALL_SIZE -> Item]
    BY <1>3, LargeFine DEF Little, SmallAgrees
  <2>2. SmallIndex(table, k) = 0 /\ \A i \in 1..SMALL_SIZE : table.small[i].key # k
    <3>1. SmallIndex(table, k) = 0
      BY <1>3 DEF Has
    <3>2. SmallIndex(table, k) \notin 1..SMALL_SIZE
      BY <3>1, EqHashAssumption
    <3>. QED  BY <2>1, <3>1, <3>2, SmallIndexIs
  <2>3. Put(table, k, v) =
          IF free = 0 THEN PutLarge(ConvertToLarge(table), k, v)
          ELSE [table EXCEPT !.small[free] = Entry(k, v, @.flags)]
    BY <1>3 DEF Put, SmallIndex
  <2>4. CASE free = 0
    <3>1. /\ Big(ConvertToLarge(table)) /\ Agrees(ConvertToLarge(table), map)
          /\ k \notin Held(ConvertToLarge(table).vec)
      BY <2>1, <2>2, Converted
    <3>2. Big(PutLarge(ConvertToLarge(table), k, v))
          /\ Agrees(PutLarge(ConvertToLarge(table), k, v), [map EXCEPT ![k] = v])
      BY <1>1, <3>1, PutLargeIs
    <3>. QED  BY <1>1, <2>3, <2>4, <3>2, KeptFine
  <2>5. CASE free # 0
    <3>. DEFINE item == Entry(k, v, table.small[free].flags)
                u == [table EXCEPT !.small = [table.small EXCEPT ![free] = item]]
    <3>1. free \in 1..SMALL_SIZE /\ table.small[free].key = NoKey /\ table.small[free] \in Item
      BY <2>1, <2>5, SmallIndexIs
    <3>2. item \in Item /\ item.key = k /\ item.value = v
      <4>1. table.small[free].flags \in Nat
        BY <3>1 DEF Item
      <4>. QED  BY <4>1 DEF Entry, Item
    <3>3. Put(table, k, v) = u
      BY <2>3, <2>5
    <3>. HIDE DEF free, item
    <3>4. Little(u, [map EXCEPT ![k] = v])
      BY <1>1, <2>1, <2>2, <3>1, <3>2, SmallSet
    <3>5. Kept(u) = u
      BY <3>4, KeptLittle
    <3>. QED  BY <1>1, <3>3, <3>4, <3>5, LittleFine
  <2>. QED  BY <2>4, <2>5
<1>. QED  BY <1>2, <1>3

LEMMA FlagsFine ==
  ASSUME Fine(table, map, rewritten), NEW k \in Key, NEW f \in Nat, SetFlags(k, f)
  PROVE  Fine(table', map, rewritten)
<1>1. map \in [Key -> HashValue \union {NoValue}]
  BY LargeFine
<1>2. CASE ~Has(table, k)
  <2>1. table' = table
    BY <1>2 DEF SetFlags
  <2>. QED  BY <2>1
<1>3. CASE Has(table, k) /\ table.is_large
  <2>1. Big(table) /\ (rewritten = {} => Agrees(table, map))
    BY <1>3, LargeFine
  <2>2. FindEntry(table, k) # NoEntry
    BY <1>3 DEF Has
  <2>3. table' = Kept(Flagged(table, k, f))
    BY <1>3 DEF SetFlags, Flagged
  <2>. QED  BY <1>1, <2>1, <2>2, <2>3, FlaggedIs, KeptFine
<1>4. CASE Has(table, k) /\ ~table.is_large
  <2>. DEFINE i == SmallIndex(table, k)
              item == [table.small[i] EXCEPT !.flags = f]
  <2>1. Little(table, map)
    BY <1>4, LargeFine
  <2>2. i # 0
    BY <1>4 DEF Has
  <2>3. /\ i \in 1..SMALL_SIZE
        /\ table.small[i] \in [key : Key, value : HashValue, flags : Nat]
        /\ table.small[i].key = k /\ table.small[i].value = map[k] /\ map[k] # NoValue
        /\ \A j \in 1..SMALL_SIZE : j # i => table.small[j].key # k
    BY <1>1, <2>1, <2>2, SmallHas
  <2>4. table' = [table EXCEPT !.small = [table.small EXCEPT ![i] = item]]
    BY <1>4 DEF SetFlags
  <2>. HIDE DEF i
  <2>5. item \in Item /\ item.key = k /\ item.value = map[k]
    BY <2>3 DEF Item
  <2>. HIDE DEF item
  <2>6. Little(table', [map EXCEPT ![k] = map[k]])
    BY <1>1, <2>1, <2>3, <2>4, <2>5, SmallSet
  <2>7. [map EXCEPT ![k] = map[k]] = map
    BY <1>1
  <2>. QED  BY <1>1, <2>6, <2>7, LittleFine
<1>. QED  BY <1>2, <1>3, <1>4

LEMMA UnsetFine ==
  ASSUME Fine(table, map, rewritten), NEW k \in Key, Unset(k)
  PROVE  Fine(table', [map EXCEPT ![k] = NoValue], rewritten')
<1>1. [map EXCEPT ![k] = NoValue] \in [Key -> HashValue \union {NoValue}]
      /\ map \in [Key -> HashValue \union {NoValue}]
  BY LargeFine
<1>2. CASE table.is_large
  <2>1. Big(DeleteEntry(table, k))
    BY <1>2, LargeFine, DeletedIs
  <2>2. table' = Kept(DeleteEntry(table, k)) /\ rewritten' # {}
    BY <1>2 DEF Unset
  <2>. QED  BY <1>1, <2>1, <2>2, KeptFine
<1>3. CASE ~table.is_large
  <2>. DEFINE i == SmallIndex(table, k)
              item == Entry(NoKey, NoValue, table.small[i].flags)
  <2>1. Little(table, map)
    BY <1>3, LargeFine
  <2>2. CASE i = 0
    <3>1. table' = table
      BY <1>3, <2>2 DEF Unset
    <3>2. map[k] = NoValue
      <4>1. i \notin 1..SMALL_SIZE
        BY <2>2, EqHashAssumption
      <4>. QED  BY <1>1, <2>1, <4>1, SmallHas
    <3>3. [map EXCEPT ![k] = NoValue] = map
      BY <1>1, <3>2
    <3>. QED  BY <1>1, <2>1, <3>1, <3>3, LittleFine
  <2>3. CASE i # 0
    <3>1. /\ i \in 1..SMALL_SIZE
          /\ table.small[i] \in [key : Key, value : HashValue, flags : Nat]
          /\ table.small[i].key = k
          /\ \A j \in 1..SMALL_SIZE : j # i => table.small[j].key # k
      BY <1>1, <2>1, <2>3, SmallHas
    <3>2. table' = [table EXCEPT !.small = [table.small EXCEPT ![i] = item]]
      BY <1>3, <2>3 DEF Unset
    <3>. HIDE DEF i
    <3>3. item \in Item /\ item.key = NoKey
      <4>1. table.small[i].flags \in Nat
        BY <3>1
      <4>. QED  BY <4>1 DEF Entry, Item
    <3>. HIDE DEF item
    <3>4. Little(table', [map EXCEPT ![k] = NoValue])
      BY <1>1, <2>1, <3>1, <3>2, <3>3, SmallSet
    <3>. QED  BY <1>1, <3>4, LittleFine
  <2>. QED  BY <2>2, <2>3
<1>. QED  BY <1>2, <1>3

LEMMA LookupFine ==
  ASSUME Fine(table, map, rewritten), NEW k \in Key, Lookup(k)
  PROVE  Fine(table', map, rewritten)
<1>1. CASE table.is_large
  <2>1. Big(table) /\ (rewritten = {} => Agrees(table, map))
        /\ map \in [Key -> HashValue \union {NoValue}]
    BY <1>1, LargeFine
  <2>2. Big(Cached(table, k)) /\ (rewritten = {} => Agrees(Cached(table, k), map))
    BY <2>1, CachedIs
  <2>3. table' = Kept(Cached(table, k))
    BY <1>1 DEF Lookup
  <2>. QED  BY <2>1, <2>2, <2>3, KeptFine
<1>2. CASE ~table.is_large
  <2>1. table' = table
    BY <1>2 DEF Lookup
  <2>. QED  BY <2>1
<1>. QED  BY <1>1, <1>2

Inv == Fine(table, map, rewritten)

LEMMA StepFine ==
  ASSUME Inv, [HashNext]_hashVars
  PROVE  Inv'
<1>. USE DEF Inv
<1>1. Removed \subseteq Key /\ Varied \subseteq Key
  BY EqHashAssumption
<1>2. ASSUME NEW k \in Key, Lookup(k)
      PROVE  Inv'
  <2>1. map' = map /\ rewritten' = rewritten
    BY <1>2 DEF Lookup
  <2>. QED  BY <1>2, <2>1, LookupFine
<1>3. ASSUME NEW k \in Removed, Unset(k)
      PROVE  Inv'
  <2>1. map' = [map EXCEPT ![k] = NoValue]
    BY <1>3 DEF Unset
  <2>. QED  BY <1>1, <1>3, <2>1, UnsetFine
<1>4. ASSUME NEW k \in Key, NEW v \in HashValue, Set(k, v)
      PROVE  Inv'
  <2>1. map' = [map EXCEPT ![k] = v]
    BY <1>4 DEF Set
  <2>2. CASE Assign(k, v) /\ Note(k)
    BY <2>1, <2>2, AssignFine
  <2>3. CASE ~Has(table, k) /\ table' = Kept(Put(table, k, v)) /\ rewritten' = rewritten
    BY <2>1, <2>3, PutFine
  <2>. QED  BY <1>4, <2>2, <2>3 DEF Set
<1>5. ASSUME NEW k \in Key, NEW v \in HashValue, SetIfExists(k, v)
      PROVE  Inv'
  <2>1. CASE Assign(k, v) /\ Note(k) /\ map' = [map EXCEPT ![k] = v]
    BY <2>1, AssignFine
  <2>2. CASE UNCHANGED hashVars
    BY <2>2 DEF hashVars
  <2>. QED  BY <1>5, <2>1, <2>2 DEF SetIfExists
<1>6. ASSUME NEW k \in Varied, NEW f \in {0, 1}, SetFlags(k, f)
      PROVE  Inv'
  <2>1. map' = map /\ rewritten' = rewritten /\ f \in Nat /\ k \in Key
    BY <1>1, <1>6 DEF SetFlags
  <2>. QED  BY <1>6, <2>1, FlagsFine
<1>7. CASE UNCHANGED hashVars
  BY <1>7 DEF hashVars
<1>. QED  BY <1>2, <1>3, <1>4, <1>5, <1>6, <1>7 DEF HashNext

-----------------------------------------------------------------------------
(* What the invariant says of lookups.                                      *)

\* No more entries are in use than keys are held.
LEMMA UsedIs ==
  ASSUME Big(table)
  PROVE  Cardinality(Used) <= table.count /\ table.count <= table.vec.mask
<1>. DEFINE v == table.vec
            f == [e \in Used |-> v.heap[e].key]
<1>1. Shaped(v, table.cache, table.count) /\ IsVector(v) /\ Once(v)
  BY BigHas DEF Shaped
<1>2. Linked(table) = Links(v)
  BY DEF Linked, Links
<1>3. ASSUME NEW e \in Used
      PROVE  e \in Links(v) /\ v.heap[e].key # NoKey /\ v.heap[e].key \in Held(v)
  <2>1. e \in Links(v) /\ v.heap[e].key # NoKey
    BY <1>2 DEF Used
  <2>2. v.heap[e].key \in Key
    BY <1>1, <2>1, LinkIs DEF Item
  <2>. QED  BY <2>1, <2>2 DEF Held
<1>4. \A d, e \in Used : v.heap[d].key = v.heap[e].key => d = e
  BY <1>1, <1>3 DEF Once
<1>5. f \in Injection(Used, Held(v))
  <2>. HIDE DEF v
  <2>1. f \in [Used -> Held(v)] /\ \A d, e \in Used : f[d] = f[e] => d = e
    BY <1>3, <1>4
  <2>. HIDE DEF f
  <2>. QED  BY <2>1 DEF Injection, IsInjective
<1>6. IsFiniteSet(Held(v)) /\ Cardinality(Held(v)) <= table.count /\ table.count \in Nat
      /\ table.count <= v.mask
  BY <1>1 DEF Shaped
<1>. HIDE DEF f
<1>7. IsFiniteSet(Used) /\ Cardinality(Used) <= Cardinality(Held(v))
  BY <1>5, <1>6, FS_Injection
<1>8. Cardinality(Used) \in Nat /\ Cardinality(Held(v)) \in Nat
  BY <1>6, <1>7, FS_CardinalityType
<1>. QED  BY <1>6, <1>7, <1>8

LEMMA LargeWellFormed ==
  ASSUME Inv, table.is_large
  PROVE  WellFormed
<1>. DEFINE v == table.vec
<1>1. Big(table) /\ DOMAIN v.heap = Reachable(table)
  BY LargeFine DEF Inv
<1>2. IsVector(v) /\ Placed(v) /\ Once(v) /\ Linked(table) = Links(v)
  BY <1>1, BigHas DEF Shaped, Linked, Links
<1>3. \A i \in 1..SMALL_SIZE : table.small[i].key = NoKey
  <2>1. table.small = NoSmall
    BY <1>1 DEF Big
  <2>. QED  BY <2>1 DEF NoSmall, FreeEntry, Entry
<1>4. EachKeyOnce
  BY <1>2, <1>3 DEF EachKeyOnce, Used, Once
<1>5. InItsBucket
  <2>1. ASSUME NEW b \in Buckets(v.mask)
        PROVE  Head(v.chain[b]) = InPlace(b, v.mask)
    BY <1>2 DEF IsVector, IsChain
  <2>2. ASSUME NEW b \in Buckets(v.mask), NEW e \in ToSet(v.chain[b]) \intersect Used
        PROVE  Bucket(v.heap[e].key, v.mask) = b
    BY <1>2 DEF Placed, Used
  <2>. QED  BY <2>1, <2>2 DEF InItsBucket
<1>6. CountCoversEntries
  BY <1>1, UsedIs DEF CountCoversEntries
<1>. QED  BY <1>4, <1>5, <1>6 DEF WellFormed

LEMMA LittleWellFormed ==
  ASSUME Inv, ~table.is_large
  PROVE  WellFormed
<1>1. Little(table, map)
  BY LargeFine DEF Inv
<1>2. table.vec = NoVector
  BY <1>1 DEF Little, Small
<1>3. ToSet(table.vec.chain[0]) = {InPlace(0, 0)}
  BY <1>2, NoVectorIs DEF ToSet
<1>4. Used = {}
  <2>1. Linked(table) = {InPlace(0, 0)}
    BY <1>2, <1>3, NoVectorIs DEF Linked
  <2>2. FreeEntry.key = NoKey
    BY DEF FreeEntry, Entry
  <2>. QED  BY <1>2, <2>1, <2>2, NoVectorIs DEF Used
<1>5. EachKeyOnce
  BY <1>1, <1>4 DEF EachKeyOnce, Little, SmallAgrees
<1>6. InItsBucket
  <2>1. Head(table.vec.chain[0]) = InPlace(0, 0)
    BY <1>2, NoVectorIs
  <2>. QED  BY <1>2, <1>4, <2>1, NoVectorIs DEF InItsBucket
<1>7. CountCoversEntries
  BY DEF CountCoversEntries
<1>. QED  BY <1>5, <1>6, <1>7 DEF WellFormed

LEMMA LookupsAgree ==
  ASSUME Inv, rewritten = {}, NEW k \in Key
  PROVE  Ref(table, k) = map[k]
<1>1. map \in [Key -> HashValue \union {NoValue}]
  BY LargeFine DEF Inv
<1>2. CASE table.is_large
  <2>1. Big(table) /\ Synced(table.vec, table.cache, map)
    BY <1>2, LargeFine DEF Inv, Agrees
  <2>. QED  BY <1>1, <1>2, <2>1, BigHas, RefIs
<1>3. CASE ~table.is_large
  <2>1. Little(table, map)
    BY <1>3, LargeFine DEF Inv
  <2>2. SmallIndex(table, k) \in 1..SMALL_SIZE => SmallIndex(table, k) # 0
    BY EqHashAssumption
  <2>3. Ref(table, k) = IF SmallIndex(table, k) = 0 THEN NoValue
                        ELSE table.small[SmallIndex(table, k)].value
    BY <1>3 DEF Ref, Has
  <2>. QED  BY <1>1, <2>1, <2>2, <2>3, SmallHas
<1>. QED  BY <1>2, <1>3

\* Whatever is set, unset, looked up or given flags, and however often the table
\* grows, a table of any size and with any hash function keeps its shape: no key
\* has two entries, every entry is in the bucket it is looked for in, and there are
\* fewer entries than buckets; and a table in which nothing was unset since it
\* became large, nor set again since it has grown, returns what was last set
\* (dfsch_eqhash_set, put, unset, set_flags, set_if_exists and ref of eqhash.c).
THEOREM TablesAreMaps == HashSpec => []MapUntilRewritten
<1>1. HashInit => Inv
  BY InitFine DEF Inv
<1>2. Inv /\ [HashNext]_hashVars => Inv'
  BY StepFine
<1>3. Inv => MapUntilRewritten
  <2>1. ASSUME Inv
        PROVE  WellFormed
    BY <2>1, LargeWellFormed, LittleWellFormed
  <2>2. ASSUME Inv, rewritten = {}
        PROVE  \A k \in Key : Ref(table, k) = map[k]
    BY <2>2, LookupsAgree
  <2>. QED  BY <2>1, <2>2 DEF MapUntilRewritten
<1>. QED  BY <1>1, <1>2, <1>3, PTL DEF HashSpec
=============================================================================
