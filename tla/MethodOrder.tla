---------------------------- MODULE MethodOrder -----------------------------
(***************************************************************************)
(* Which methods of a generic function apply to arguments and in which     *)
(* order: src/src/generic.c, more_specific_method_p, sort_methods and      *)
(* compute_applicable_methods.                                             *)
(*                                                                         *)
(* A method is a record of its specializers, its qualifier and its         *)
(* function.  Arguments are the sequence of their types.                   *)
(***************************************************************************)
EXTENDS Integers, Sequences, SequencesExt

CONSTANTS
  Matches   \* the pairs of a specializer and a type, or narrower specializer,
            \* that it matches, itself too: dfsch_specializer_matches_type_p

\* The first place in which the specializers of two methods differ, 0 if none.
Differ(a, b) ==
  LET both == {i \in DOMAIN a.spec \intersect DOMAIN b.spec : a.spec[i] # b.spec[i]}
  IN  IF both = {} THEN 0 ELSE CHOOSE i \in both : \A j \in both : i <= j

\* Variant: the longer list is not the more special.
SpecialByFirst(a, b) ==
  LET i == Differ(a, b) IN i = 0 \/ <<b.spec[i], a.spec[i]>> \in Matches

\* ~more_specific_method_p: a goes before b, for the first argument they differ
\* in, or because b has no more specializers than a.  (The function returns
\* the opposite of what its name says.)
Before(a, b) ==
  LET i == Differ(a, b)
  IN  IF i = 0 THEN Len(a.spec) >= Len(b.spec) ELSE <<b.spec[i], a.spec[i]>> \in Matches

\* Two runs of the merge sort become one; the second run goes first if its
\* method goes before.
Merge(p, q) ==
  LET taken[n \in 0..(Len(p) + Len(q))] ==   \* how many of the first n are of p
        IF n = 0 THEN 0
        ELSE LET i == taken[n - 1]
                 j == n - 1 - i
             IN  IF j < Len(q) /\ (i < Len(p) => Before(q[j + 1], p[i + 1])) THEN i ELSE i + 1
  IN  [n \in 1..(Len(p) + Len(q)) |->
         IF taken[n] = taken[n - 1] THEN q[n - taken[n]] ELSE p[taken[n]]]

\* Up to k methods of a list behind the first ones.
Run(list, first, k) ==
  SubSeq(list, first + 1, IF first + k < Len(list) THEN first + k ELSE Len(list))

\* One pass over the list: each two runs of k, the last ones shorter, are merged.
Pass(list, k) ==
  LET merged[n \in 0..Len(list)] ==   \* of the first n pairs of runs
        IF n = 0 THEN <<>>
        ELSE LET first == 2 * k * (n - 1)
             IN  merged[n - 1] \o Merge(Run(list, first, k), Run(list, first + k, k))
  IN  merged[Len(list)]

\* sort_methods: passes over runs of 1, 2, 4 and so on, until one has merged no
\* more than once.
SortMethods(list) ==
  LET passed[n \in 0..Len(list)] ==
        IF n = 0 THEN [list |-> list, k |-> 1]
        ELSE LET last == passed[n - 1]
             IN  IF last.k >= Len(list) THEN last
                 ELSE [list |-> Pass(last.list, last.k), k |-> 2 * last.k]
  IN  passed[Len(list)].list

\* method_applicable_p
Applicable(m, types) ==
  /\ Len(m.spec) <= Len(types)
  /\ \A i \in DOMAIN m.spec : <<m.spec[i], types[i]>> \in Matches

\* The elements at some places of a list, as they are consed, the last one first.
Consed(list, places) ==
  LET consed[n \in 0..Len(list)] ==   \* of the first n
        IF n = 0 THEN <<>>
        ELSE IF n \in places THEN <<list[n]>> \o consed[n - 1] ELSE consed[n - 1]
  IN  consed[Len(list)]

\* compute_applicable_methods
ApplicableMethods(methods, types) ==
  SortMethods(Consed(methods, {i \in DOMAIN methods : Applicable(methods[i], types)}))

\* make_effective_method: the order in which the standard combination calls
\* methods each of which calls the next, the methods around the others first.
Qualified(list, qualifier) == SelectSeq(list, LAMBDA m : m.qual = qualifier)
EffectiveMethod(list) ==
  [around |-> Qualified(list, "around"), before |-> Qualified(list, "before"),
   primary |-> Qualified(list, "primary"), after |-> Reverse(Qualified(list, "after"))]
=============================================================================
