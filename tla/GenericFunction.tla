--------------------------- MODULE GenericFunction --------------------------
(***************************************************************************)
(* A standard generic function of src/src/generic.c: calls dispatch        *)
(* through a cache that is a MKHash, while methods are added and removed,  *)
(* by other threads or by the code a call runs, as a specializer that is a *)
(* procedure or a method combination.  Nothing is locked but the cache     *)
(* within one lookup or store.                                             *)
(***************************************************************************)
EXTENDS MethodOrder, FiniteSets

CONSTANTS
  Caller,       \* calls that may be going on at once
  Changer,      \* additions and removals that may be going on at once
  Method,       \* the methods added and removed
  Arguments     \* the sequences of types called with

VARIABLES
  methods,            \* the list, the last added first
  longest_spec_list,
  arity,              \* num_keys of dispatch_cache
  cache,              \* a function from keys to what is stored under them
  call,               \* each caller's progress
  change              \* each changer's progress

genericVars == <<methods, longest_spec_list, arity, cache, call, change>>

INVALID == "invalid"    \* the key of an argument that is not there

\* Methods have lists of specializers, and no type of an argument is INVALID.
DispatchAssumption ==
  /\ \A m \in Method : m.spec \in Seq(Range(m.spec))
  /\ \A types \in Arguments : types \in Seq(Range(types)) /\ INVALID \notin Range(types)

NoCall == [pc |-> "idle"]
NoChange == [pc |-> "idle"]

\* The keys of a cache of n keys.
Keys(types, n) == [i \in 1..n |-> IF i <= Len(types) THEN types[i] ELSE INVALID]

GenericInit ==
  /\ methods = <<>>
  /\ longest_spec_list = 0
  /\ arity = 0
  /\ cache = [k \in {} |-> <<>>]
  /\ call = [c \in Caller |-> NoCall]
  /\ change = [h \in Changer |-> NoChange]

-----------------------------------------------------------------------------
(* apply_standard_generic_function                                         *)

\* The array of the keys is made as long as longest_spec_list is now.
BeginCall(c) ==
  /\ call[c].pc = "idle"
  /\ \E types \in Arguments :
       call' = [call EXCEPT ![c] = [pc |-> "fill", types |-> types, size |-> longest_spec_list]]
  /\ UNCHANGED <<methods, longest_spec_list, arity, cache, change>>

\* It is filled as far as longest_spec_list is then: past its end, if that has
\* grown.
FillKeys(c) ==
  /\ call[c].pc = "fill"
  /\ call' = [call EXCEPT ![c] =
       IF longest_spec_list > call[c].size THEN [pc |-> "overrun"]
       ELSE [pc |-> "lookup", types |-> call[c].types, size |-> longest_spec_list]]
  /\ UNCHANGED <<methods, longest_spec_list, arity, cache, change>>

\* dfsch_mkhash_ref takes as many keys as the cache has.
Lookup(c) ==
  /\ call[c].pc = "lookup"
  /\ LET keys == Keys(call[c].types, arity)
     IN  call' = [call EXCEPT ![c] =
           IF arity > call[c].size THEN [pc |-> "overrun"]
           ELSE IF keys \in DOMAIN cache THEN [pc |-> "apply", em |-> cache[keys].em]
           ELSE [@ EXCEPT !.pc = "compute"]]
  /\ UNCHANGED <<methods, longest_spec_list, arity, cache, change>>

\* The methods that apply, and their combination.  late becomes true when the
\* list is changed after that.
Compute(c) ==
  /\ call[c].pc = "compute"
  /\ LET applicable == ApplicableMethods(methods, call[c].types)
     IN  call' = [call EXCEPT ![c] =
           IF applicable = <<>> THEN NoCall   \* "No applicable methods"
           ELSE [pc |-> "store", types |-> @.types, size |-> @.size,
                 em |-> EffectiveMethod(applicable), late |-> FALSE]]
  /\ UNCHANGED <<methods, longest_spec_list, arity, cache, change>>

\* dfsch_mkhash_set
Store(c) ==
  /\ call[c].pc = "store"
  /\ IF arity > call[c].size
     THEN call' = [call EXCEPT ![c] = [pc |-> "overrun"]] /\ UNCHANGED cache
     ELSE /\ LET keys == Keys(call[c].types, arity)
             IN  cache' = [k \in DOMAIN cache \union {keys} |->
                             IF k = keys THEN [em |-> call[c].em, late |-> call[c].late]
                             ELSE cache[k]]
          /\ call' = [call EXCEPT ![c] = [pc |-> "apply", em |-> @.em]]
  /\ UNCHANGED <<methods, longest_spec_list, arity, change>>

Apply(c) ==
  /\ call[c].pc = "apply"
  /\ call' = [call EXCEPT ![c] = NoCall]
  /\ UNCHANGED <<methods, longest_spec_list, arity, cache, change>>

-----------------------------------------------------------------------------
(* Changing the methods.                                                   *)

\* What a call has computed, and has not stored, is of the methods before.
Changed ==
  call' = [c \in Caller |-> IF call[c].pc = "store" THEN [call[c] EXCEPT !.late = TRUE]
                            ELSE call[c]]

Going(h, pc, m) == change' = [change EXCEPT ![h] = [pc |-> pc, method |-> m]]

\* standard_generic_function_add_method grows longest_spec_list first.
BeginAdd(h) ==
  /\ change[h].pc = "idle"
  /\ \E m \in Method :
       /\ Going(h, "add", m)
       /\ longest_spec_list' = IF Len(m.spec) > longest_spec_list THEN Len(m.spec)
                               ELSE longest_spec_list
  /\ UNCHANGED <<methods, arity, cache, call>>

\* A method with the same specializers and qualifier is replaced.
Replaced(m) == {i \in DOMAIN methods : methods[i].spec = m.spec /\ methods[i].qual = m.qual}

AddMethod(h) ==
  /\ change[h].pc = "add"
  /\ LET m == change[h].method
     IN  /\ methods' = IF Replaced(m) = {} THEN <<m>> \o methods
                       ELSE [i \in DOMAIN methods |-> IF i \in Replaced(m) THEN m ELSE methods[i]]
         /\ Going(h, "reset", m)
  /\ Changed
  /\ UNCHANGED <<longest_spec_list, arity, cache>>

\* standard_generic_function_remove_method; longest_spec_list stays.
RemoveMethod(h) ==
  /\ change[h].pc = "idle"
  /\ \E i \in DOMAIN methods :
       /\ methods' = RemoveAt(methods, i)
       /\ Going(h, "reset", methods[i])
  /\ Changed
  /\ UNCHANGED <<longest_spec_list, arity, cache>>

\* Variant: a cache of the right arity is kept.
ResetArity(h) ==
  /\ change[h].pc = "reset"
  /\ arity' = longest_spec_list
  /\ cache' = IF arity = longest_spec_list THEN cache ELSE [k \in {} |-> <<>>]
  /\ change' = [change EXCEPT ![h] = NoChange]
  /\ UNCHANGED <<methods, longest_spec_list, call>>

\* dfsch_mkhash_reset
ResetCache(h) ==
  /\ change[h].pc = "reset"
  /\ arity' = longest_spec_list
  /\ cache' = [k \in {} |-> <<>>]
  /\ change' = [change EXCEPT ![h] = NoChange]
  /\ UNCHANGED <<methods, longest_spec_list, call>>

GenericNext ==
  \/ \E c \in Caller :
       BeginCall(c) \/ FillKeys(c) \/ Lookup(c) \/ Compute(c) \/ Store(c) \/ Apply(c)
  \/ \E h \in Changer : BeginAdd(h) \/ AddMethod(h) \/ RemoveMethod(h) \/ ResetCache(h)

GenericSpec == GenericInit /\ [][GenericNext]_genericVars

-----------------------------------------------------------------------------
(* Properties.                                                             *)

\* The arguments that have certain keys.
Having(keys) == {types \in Arguments : Keys(types, arity) = keys}

\* What the cache answers is what dispatch would compute, unless a change of
\* the methods has yet to reset the cache, or the answer was stored by a call
\* that had computed it before a change: that one stays until the next change
\* (generic.c, apply_standard_generic_function).
CacheAgrees ==
  (\A h \in Changer : change[h].pc # "reset") =>
    \A keys \in DOMAIN cache :
      cache[keys].late \/ \A types \in Having(keys) :
        cache[keys].em = EffectiveMethod(ApplicableMethods(methods, types))

\* A specializer is strictly narrower than another.
Narrower(s, t) == <<t, s>> \in Matches /\ <<s, t>> \notin Matches
Related(s, t) == <<t, s>> \in Matches \/ <<s, t>> \in Matches

\* a is more special than b: narrower in the first argument they differ in, or
\* about more arguments.
Special(a, b) ==
  LET common == {n \in 0..Len(a.spec) : n <= Len(b.spec) /\ \A i \in 1..n : a.spec[i] = b.spec[i]}
      i == 1 + CHOOSE n \in common : \A m \in common : m <= n
  IN  IF i > Len(a.spec) \/ i > Len(b.spec) THEN Len(a.spec) > Len(b.spec)
      ELSE Narrower(a.spec[i], b.spec[i])

Specializers(list, i) == {list[j].spec[i] : j \in {k \in DOMAIN list : i <= Len(list[k].spec)}}

\* Specializers are in a line, as classes are that have no roles.
InLine(set) ==
  \A s, t \in set : /\ Related(s, t)
                    /\ s # t => <<s, t>> \notin Matches \/ <<t, s>> \notin Matches
                    /\ \A u \in set : <<s, t>> \in Matches /\ <<t, u>> \in Matches =>
                                        <<s, u>> \in Matches

\* The methods that apply are sorted from the most special one to the least,
\* however many passes their number takes, if the specializers of each argument
\* are in a line (generic.c, sort_methods and more_specific_method_p).
MostSpecialFirst ==
  \A types \in Arguments :
    LET list == ApplicableMethods(methods, types)
    IN  (\A k \in DOMAIN types : InLine(Specializers(list, k))) =>
          \A i, j \in DOMAIN list : i < j => ~Special(list[j], list[i])
=============================================================================
