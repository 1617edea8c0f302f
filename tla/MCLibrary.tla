------------------------------ MODULE MCLibrary ------------------------------
(***************************************************************************)
(* An instance for TLC of what programs are made of beside the evaluator:  *)
(* packages with the tables of their symbols, modules that are loaded,     *)
(* generic functions with the tables that cache their methods, hash tables *)
(* and queues.  A behaviour is one of one of them: which says of which,    *)
(* and the variables of the others stay as they are.                       *)
(***************************************************************************)
EXTENDS
  Package, Loading, GenericFunction, SymbolTable, MKHash, HashTable, PriorityQueue, TLC

VARIABLE which   \* which component a behaviour is one of

allvars == <<which, vars, symbolVars, loadVars, genericVars, mkVars, hashTableVars, queueVars>>

-----------------------------------------------------------------------------
(* Packages: a package that uses two that define the same names, one of    *)
(* them defined twice, and an alias that hides a package.                  *)

MCUses == {<<"user", "a">>, <<"user", "b">>}
MCAliased == {<<"user", "a", "b">>}
MCDefined ==
  { <<"a", <<>>, <<"b">>>>, <<"b", <<"x">>, <<>>>>, <<"a", <<"y">>, <<"b", "user">>>> }

\* Five names, three of which begin their search at one place.
MCSymbolName == 1..5
MCSymbolHash == [n \in MCSymbolName |-> (6 + n * n) % 8]

\* Three modules that require each other, one of which fails, and one that does
\* not provide itself.
Provide(m) == [do |-> "provide", of |-> m]
Requires(m) == [do |-> "require", of |-> m]
In(pkg) == [do |-> "in", of |-> pkg]
OnlyToplevel(form) == [do |-> "toplevel", of |-> form]
MCText ==
  "a" :> <<Provide("a"), Requires("b"), In("pa"), Requires("c")>>
    @@ "b" :> <<Provide("b"), In("pb"), Requires("a"), OnlyToplevel(In("pa"))>>
    @@ "c" :> <<In("pb"), Provide("c"), Requires("d"), [do |-> "fail", of |-> 0]>>
    @@ "d" :> <<In("pa")>>
MCScript ==
  "t1" :> <<In("pb"), Requires("a"), OnlyToplevel(Requires("b"))>>
    @@ "t2" :> <<Requires("b"), In("pa"), Requires("c")>>

\* A class, the one it inherits from, and object; methods of one argument and
\* of two, with one that replaces another and one after the others.
MCMatches ==
  {<<t, t>> : t \in {"cat", "animal", "object"}}
    \union {<<"object", "animal">>, <<"object", "cat">>, <<"animal", "cat">>}
AMethod(spec, qual, f) == [spec |-> spec, qual |-> qual, function |-> f]
MCMethod ==
  { AMethod(<<"object">>, "primary", 1), AMethod(<<"animal">>, "primary", 1),
    AMethod(<<"animal">>, "primary", 2), AMethod(<<"object", "animal">>, "after", 1) }
MCArguments == {<<"cat">>, <<"animal", "cat">>}

\* Keys three of which begin their search at one place of a table of four.
MCTuple == 1..5
MCTupleHash == [k \in MCTuple |-> (k * k) % 3]

\* Keys three of which share a bucket of the initial vector of a hash table and
\* are told apart by larger ones; the other hash of k2 is in another bucket as
\* soon as there are four, and that of k3 never is.
HashKey == {"k1", "k2", "k3", "k4"}
TableHash == "k1" :> 0 @@ "k2" :> 2 @@ "k3" :> 4 @@ "k4" :> 1
OtherHash == "k1" :> 0 @@ "k2" :> 0 @@ "k3" :> 4 @@ "k4" :> 1

-----------------------------------------------------------------------------

\* What the theorems about these assume holds.
ASSUME TypesAndSpecializers == DispatchAssumption
ASSUME TextsAndModules == LoadingAssumption
ASSUME ObjectsAndDegrees == PriorityQueueAssumption

NoLoad ==
  /\ load_modules = <<>> /\ operation = [t \in Thread |-> <<>>]
  /\ package = [t \in Thread |-> StartPackage] /\ providing = [t \in Thread |-> NoList]
  /\ failing = {} /\ loads = [m \in Module |-> 0] /\ crossed = FALSE

LibraryInit ==
  /\ Init /\ GenericInit /\ SymbolInit /\ MKInit /\ HashTableInit /\ QueueInit
  /\ which \in {"packages", "load", "generic", "symbols", "mkhash", "hash", "queue"}
  /\ IF which = "load" THEN LoadInit ELSE NoLoad

Loads(t) ==
  /\ which = "load" /\ Step(t)
  /\ UNCHANGED <<which, vars, symbolVars, genericVars, mkVars, hashTableVars, queueVars>>

LibraryNext ==
  \/ /\ which = "packages" /\ Next
     /\ UNCHANGED <<which, symbolVars, loadVars, genericVars, mkVars, hashTableVars, queueVars>>
  \/ /\ which = "symbols" /\ SymbolNext
     /\ UNCHANGED <<which, vars, loadVars, genericVars, mkVars, hashTableVars, queueVars>>
  \/ \E t \in Thread : Loads(t)
  \/ /\ which = "generic" /\ GenericNext
     /\ UNCHANGED <<which, vars, symbolVars, loadVars, mkVars, hashTableVars, queueVars>>
  \/ /\ which = "mkhash" /\ MKNext
     /\ UNCHANGED <<which, vars, symbolVars, loadVars, genericVars, hashTableVars, queueVars>>
  \/ /\ which = "hash" /\ HashTableNext
     /\ UNCHANGED <<which, vars, symbolVars, loadVars, genericVars, mkVars, queueVars>>
  \/ /\ which = "queue" /\ QueueNext
     /\ UNCHANGED <<which, vars, symbolVars, loadVars, genericVars, mkVars, hashTableVars>>

LibrarySpec ==
  /\ LibraryInit /\ [][LibraryNext]_allvars
  /\ \A t \in Thread : WF_allvars(Loads(t))

=============================================================================
