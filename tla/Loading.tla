------------------------------ MODULE Loading -------------------------------
(***************************************************************************)
(* Loading modules, src/src/load.c: require loads a module unless the list *)
(* *load-modules* has it, and the text of a module, like that of a script, *)
(* is read and evaluated form by form in a load operation that restores    *)
(* the package of its thread.  The list is shared by all threads.          *)
(*                                                                         *)
(* The forms that matter are provide, require, in-package, an error that   *)
(* nobody handles, and when-toplevel around one of them.                   *)
(***************************************************************************)
EXTENDS Integers, Sequences, SequencesExt, FiniteSets

CONSTANTS
  Thread,
  Script,       \* the forms of the script of each thread
  Module,
  Text,         \* the forms of each module
  StartPackage  \* the package a thread starts in

VARIABLES
  load_modules,   \* *load-modules*, the last provided first
  operation,      \* of each thread, the load operations, the innermost first
  package,        \* current_package of each thread
  providing,      \* of each thread, what its provide has read, NoList if it is not in one
  failing,        \* the threads that are unwinding from an error
  loads,          \* history: how often each module was begun to be loaded, up to 2
  crossed         \* history: threads crossed in loading or providing

loadVars == <<load_modules, operation, package, providing, failing, loads, crossed>>

NoList == <<"none">>
Toplevel == "script"    \* the name of the operation of a script

Form(do, of) == [do |-> do, of |-> of]

\* Texts are lists of forms, and what they require are modules.
IsText(forms) ==
  /\ forms \in Seq(Range(forms))
  /\ \A form \in Range(forms) :
       /\ form.do = "require" => form.of \in Module
       /\ form.do = "toplevel" => (form.of.do = "require" => form.of.of \in Module)
LoadingAssumption ==
  (\A t \in Thread : IsText(Script[t])) /\ (\A m \in Module : IsText(Text[m]))

Operation(t, name, forms, toplevel) ==
  [name |-> name, forms |-> forms, at |-> 1, saved_package |-> package[t], toplevel |-> toplevel]

LoadInit ==
  /\ load_modules = <<>>
  /\ package = [t \in Thread |-> StartPackage]
  /\ operation = [t \in Thread |->
       <<[name |-> Toplevel, forms |-> Script[t], at |-> 1, saved_package |-> StartPackage,
          toplevel |-> TRUE]>>]
  /\ providing = [t \in Thread |-> NoList]
  /\ failing = {}
  /\ loads = [m \in Module |-> 0]
  /\ crossed = FALSE

-----------------------------------------------------------------------------

Running(t) == operation[t] # <<>> /\ t \notin failing
Top(t) == operation[t][1]
AtForm(t) == Running(t) /\ Top(t).at <= Len(Top(t).forms)

\* What is evaluated for the n-th form of an operation: when-toplevel leaves its
\* body out of a module that is required.
Meant(op, n) ==
  LET form == op.forms[n]
  IN  IF form.do # "toplevel" THEN form
      ELSE IF op.toplevel THEN form.of ELSE Form("skip", 0)
Evaluated(t) == Meant(Top(t), Top(t).at)

Evaluates(t, do) == AtForm(t) /\ Evaluated(t).do = do /\ providing[t] = NoList

Advanced(t) == [operation EXCEPT ![t][1].at = @ + 1]
Advance(t) == operation' = Advanced(t)

Skip(t) ==
  /\ Evaluates(t, "skip")
  /\ Advance(t)
  /\ UNCHANGED <<load_modules, package, providing, failing, loads, crossed>>

SwitchPackage(t) ==
  /\ Evaluates(t, "in")
  /\ package' = [package EXCEPT ![t] = Evaluated(t).of]
  /\ Advance(t)
  /\ UNCHANGED <<load_modules, providing, failing, loads, crossed>>

Fail(t) ==
  /\ Evaluates(t, "fail")
  /\ failing' = failing \union {t}
  /\ UNCHANGED <<load_modules, operation, package, providing, loads, crossed>>

\* Another thread is loading a module and has not provided it.
BeingLoaded(t, m) ==
  \E u \in Thread \ {t} : \E i \in DOMAIN operation[u] :
    operation[u][i].name = m /\ ~Contains(load_modules, m)

\* Variant: require looks for the module it is loading only.
SearchedOne(m) == load_modules # <<>> /\ load_modules[1] = m

Searched(m) == Contains(load_modules, m)

LoadOf(t, m) == Operation(t, m, Text[m], FALSE)

\* Variant: the form is evaluated again when the module has been loaded.
StackedAgain(t, m) == [operation EXCEPT ![t] = <<LoadOf(t, m)>> \o @]

Stacked(t, m) == [Advanced(t) EXCEPT ![t] = <<LoadOf(t, m)>> \o @]

\* dfsch_require, dfsch_load and dfsch_load_source as far as the first form
Require(t) ==
  /\ Evaluates(t, "require")
  /\ LET m == Evaluated(t).of
     IN  IF Searched(m)
         THEN Advance(t) /\ UNCHANGED <<loads, crossed>>
         ELSE /\ operation' = Stacked(t, m)
              /\ loads' = [loads EXCEPT ![m] = IF @ = 2 THEN 2 ELSE @ + 1]
              /\ crossed' = (crossed \/ BeingLoaded(t, m))
  /\ UNCHANGED <<load_modules, package, providing, failing>>

\* dfsch_provide reads the list; a module that is there is an error.
BeginProvide(t) ==
  /\ Evaluates(t, "provide")
  /\ IF Contains(load_modules, Evaluated(t).of)
     THEN failing' = failing \union {t} /\ UNCHANGED providing
     ELSE providing' = [providing EXCEPT ![t] = load_modules] /\ UNCHANGED failing
  /\ UNCHANGED <<load_modules, operation, package, loads, crossed>>

\* It defines the list anew, from what it has read.
EndProvide(t) ==
  /\ providing[t] # NoList
  /\ load_modules' = <<Evaluated(t).of>> \o providing[t]
  /\ crossed' = (crossed \/ load_modules # providing[t])
  /\ providing' = [providing EXCEPT ![t] = NoList]
  /\ Advance(t)
  /\ UNCHANGED <<package, failing, loads>>

\* Variant: the package is restored at the end of the text only.
LeftAtEnd(t) ==
  /\ operation' = [operation EXCEPT ![t] = Tail(@)]
  /\ package' = IF t \in failing THEN package
                ELSE [package EXCEPT ![t] = Top(t).saved_package]

\* The cleanup of the unwind of dfsch_load_source
Left(t) ==
  /\ operation' = [operation EXCEPT ![t] = Tail(@)]
  /\ package' = [package EXCEPT ![t] = Top(t).saved_package]

\* At the end of the text, or while an error unwinds
Leave(t) ==
  /\ operation[t] # <<>>
  /\ t \in failing \/ Top(t).at > Len(Top(t).forms)
  /\ Left(t)
  /\ UNCHANGED <<load_modules, providing, failing, loads, crossed>>

Step(t) ==
  \/ Skip(t) \/ SwitchPackage(t) \/ Fail(t) \/ Require(t)
  \/ BeginProvide(t) \/ EndProvide(t) \/ Leave(t)

LoadNext == \E t \in Thread : Step(t)

LoadSpec == LoadInit /\ [][LoadNext]_loadVars /\ \A t \in Thread : WF_loadVars(Step(t))

-----------------------------------------------------------------------------
(* Properties.                                                             *)

\* The forms by which an operation has set the package, and the last of them.
Settings(op) == {n \in 1..(op.at - 1) : Meant(op, n).do = "in"}
LastSet(op) == Meant(op, CHOOSE n \in Settings(op) : \A k \in Settings(op) : k <= n).of

\* The package of the k-th of some operations: the innermost one from there that
\* has set one says which.
PackageFrom(ops, k) ==
  LET setting == {i \in DOMAIN ops : k <= i /\ Settings(ops[i]) # {}}
  IN  IF setting = {} THEN StartPackage
      ELSE LastSet(ops[CHOOSE i \in setting : \A j \in setting : i <= j])

\* The package a form is read and evaluated in is set by the text it is in:
\* whatever a module that is required does, and whether it ends or fails
\* (load.c, dfsch_load_source).
PackageOfText == \A t \in Thread : package[t] = PackageFrom(operation[t], 1)

\* A module that provides itself before it requires others is loaded once, also
\* if modules require each other, unless two threads load it, or provide, at
\* the same time (load.c, dfsch_require and dfsch_provide).
LoadedOnce ==
  \A m \in Module :
    ~crossed /\ Text[m] # <<>> /\ Text[m][1] = Form("provide", m) => loads[m] <= 1

\* Every script ends, circular requires and threads that lose what the other
\* provides included (load.c, dfsch_require).
ScriptsEnd == <>(\A t \in Thread : operation[t] = <<>>)
=============================================================================
