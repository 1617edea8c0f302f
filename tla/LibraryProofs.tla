---------------------------- MODULE LibraryProofs -----------------------------
(***************************************************************************)
(* Proofs about Loading, GenericFunction, PriorityQueue and CipherModes.   *)
(* Forms are read and evaluated in the package that their own text has     *)
(* set, and a module that provides itself first is loaded once, for any    *)
(* threads, scripts and modules, however they require each other. What the *)
(* cache of a generic function answers, once the changes of the methods    *)
(* are over, is what dispatch would compute, but for what a call has       *)
(* stored that was overtaken by a change, for any methods, types and       *)
(* specializers, and any number of calls and of changes at once. The       *)
(* methods that apply to arguments are sorted from the most special to the *)
(* least, for any number of them. A queue gives the least of the objects   *)
(* in it, each of them once, for any objects and priorities. What is       *)
(* decrypted of a text is the text, in every block mode, for any cipher    *)
(* and however it is cut on either side.                                   *)
(***************************************************************************)
EXTENDS
  Loading, GenericFunction, PriorityQueue, CipherModes, SequenceTheorems, FiniteSetTheorems,
  WellFoundedInduction, TLAPS

\* The forms of all texts, what they name, and the load operations of threads.
Forms ==
  (UNION {Range(Text[m]) : m \in Module}) \union (UNION {Range(Script[t]) : t \in Thread})
Named == {f.of : f \in Forms} \union {f.of.of : f \in Forms} \union {StartPackage}
Load ==
  [name : Module \union {Toplevel}, forms : Seq(Forms), at : Nat \ {0}, saved_package : Named,
   toplevel : BOOLEAN]

-----------------------------------------------------------------------------
(* The package of some operations.                                         *)

Setting(ops, k) == {i \in DOMAIN ops : k <= i /\ Settings(ops[i]) # {}}
Least(set) == CHOOSE i \in set : \A j \in set : i <= j

\* A set of natural numbers has a least element.
LEMMA LeastIs ==
  ASSUME NEW set \in SUBSET Nat, set # {}
  PROVE  Least(set) \in set /\ \A j \in set : Least(set) <= j
<1>1. PICK k \in set : \A j \in set : ~(<<j, k>> \in OpToRel(<, Nat))
  BY NatLessThanWellFounded, WFMin, Zenon
<1>2. OpToRel(<, Nat) = {ss \in Nat \X Nat : ss[1] < ss[2]}
  BY DEF OpToRel
<1>3. \A j \in set : k <= j
  <2>1. SUFFICES ASSUME NEW j \in set, ~(k <= j)  PROVE FALSE
    OBVIOUS
  <2>2. <<j, k>> \in {ss \in Nat \X Nat : ss[1] < ss[2]}
    BY <2>1
  <2>. QED  BY <1>1, <1>2, <2>2
<1>. QED  BY <1>3, Zenon DEF Least

\* No other element is.
LEMMA LeastUnique ==
  ASSUME NEW set \in SUBSET Nat, NEW i \in set, \A j \in set : i <= j
  PROVE  Least(set) = i
<1>1. Least(set) \in Nat /\ i \in Nat /\ Least(set) <= i /\ i <= Least(set)
  BY LeastIs
<1>. QED  BY <1>1

LEMMA PackageFromIs ==
  ASSUME NEW ops, NEW k
  PROVE  PackageFrom(ops, k) = IF Setting(ops, k) = {} THEN StartPackage
                               ELSE LastSet(ops[Least(Setting(ops, k))])
BY DEF PackageFrom, Setting, Least

\* An operation that has set a package says which for those that it requires.
LEMMA PackageHere ==
  ASSUME NEW ops \in Seq(Load), NEW k \in 1..Len(ops)
  PROVE  PackageFrom(ops, k) = IF Settings(ops[k]) # {} THEN LastSet(ops[k])
                               ELSE PackageFrom(ops, k + 1)
<1>1. Setting(ops, k) \in SUBSET Nat /\ DOMAIN ops = 1..Len(ops)
  BY DEF Setting
<1>2. CASE Settings(ops[k]) # {}
  <2>1. k \in Setting(ops, k) /\ \A j \in Setting(ops, k) : k <= j
    BY <1>1, <1>2 DEF Setting
  <2>2. Least(Setting(ops, k)) = k
    BY <1>1, <2>1, LeastUnique
  <2>. QED  BY <1>2, <2>1, <2>2, PackageFromIs
<1>3. CASE Settings(ops[k]) = {}
  <2>1. Setting(ops, k) = Setting(ops, k + 1)
    BY <1>1, <1>3 DEF Setting
  <2>. QED  BY <1>3, <2>1, PackageFromIs
<1>. QED  BY <1>2, <1>3

\* It does not depend on the operations further in.
LEMMA PackageSame ==
  ASSUME NEW ops \in Seq(Load), NEW others \in Seq(Load), Len(ops) = Len(others),
         NEW k \in Nat, \A i \in 1..Len(ops) : k <= i => ops[i] = others[i]
  PROVE  PackageFrom(ops, k) = PackageFrom(others, k)
<1>1. Setting(ops, k) = Setting(others, k) /\ Setting(ops, k) \in SUBSET Nat
  BY DEF Setting
<1>2. CASE Setting(ops, k) = {}
  BY <1>1, <1>2, PackageFromIs
<1>3. CASE Setting(ops, k) # {}
  <2>1. Least(Setting(ops, k)) \in Setting(ops, k)
    BY <1>1, <1>3, LeastIs
  <2>2. ops[Least(Setting(ops, k))] = others[Least(Setting(ops, k))]
    BY <2>1 DEF Setting
  <2>. QED  BY <1>1, <1>3, <2>2, PackageFromIs
<1>. QED  BY <1>2, <1>3

\* Nor on how many there are.
LEMMA PackageTail ==
  ASSUME NEW ops \in Seq(Load), ops # <<>>, NEW k \in Nat \ {0}
  PROVE  PackageFrom(Tail(ops), k) = PackageFrom(ops, k + 1)
<1>. DEFINE inner == Setting(ops, k + 1)
            outer == Setting(Tail(ops), k)
<1>1. /\ Tail(ops) \in Seq(Load) /\ Len(Tail(ops)) = Len(ops) - 1 /\ Len(ops) \in Nat \ {0}
      /\ \A i \in 1..(Len(ops) - 1) : Tail(ops)[i] = ops[i + 1]
  OBVIOUS
<1>2. /\ inner \in SUBSET Nat /\ outer \in SUBSET Nat
      /\ \A i \in outer : i \in 1..(Len(ops) - 1) /\ i + 1 \in inner
      /\ \A i \in inner : i - 1 \in outer
  <2>1. \A i \in outer : i \in 1..(Len(ops) - 1) /\ k <= i /\ Settings(ops[i + 1]) # {}
    BY <1>1 DEF Setting
  <2>2. \A i \in inner : i \in 1..Len(ops) /\ k + 1 <= i /\ Settings(ops[i]) # {}
    BY DEF Setting
  <2>3. \A i \in outer : i + 1 \in inner
    BY <1>1, <2>1 DEF Setting
  <2>4. \A i \in inner : i - 1 \in outer
    <3>1. SUFFICES ASSUME NEW i \in inner  PROVE i - 1 \in outer
      OBVIOUS
    <3>2. i - 1 \in 1..(Len(ops) - 1) /\ (i - 1) + 1 = i /\ k <= i - 1
      BY <1>1, <2>2
    <3>. QED  BY <1>1, <2>2, <3>2 DEF Setting
  <2>. QED  BY <2>1, <2>2, <2>3, <2>4
<1>3. CASE outer = {}
  BY <1>2, <1>3, PackageFromIs
<1>4. CASE outer # {}
  <2>1. PICK i \in outer : i = Least(outer) /\ \A j \in outer : i <= j
    BY <1>2, <1>4, LeastIs
  <2>2. i + 1 \in inner /\ \A j \in inner : i + 1 <= j
    BY <1>2, <2>1
  <2>3. Least(inner) = i + 1
    BY <1>2, <2>2, LeastUnique
  <2>4. Tail(ops)[i] = ops[i + 1]
    BY <1>1, <1>2, <2>1
  <2>5. PackageFrom(Tail(ops), k) = LastSet(Tail(ops)[i])
    BY <1>4, <2>1, PackageFromIs
  <2>6. PackageFrom(ops, k + 1) = LastSet(ops[i + 1])
    BY <2>2, <2>3, PackageFromIs
  <2>. QED  BY <2>4, <2>5, <2>6
<1>. QED  BY <1>3, <1>4

\* The next form of the innermost operation.
Next1(ops) == [ops EXCEPT ![1].at = @ + 1]
Form1(ops) == Meant(ops[1], ops[1].at)

LEMMA NextIs ==
  ASSUME NEW ops \in Seq(Load), ops # <<>>
  PROVE  /\ Next1(ops) \in Seq(Load) /\ Len(Next1(ops)) = Len(ops) /\ Next1(ops) # <<>>
         /\ Next1(ops)[1] = [ops[1] EXCEPT !.at = @ + 1] /\ ops[1] \in Load
         /\ Next1(ops)[1].forms = ops[1].forms /\ Next1(ops)[1].toplevel = ops[1].toplevel
         /\ Next1(ops)[1].at = ops[1].at + 1
         /\ \A i \in 2..Len(ops) : Next1(ops)[i] = ops[i]
         /\ \A i \in 1..Len(ops) : Next1(ops)[i].saved_package = ops[i].saved_package
<1>1. ops[1] \in Load /\ 1 \in 1..Len(ops) /\ ops \in [1..Len(ops) -> Load] /\ Len(ops) \in Nat
  OBVIOUS
<1>2. [ops[1] EXCEPT !.at = @ + 1] \in Load
  <2>1. PICK op \in Load : op = ops[1]
    BY <1>1
  <2>2. op.at + 1 \in Nat \ {0}
    BY DEF Load
  <2>3. [op EXCEPT !.at = op.at + 1] \in Load
    BY <2>2 DEF Load
  <2>. QED  BY <2>1, <2>3
<1>3. Next1(ops) = [ops EXCEPT ![1] = [ops[1] EXCEPT !.at = @ + 1]]
  BY <1>1 DEF Next1
<1>4. Next1(ops) \in Seq(Load) /\ Len(Next1(ops)) = Len(ops)
  BY <1>1, <1>2, <1>3
<1>5. Next1(ops)[1] = [ops[1] EXCEPT !.at = @ + 1]
  BY <1>1, <1>3
<1>6. \A i \in 2..Len(ops) : Next1(ops)[i] = ops[i]
  BY <1>1, <1>3
<1>7. /\ Next1(ops)[1].forms = ops[1].forms /\ Next1(ops)[1].toplevel = ops[1].toplevel
      /\ Next1(ops)[1].at = ops[1].at + 1 /\ Next1(ops)[1].saved_package = ops[1].saved_package
  BY <1>1, <1>5 DEF Load
<1>8. \A i \in 1..Len(ops) : Next1(ops)[i].saved_package = ops[i].saved_package
  <2>1. SUFFICES ASSUME NEW i \in 1..Len(ops)
                 PROVE  Next1(ops)[i].saved_package = ops[i].saved_package
    OBVIOUS
  <2>2. i = 1 \/ i \in 2..Len(ops)
    BY <1>1
  <2>. QED  BY <1>6, <1>7, <2>2
<1>9. Next1(ops) # <<>>
  BY <1>1, <1>4
<1>10. /\ Next1(ops) \in Seq(Load) /\ Len(Next1(ops)) = Len(ops) /\ Next1(ops) # <<>>
       /\ Next1(ops)[1] = [ops[1] EXCEPT !.at = @ + 1] /\ ops[1] \in Load
  BY <1>1, <1>4, <1>5, <1>9
<1>. QED  BY <1>6, <1>7, <1>8, <1>10

LEMMA NextSettings ==
  ASSUME NEW ops \in Seq(Load), ops # <<>>
  PROVE  /\ Form1(ops).do # "in" => /\ Settings(Next1(ops)[1]) = Settings(ops[1])
                                    /\ LastSet(Next1(ops)[1]) = LastSet(ops[1])
         /\ Form1(ops).do = "in" => /\ Settings(Next1(ops)[1]) # {}
                                    /\ LastSet(Next1(ops)[1]) = Form1(ops).of
<1>. DEFINE op == ops[1]
            succ == Next1(ops)[1]
<1>1. /\ succ.forms = op.forms /\ succ.toplevel = op.toplevel /\ succ.at = op.at + 1
      /\ op.at \in Nat \ {0}
  BY NextIs DEF Load
<1>2. \A n : Meant(succ, n) = Meant(op, n)
  BY <1>1 DEF Meant
<1>3. Settings(succ) = {n \in 1..op.at : Meant(op, n).do = "in"}
  BY <1>1, <1>2 DEF Settings
<1>4. Settings(op) = {n \in 1..(op.at - 1) : Meant(op, n).do = "in"}
  BY DEF Settings
<1>5. CASE Form1(ops).do # "in"
  <2>1. Settings(succ) = Settings(op)
    BY <1>1, <1>3, <1>4, <1>5 DEF Form1
  <2>2. LastSet(succ) = LastSet(op)
    BY <1>2, <2>1 DEF LastSet
  <2>. QED  BY <1>5, <2>1, <2>2
<1>6. CASE Form1(ops).do = "in"
  <2>1. op.at \in Settings(succ) /\ \A k \in Settings(succ) : k \in Nat /\ k <= op.at
    BY <1>1, <1>3, <1>6 DEF Form1
  <2>2. (CHOOSE n \in Settings(succ) : \A k \in Settings(succ) : k <= n) = op.at
    <3>1. \A n \in Settings(succ) : (\A k \in Settings(succ) : k <= n) => n = op.at
      BY <1>1, <2>1
    <3>. QED  BY <2>1, <3>1
  <2>3. LastSet(succ) = Meant(op, op.at).of
    BY <1>2, <2>2 DEF LastSet
  <2>. QED  BY <1>6, <2>1, <2>3 DEF Form1
<1>. QED  BY <1>5, <1>6

\* A thread has the package its operations have set, and each of them has saved the
\* one that those it is within have set.
InPackages(ops, pkg) ==
  /\ pkg = PackageFrom(ops, 1)
  /\ \A i \in 1..Len(ops) : ops[i].saved_package = PackageFrom(ops, i + 1)

LEMMA NextInPackages ==
  ASSUME NEW ops \in Seq(Load), ops # <<>>, NEW pkg, InPackages(ops, pkg)
  PROVE  /\ Form1(ops).do # "in" => InPackages(Next1(ops), pkg)
         /\ Form1(ops).do = "in" => InPackages(Next1(ops), Form1(ops).of)
<1>. DEFINE succ == Next1(ops)
<1>1. /\ succ \in Seq(Load) /\ Len(succ) = Len(ops) /\ Len(ops) \in Nat /\ 1 \in 1..Len(ops)
      /\ \A i \in 2..Len(ops) : succ[i] = ops[i]
      /\ \A i \in 1..Len(ops) : succ[i].saved_package = ops[i].saved_package
  <2>1. Len(ops) \in Nat /\ 1 \in 1..Len(ops)
    OBVIOUS
  <2>2. /\ succ \in Seq(Load) /\ Len(succ) = Len(ops)
        /\ \A i \in 2..Len(ops) : succ[i] = ops[i]
    BY NextIs
  <2>3. \A i \in 1..Len(ops) : succ[i].saved_package = ops[i].saved_package
    BY NextIs
  <2>. QED  BY <2>1, <2>2, <2>3
<1>. HIDE DEF succ
<1>2. ASSUME NEW k \in Nat, 2 <= k  PROVE PackageFrom(succ, k) = PackageFrom(ops, k)
  <2>1. \A i \in 1..Len(succ) : k <= i => succ[i] = ops[i]
    BY <1>1, <1>2
  <2>. QED  BY <1>1, <2>1, PackageSame
<1>3. \A i \in 1..Len(succ) : succ[i].saved_package = PackageFrom(succ, i + 1)
  <2>1. SUFFICES ASSUME NEW i \in 1..Len(ops)
                 PROVE  succ[i].saved_package = PackageFrom(succ, i + 1)
    BY <1>1
  <2>2. i + 1 \in Nat /\ 2 <= i + 1
    BY <1>1
  <2>3. PackageFrom(succ, i + 1) = PackageFrom(ops, i + 1)
    BY <1>2, <2>2
  <2>. QED  BY <1>1, <2>3 DEF InPackages
<1>4. PackageFrom(succ, 1) = IF Settings(succ[1]) # {} THEN LastSet(succ[1])
                             ELSE PackageFrom(ops, 2)
  <2>1. PackageFrom(succ, 1) = IF Settings(succ[1]) # {} THEN LastSet(succ[1])
                               ELSE PackageFrom(succ, 1 + 1)
    BY <1>1, PackageHere
  <2>. QED  BY <1>2, <2>1
<1>5. pkg = IF Settings(ops[1]) # {} THEN LastSet(ops[1]) ELSE PackageFrom(ops, 2)
  <2>1. PackageFrom(ops, 1) = IF Settings(ops[1]) # {} THEN LastSet(ops[1])
                              ELSE PackageFrom(ops, 1 + 1)
    BY <1>1, PackageHere
  <2>. QED  BY <2>1 DEF InPackages
<1>6. ASSUME Form1(ops).do # "in"  PROVE InPackages(succ, pkg)
  BY <1>3, <1>4, <1>5, <1>6, NextSettings DEF InPackages, succ
<1>7. ASSUME Form1(ops).do = "in"  PROVE InPackages(succ, Form1(ops).of)
  BY <1>3, <1>4, <1>7, NextSettings DEF InPackages, succ
<1>. QED  BY <1>6, <1>7 DEF succ

LEMMA TailInPackages ==
  ASSUME NEW ops \in Seq(Load), ops # <<>>, NEW pkg, InPackages(ops, pkg)
  PROVE  InPackages(Tail(ops), ops[1].saved_package)
<1>1. /\ Len(Tail(ops)) = Len(ops) - 1 /\ Len(ops) \in Nat \ {0}
      /\ \A i \in 1..(Len(ops) - 1) : Tail(ops)[i] = ops[i + 1]
  OBVIOUS
<1>2. ops[1].saved_package = PackageFrom(Tail(ops), 1)
  <2>1. ops[1].saved_package = PackageFrom(ops, 1 + 1)
    BY <1>1 DEF InPackages
  <2>2. PackageFrom(Tail(ops), 1) = PackageFrom(ops, 1 + 1)
    BY PackageTail
  <2>. QED  BY <2>1, <2>2
<1>3. \A i \in 1..Len(Tail(ops)) : Tail(ops)[i].saved_package = PackageFrom(Tail(ops), i + 1)
  <2>1. SUFFICES ASSUME NEW i \in 1..(Len(ops) - 1)
                 PROVE  ops[i + 1].saved_package = PackageFrom(Tail(ops), i + 1)
    BY <1>1
  <2>2. i + 1 \in Nat \ {0} /\ i + 1 \in 1..Len(ops)
    BY <1>1
  <2>3. PackageFrom(Tail(ops), i + 1) = PackageFrom(ops, (i + 1) + 1)
    BY <2>2, PackageTail
  <2>. QED  BY <2>2, <2>3 DEF InPackages
<1>. QED  BY <1>2, <1>3 DEF InPackages

LEMMA PushInPackages ==
  ASSUME NEW ops \in Seq(Load), NEW pkg, InPackages(ops, pkg),
         NEW op \in Load, op.at = 1, op.saved_package = pkg
  PROVE  InPackages(<<op>> \o ops, pkg)
<1>. DEFINE all == <<op>> \o ops
<1>1. /\ all \in Seq(Load) /\ all # <<>> /\ Tail(all) = ops /\ Len(all) = Len(ops) + 1
      /\ Len(ops) \in Nat /\ all[1] = op /\ \A i \in 1..Len(ops) : all[i + 1] = ops[i]
  OBVIOUS
<1>. HIDE DEF all
<1>2. \A k \in Nat \ {0} : PackageFrom(all, k + 1) = PackageFrom(ops, k)
  BY <1>1, PackageTail
<1>3. PackageFrom(all, 1) = pkg
  <2>1. Settings(all[1]) = {}
    BY <1>1 DEF Settings
  <2>2. PackageFrom(all, 1) = PackageFrom(all, 1 + 1)
    BY <1>1, <2>1, PackageHere
  <2>. QED  BY <1>2, <2>2 DEF InPackages
<1>4. \A i \in 1..Len(all) : all[i].saved_package = PackageFrom(all, i + 1)
  <2>1. SUFFICES ASSUME NEW i \in 1..Len(all)
                 PROVE  all[i].saved_package = PackageFrom(all, i + 1)
    OBVIOUS
  <2>2. CASE i = 1
    BY <1>1, <1>2, <2>2 DEF InPackages
  <2>3. CASE i # 1
    <3>1. i - 1 \in 1..Len(ops) /\ (i - 1) + 1 = i /\ i \in Nat \ {0}
      BY <1>1, <2>3
    <3>2. all[i] = ops[i - 1]
      BY <1>1, <3>1
    <3>3. ops[i - 1].saved_package = PackageFrom(ops, (i - 1) + 1)
      BY <3>1 DEF InPackages
    <3>. QED  BY <1>2, <3>1, <3>2, <3>3
  <2>. QED  BY <2>2, <2>3
<1>. QED  BY <1>3, <1>4 DEF InPackages, all

-----------------------------------------------------------------------------
(* The invariant.                                                          *)

Types ==
  /\ load_modules \in Seq(Named)
  /\ operation \in [Thread -> Seq(Load)]
  /\ package \in [Thread -> Named]
  /\ providing \in [Thread -> Seq(Named) \union {NoList}]
  /\ failing \subseteq Thread
  /\ loads \in [Module -> 0..2]
  /\ crossed \in BOOLEAN

Within == \A t \in Thread : InPackages(operation[t], package[t])

\* A thread that has read the list is at a provide.
Providing ==
  \A t \in Thread : providing[t] # NoList => AtForm(t) /\ Evaluated(t).do = "provide"

\* A thread is at the first form of a module's text.
Starting(t, m) ==
  /\ operation[t] # <<>> /\ t \notin failing
  /\ Top(t).name = m /\ Top(t).forms = Text[m] /\ Top(t).at = 1

\* A module that provides itself first has been provided or is just about to be, if it
\* was loaded.
ProvidesFirst(m) == Text[m] # <<>> /\ Text[m][1] = Form("provide", m)
Once(m) ==
  ~crossed /\ ProvidesFirst(m) =>
    \/ loads[m] = 0
    \/ loads[m] = 1 /\ (Contains(load_modules, m) \/ \E t \in Thread : Starting(t, m))
OnceEach == \A m \in Module : Once(m)

IInv == Types /\ Within /\ Providing /\ OnceEach

-----------------------------------------------------------------------------
(* The forms.                                                              *)

LEMMA TextsTyped ==
  ASSUME LoadingAssumption
  PROVE  /\ \A m \in Module : Text[m] \in Seq(Forms)
         /\ \A t \in Thread : Script[t] \in Seq(Forms)
<1>1. ASSUME NEW forms, IsText(forms), Range(forms) \subseteq Forms
      PROVE  forms \in Seq(Forms)
  <2>1. forms \in Seq(Range(forms))
    BY <1>1 DEF IsText
  <2>. QED  BY <1>1, <2>1
<1>2. \A m \in Module : IsText(Text[m]) /\ Range(Text[m]) \subseteq Forms
  BY DEF LoadingAssumption, Forms
<1>3. \A t \in Thread : IsText(Script[t]) /\ Range(Script[t]) \subseteq Forms
  BY DEF LoadingAssumption, Forms
<1>. QED  BY <1>1, <1>2, <1>3

LEMMA FormsMean ==
  ASSUME LoadingAssumption, NEW op \in Load, NEW n \in 1..Len(op.forms)
  PROVE  /\ Meant(op, n).do # "skip" => Meant(op, n).of \in Named
         /\ Meant(op, n).do = "require" => Meant(op, n).of \in Module
<1>1. PICK form \in Forms : form = op.forms[n]
  BY DEF Load
<1>2. /\ form.do = "require" => form.of \in Module
      /\ form.do = "toplevel" => (form.of.do = "require" => form.of.of \in Module)
  <2>1. CASE \E m \in Module : form \in Range(Text[m])
    BY <2>1 DEF LoadingAssumption, IsText
  <2>2. CASE \E t \in Thread : form \in Range(Script[t])
    BY <2>2 DEF LoadingAssumption, IsText
  <2>. QED  BY <2>1, <2>2 DEF Forms
<1>3. form.of \in Named /\ form.of.of \in Named
  BY DEF Named
<1>4. CASE form.do # "toplevel"
  <2>1. Meant(op, n) = form
    BY <1>1, <1>4 DEF Meant
  <2>. QED  BY <1>2, <1>3, <2>1
<1>5. CASE form.do = "toplevel" /\ op.toplevel
  <2>1. Meant(op, n) = form.of
    BY <1>1, <1>5 DEF Meant
  <2>. QED  BY <1>2, <1>3, <1>5, <2>1
<1>6. CASE form.do = "toplevel" /\ ~op.toplevel
  <2>1. Meant(op, n).do = "skip"
    BY <1>1, <1>6 DEF Meant, Form
  <2>. QED  BY <2>1
<1>. QED  BY <1>4, <1>5, <1>6

\* A thread at a form.
LEMMA EvaluatedIs ==
  ASSUME LoadingAssumption, Types, NEW t \in Thread, AtForm(t)
  PROVE  /\ operation[t] \in Seq(Load) /\ operation[t] # <<>> /\ Top(t) \in Load
         /\ Evaluated(t) = Form1(operation[t]) /\ t \notin failing
         /\ Advanced(t) = [operation EXCEPT ![t] = Next1(operation[t])]
         /\ Next1(operation[t]) \in Seq(Load)
         /\ Evaluated(t).do # "skip" => Evaluated(t).of \in Named
         /\ Evaluated(t).do = "require" => Evaluated(t).of \in Module
<1>1. operation[t] \in Seq(Load) /\ operation[t] # <<>> /\ t \notin failing
  BY DEF Types, AtForm, Running
<1>2. Top(t) \in Load /\ Top(t) = operation[t][1]
  BY <1>1 DEF Top
<1>3. Evaluated(t) = Form1(operation[t])
  BY <1>2 DEF Evaluated, Form1
<1>4. Top(t).at \in 1..Len(Top(t).forms)
  BY <1>2 DEF AtForm, Load
<1>5. Advanced(t) = [operation EXCEPT ![t] = Next1(operation[t])]
  BY DEF Advanced, Next1
<1>6. /\ Evaluated(t).do # "skip" => Evaluated(t).of \in Named
      /\ Evaluated(t).do = "require" => Evaluated(t).of \in Module
  BY <1>2, <1>4, FormsMean DEF Evaluated
<1>7. Next1(operation[t]) \in Seq(Load)
  BY <1>1, NextIs
<1>. QED  BY <1>1, <1>2, <1>3, <1>5, <1>6, <1>7

\* At the start of a text that provides its module first that is what comes next.
LEMMA StartingProvides ==
  ASSUME LoadingAssumption, NEW t \in Thread, NEW m \in Module, Starting(t, m), ProvidesFirst(m)
  PROVE  AtForm(t) /\ Evaluated(t) = Form("provide", m) /\ Evaluated(t).do = "provide"
         /\ Evaluated(t).of = m
<1>1. Text[m] \in Seq(Forms) /\ Text[m] # <<>>
  BY TextsTyped DEF ProvidesFirst
<1>2. 1 <= Len(Text[m])
  BY <1>1
<1>3. AtForm(t)
  BY <1>2 DEF Starting, AtForm, Running
<1>4. Evaluated(t) = Form("provide", m)
  BY DEF Starting, ProvidesFirst, Evaluated, Meant, Form
<1>. QED  BY <1>3, <1>4 DEF Form

-----------------------------------------------------------------------------
(* What steps of a thread t have in common.                                *)

LEMMA WithinKept ==
  ASSUME Types, Within, NEW t \in Thread, NEW ops, operation' = [operation EXCEPT ![t] = ops],
         NEW pkg, package' = [package EXCEPT ![t] = pkg], InPackages(ops, pkg)
  PROVE  Within'
<1>1. SUFFICES ASSUME NEW u \in Thread  PROVE InPackages(operation'[u], package'[u])
  BY DEF Within
<1>2. CASE u = t
  BY <1>2 DEF Types
<1>3. CASE u # t
  <2>1. operation'[u] = operation[u] /\ package'[u] = package[u]
    BY <1>3 DEF Types
  <2>. QED  BY <2>1 DEF Within
<1>. QED  BY <1>2, <1>3

LEMMA ProvidingKept ==
  ASSUME Types, Providing, NEW t \in Thread, NEW ops, operation' = [operation EXCEPT ![t] = ops],
         \A u \in Thread \ {t} : providing'[u] = providing[u] /\ (u \in failing' <=> u \in failing),
         providing'[t] = NoList
  PROVE  Providing'
<1>1. SUFFICES ASSUME NEW u \in Thread, providing'[u] # NoList
               PROVE  AtForm(u)' /\ Evaluated(u)'.do = "provide"
  BY DEF Providing
<1>2. u # t /\ operation'[u] = operation[u] /\ providing'[u] = providing[u]
      /\ (u \in failing' <=> u \in failing)
  BY <1>1 DEF Types
<1>3. AtForm(u) /\ Evaluated(u).do = "provide"
  BY <1>1, <1>2 DEF Providing
<1>. QED  BY <1>2, <1>3 DEF AtForm, Running, Evaluated, Top

LEMMA OnceKept ==
  ASSUME Types, OnceEach, NEW t \in Thread, NEW ops, operation' = [operation EXCEPT ![t] = ops],
         crossed => crossed', loads' = loads,
         \A u \in Thread \ {t} : u \in failing' <=> u \in failing,
         \A m \in Module : Contains(load_modules, m) /\ ~crossed' => Contains(load_modules', m),
         \A m \in Module :
           Starting(t, m) /\ ProvidesFirst(m) /\ ~crossed' => Contains(load_modules', m)
  PROVE  OnceEach'
<1>1. SUFFICES ASSUME NEW m \in Module, ~crossed', ProvidesFirst(m), loads[m] # 0
               PROVE  /\ loads[m] = 1
                      /\ Contains(load_modules', m) \/ \E u \in Thread : Starting(u, m)'
  BY DEF OnceEach, Once, ProvidesFirst
<1>2. loads[m] = 1 /\ (Contains(load_modules, m) \/ \E u \in Thread : Starting(u, m))
  BY <1>1 DEF OnceEach, Once
<1>3. CASE Contains(load_modules, m)
  BY <1>1, <1>2, <1>3
<1>4. CASE \E u \in Thread : Starting(u, m)
  <2>1. PICK u \in Thread : Starting(u, m)
    BY <1>4
  <2>2. CASE u = t
    BY <1>1, <1>2, <2>1, <2>2
  <2>3. CASE u # t
    <3>1. operation'[u] = operation[u] /\ (u \in failing' <=> u \in failing)
      BY <2>3 DEF Types
    <3>2. Starting(u, m)'
      BY <2>1, <3>1 DEF Starting, Top
    <3>. QED  BY <1>2, <3>2
  <2>. QED  BY <2>2, <2>3
<1>. QED  BY <1>2, <1>3, <1>4

-----------------------------------------------------------------------------
(* The initial state, and the steps one by one.                            *)

LEMMA InitIInv ==
  ASSUME LoadingAssumption, LoadInit
  PROVE  IInv
<1>1. ASSUME NEW t \in Thread
      PROVE  /\ operation[t] \in Seq(Load) /\ Len(operation[t]) = 1
             /\ operation[t][1].saved_package = StartPackage /\ Settings(operation[t][1]) = {}
  <2>1. PICK op : /\ operation[t] = <<op>>
                  /\ op = [name |-> Toplevel, forms |-> Script[t], at |-> 1,
                           saved_package |-> StartPackage, toplevel |-> TRUE]
    BY DEF LoadInit
  <2>2. op \in Load
    BY <2>1, TextsTyped DEF Load, Named
  <2>3. Settings(op) = {} /\ op.saved_package = StartPackage
    BY <2>1 DEF Settings
  <2>4. operation[t] \in Seq(Load) /\ Len(operation[t]) = 1 /\ operation[t][1] = op
    BY <2>1, <2>2
  <2>. QED  BY <2>3, <2>4
<1>2. Types
  <2>1. operation \in [Thread -> Seq(Load)]
    BY <1>1 DEF LoadInit
  <2>2. load_modules \in Seq(Named) /\ loads \in [Module -> 0..2]
    BY DEF LoadInit
  <2>3. package \in [Thread -> Named] /\ providing \in [Thread -> Seq(Named) \union {NoList}]
    BY DEF LoadInit, Named
  <2>4. failing \subseteq Thread /\ crossed \in BOOLEAN
    BY DEF LoadInit
  <2>. QED  BY <2>1, <2>2, <2>3, <2>4 DEF Types
<1>3. Within
  <2>1. SUFFICES ASSUME NEW t \in Thread  PROVE InPackages(operation[t], package[t])
    BY DEF Within
  <2>2. ASSUME NEW k \in Nat \ {0}  PROVE PackageFrom(operation[t], k) = StartPackage
    <3>1. Setting(operation[t], k) = {}
      BY <1>1 DEF Setting
    <3>. QED  BY <3>1, PackageFromIs
  <2>3. package[t] = StartPackage
    BY DEF LoadInit
  <2>4. \A i \in 1..Len(operation[t]) :
          i + 1 \in Nat \ {0} /\ operation[t][i].saved_package = StartPackage
    BY <1>1
  <2>. QED  BY <2>2, <2>3, <2>4 DEF InPackages
<1>4. Providing
  BY DEF LoadInit, Providing
<1>5. OnceEach
  BY DEF LoadInit, OnceEach, Once
<1>. QED  BY <1>2, <1>3, <1>4, <1>5 DEF IInv

\* A form that is no provide does not start a text that provides its module.
LEMMA NoStart ==
  ASSUME LoadingAssumption, NEW t \in Thread, NEW m \in Module,
         Starting(t, m), ProvidesFirst(m), ~AtForm(t) \/ Evaluated(t).do # "provide"
  PROVE  FALSE
BY StartingProvides, Zenon

\* The thread goes on to the next form, in its package or another.
LEMMA StepsOn ==
  ASSUME LoadingAssumption, IInv, NEW t \in Thread, AtForm(t), Evaluated(t).do # "provide",
         Evaluated(t).do # "in" => package' = package,
         Evaluated(t).do = "in" => package' = [package EXCEPT ![t] = Evaluated(t).of],
         Advance(t), UNCHANGED <<load_modules, providing, failing, loads, crossed>>
  PROVE  IInv'
<1>1. PICK ops \in Seq(Load) : ops = operation[t] /\ ops # <<>> /\ Evaluated(t) = Form1(ops)
                              /\ Next1(ops) \in Seq(Load)
                              /\ operation' = [operation EXCEPT ![t] = Next1(ops)]
  BY EvaluatedIs DEF IInv, Advance
<1>2. PICK pkg \in Named : /\ package' = [package EXCEPT ![t] = pkg]
                           /\ Evaluated(t).do # "in" => pkg = package[t]
                           /\ Evaluated(t).do = "in" => pkg = Evaluated(t).of
  <2>1. CASE Evaluated(t).do # "in"
    <3>1. package[t] \in Named /\ package' = [package EXCEPT ![t] = package[t]]
      BY <2>1 DEF IInv, Types
    <3>. QED  BY <2>1, <3>1
  <2>2. CASE Evaluated(t).do = "in"
    <3>1. Evaluated(t).of \in Named
      BY <2>2, EvaluatedIs DEF IInv
    <3>. QED  BY <2>2, <3>1
  <2>. QED  BY <2>1, <2>2
<1>3. Types'
  BY <1>1, <1>2 DEF IInv, Types
<1>4. InPackages(Next1(ops), pkg)
  <2>1. InPackages(ops, package[t])
    BY <1>1 DEF IInv, Within
  <2>. QED  BY <1>1, <1>2, <2>1, NextInPackages
<1>5. Within'
  BY <1>1, <1>2, <1>4, WithinKept DEF IInv
<1>6. providing[t] = NoList
  BY DEF IInv, Providing
<1>7. Providing'
  BY <1>1, <1>6, ProvidingKept DEF IInv
<1>8. OnceEach'
  <2>1. \A m \in Module : ~(Starting(t, m) /\ ProvidesFirst(m))
    BY NoStart
  <2>. QED  BY <1>1, <2>1, OnceKept DEF IInv
<1>. QED  BY <1>3, <1>5, <1>7, <1>8 DEF IInv

\* The thread begins to unwind, or to provide what is not there.
LEMMA FailKeeps ==
  ASSUME LoadingAssumption, IInv, NEW t \in Thread, Fail(t)
  PROVE  IInv'
<1>1. /\ operation' = [operation EXCEPT ![t] = operation[t]] /\ operation' = operation
      /\ package' = package
      /\ failing' = failing \union {t} /\ providing[t] = NoList /\ AtForm(t)
      /\ Evaluated(t).do # "provide"
      /\ UNCHANGED <<load_modules, operation, package, providing, loads, crossed>>
  BY DEF Fail, Evaluates, IInv, Types
<1>2. Types' /\ Within'
  BY <1>1 DEF IInv, Types, Within
<1>3. Providing'
  BY <1>1, ProvidingKept DEF IInv
<1>4. OnceEach'
  <2>1. \A m \in Module : ~(Starting(t, m) /\ ProvidesFirst(m))
    BY <1>1, NoStart
  <2>. QED  BY <1>1, <2>1, OnceKept DEF IInv
<1>. QED  BY <1>2, <1>3, <1>4 DEF IInv

LEMMA BeginProvideKeeps ==
  ASSUME LoadingAssumption, IInv, NEW t \in Thread, BeginProvide(t)
  PROVE  IInv'
<1>1. /\ AtForm(t) /\ Evaluated(t).do = "provide" /\ providing[t] = NoList
      /\ UNCHANGED <<load_modules, operation, package, loads, crossed>>
      /\ operation' = [operation EXCEPT ![t] = operation[t]]
  BY DEF BeginProvide, Evaluates, IInv, Types
<1>2. Within'
  BY <1>1 DEF IInv, Within
<1>3. CASE Contains(load_modules, Evaluated(t).of)
  <2>1. failing' = failing \union {t} /\ UNCHANGED providing
    BY <1>3 DEF BeginProvide
  <2>2. Types'
    BY <1>1, <2>1 DEF IInv, Types
  <2>3. Providing'
    BY <1>1, <2>1, ProvidingKept DEF IInv
  <2>4. OnceEach'
    <3>1. ASSUME NEW m \in Module, Starting(t, m), ProvidesFirst(m)
          PROVE  Contains(load_modules', m)
      <4>1. Evaluated(t).of = m
        BY <3>1, StartingProvides
      <4>. QED  BY <1>1, <1>3, <4>1
    <3>. QED  BY <1>1, <2>1, <3>1, OnceKept DEF IInv
  <2>. QED  BY <1>2, <2>2, <2>3, <2>4 DEF IInv
<1>4. CASE ~Contains(load_modules, Evaluated(t).of)
  <2>1. providing' = [providing EXCEPT ![t] = load_modules] /\ UNCHANGED failing
    BY <1>4 DEF BeginProvide
  <2>2. Types'
    BY <1>1, <2>1 DEF IInv, Types
  <2>3. Providing'
    <3>1. SUFFICES ASSUME NEW u \in Thread, providing'[u] # NoList
                   PROVE  AtForm(u)' /\ Evaluated(u)'.do = "provide"
      BY DEF Providing
    <3>2. AtForm(u) /\ Evaluated(u).do = "provide"
      BY <1>1, <2>1, <3>1 DEF IInv, Types, Providing
    <3>. QED  BY <1>1, <2>1, <3>2 DEF AtForm, Running, Evaluated, Top
  <2>4. OnceEach'
    BY <1>1, <2>1 DEF IInv, OnceEach, Once, Starting, Top
  <2>. QED  BY <1>2, <2>2, <2>3, <2>4 DEF IInv
<1>. QED  BY <1>3, <1>4

\* What is added to a list is in it, with all that it had.
LEMMA ContainsAdded ==
  ASSUME NEW list \in Seq(Named), NEW new \in Named
  PROVE  /\ Contains(<<new>> \o list, new)
         /\ \A m : Contains(list, m) => Contains(<<new>> \o list, m)
<1>. DEFINE all == <<new>> \o list
<1>1. /\ all[1] = new /\ Len(all) = Len(list) + 1 /\ Len(list) \in Nat
      /\ \A i \in 1..Len(list) : all[i + 1] = list[i]
  OBVIOUS
<1>. HIDE DEF all
<1>2. Contains(all, new)
  BY <1>1 DEF Contains
<1>3. ASSUME NEW m, Contains(list, m)  PROVE Contains(all, m)
  <2>1. PICK i \in 1..Len(list) : list[i] = m
    BY <1>3 DEF Contains
  <2>2. i + 1 \in 1..Len(all) /\ all[i + 1] = m
    BY <1>1, <2>1
  <2>. QED  BY <2>2 DEF Contains
<1>. QED  BY <1>2, <1>3 DEF all

LEMMA EndProvideKeeps ==
  ASSUME LoadingAssumption, IInv, NEW t \in Thread, EndProvide(t)
  PROVE  IInv'
<1>1. AtForm(t) /\ Evaluated(t).do = "provide" /\ providing[t] \in Seq(Named)
  BY DEF EndProvide, IInv, Types, Providing
<1>2. PICK ops \in Seq(Load) : ops = operation[t] /\ ops # <<>> /\ Evaluated(t) = Form1(ops)
                              /\ Next1(ops) \in Seq(Load)
                              /\ operation' = [operation EXCEPT ![t] = Next1(ops)]
  BY <1>1, EvaluatedIs DEF IInv, EndProvide, Advance
<1>3. PICK new \in Named : new = Evaluated(t).of
  BY <1>1, EvaluatedIs DEF IInv
<1>4. PICK list \in Seq(Named) : list = providing[t]
  BY <1>1
<1>5. /\ load_modules' = <<new>> \o list
      /\ crossed' = (crossed \/ load_modules # list)
      /\ providing' = [providing EXCEPT ![t] = NoList]
      /\ UNCHANGED <<package, failing, loads>>
  BY <1>3, <1>4, Zenon DEF EndProvide
<1>6. Types'
  <2>1. load_modules' \in Seq(Named)
    BY <1>5
  <2>2. crossed' \in BOOLEAN
    BY <1>5
  <2>. QED  BY <1>2, <1>5, <2>1, <2>2 DEF IInv, Types
<1>7. Within'
  <2>1. InPackages(ops, package[t])
    BY <1>2 DEF IInv, Within
  <2>2. InPackages(Next1(ops), package[t])
    BY <1>1, <1>2, <2>1, NextInPackages
  <2>3. package' = [package EXCEPT ![t] = package[t]]
    BY <1>5 DEF IInv, Types
  <2>. QED  BY <1>2, <2>2, <2>3, WithinKept DEF IInv
<1>8. Providing'
  <2>1. providing'[t] = NoList /\ \A u \in Thread \ {t} : providing'[u] = providing[u]
    BY <1>5 DEF IInv, Types
  <2>. QED  BY <1>2, <1>5, <2>1, ProvidingKept DEF IInv
<1>9. OnceEach'
  <2>1. crossed => crossed'
    BY <1>5
  <2>2. ~crossed' => list = load_modules
    BY <1>5
  <2>3. ASSUME NEW m \in Module, Contains(load_modules, m), ~crossed'
        PROVE  Contains(load_modules', m)
    BY <1>5, <2>2, <2>3, ContainsAdded
  <2>4. ASSUME NEW m \in Module, Starting(t, m), ProvidesFirst(m)
        PROVE  Contains(load_modules', m)
    <3>1. new = m
      BY <1>3, <2>4, StartingProvides
    <3>. QED  BY <1>5, <3>1, ContainsAdded
  <2>. QED  BY <1>2, <1>5, <2>1, <2>3, <2>4, OnceKept DEF IInv
<1>. QED  BY <1>6, <1>7, <1>8, <1>9 DEF IInv

LEMMA LeaveKeeps ==
  ASSUME LoadingAssumption, IInv, NEW t \in Thread, Leave(t)
  PROVE  IInv'
<1>1. PICK ops \in Seq(Load) : ops = operation[t] /\ ops # <<>>
  BY DEF Leave, IInv, Types
<1>2. /\ operation' = [operation EXCEPT ![t] = Tail(ops)]
      /\ package' = [package EXCEPT ![t] = ops[1].saved_package]
      /\ UNCHANGED <<load_modules, providing, failing, loads, crossed>>
  BY <1>1 DEF Leave, Left, Top
<1>3. Tail(ops) \in Seq(Load) /\ ops[1] \in Load
  BY <1>1
<1>4. Types'
  <2>1. ops[1].saved_package \in Named
    BY <1>3 DEF Load
  <2>2. operation' \in [Thread -> Seq(Load)] /\ package' \in [Thread -> Named]
    BY <1>2, <1>3, <2>1 DEF IInv, Types
  <2>. QED  BY <1>2, <2>2 DEF IInv, Types
<1>5. Within'
  <2>1. InPackages(ops, package[t])
    BY <1>1 DEF IInv, Within
  <2>2. InPackages(Tail(ops), ops[1].saved_package)
    BY <1>1, <2>1, TailInPackages
  <2>. QED  BY <1>2, <2>2, WithinKept DEF IInv
<1>6. ~AtForm(t)
  <2>1. SUFFICES ASSUME AtForm(t)  PROVE FALSE
    OBVIOUS
  <2>2. t \notin failing /\ Top(t).at <= Len(Top(t).forms)
    BY <2>1 DEF AtForm, Running
  <2>3. Top(t).at \in Nat /\ Len(Top(t).forms) \in Nat
    BY <1>1, <1>3 DEF Top, Load
  <2>. QED  BY <2>2, <2>3 DEF Leave
<1>7. Providing'
  <2>1. providing[t] = NoList
    BY <1>6 DEF IInv, Providing
  <2>. QED  BY <1>2, <2>1, ProvidingKept DEF IInv
<1>8. OnceEach'
  <2>1. \A m \in Module : ~(Starting(t, m) /\ ProvidesFirst(m))
    BY <1>6, NoStart
  <2>. QED  BY <1>2, <2>1, OnceKept DEF IInv
<1>. QED  BY <1>4, <1>5, <1>7, <1>8 DEF IInv

\* The module that is required is there, or its text is begun.
LEMMA RequireKeeps ==
  ASSUME LoadingAssumption, IInv, NEW t \in Thread, Require(t)
  PROVE  IInv'
<1>1. AtForm(t) /\ Evaluated(t).do = "require" /\ providing[t] = NoList
      /\ UNCHANGED <<load_modules, package, providing, failing>>
  BY DEF Require, Evaluates
<1>2. PICK m \in Module : m = Evaluated(t).of
  BY <1>1, EvaluatedIs DEF IInv
<1>3. CASE Searched(m)
  <2>1. Advance(t) /\ UNCHANGED <<loads, crossed>>
    BY <1>2, <1>3 DEF Require
  <2>. QED  BY <1>1, <2>1, StepsOn
<1>4. CASE ~Searched(m)
  <2>1. /\ operation' = Stacked(t, m)
        /\ loads' = [loads EXCEPT ![m] = IF @ = 2 THEN 2 ELSE @ + 1]
        /\ crossed' = (crossed \/ BeingLoaded(t, m))
    BY <1>2, <1>4, Zenon DEF Require
  <2>2. PICK ops \in Seq(Load) : ops = operation[t] /\ ops # <<>> /\ Evaluated(t) = Form1(ops)
                                /\ Next1(ops) \in Seq(Load)
                                /\ Advanced(t) = [operation EXCEPT ![t] = Next1(ops)]
    BY <1>1, EvaluatedIs DEF IInv
  <2>3. PICK op \in Load : /\ op = LoadOf(t, m) /\ op.at = 1 /\ op.saved_package = package[t]
                           /\ op.name = m /\ op.forms = Text[m]
    <3>1. package[t] \in Named /\ Text[m] \in Seq(Forms)
      BY TextsTyped DEF IInv, Types
    <3>2. LoadOf(t, m) = [name |-> m, forms |-> Text[m], at |-> 1,
                          saved_package |-> package[t], toplevel |-> FALSE]
      BY DEF LoadOf, Operation
    <3>3. LoadOf(t, m) \in Load
      BY <3>1, <3>2 DEF Load
    <3>. QED  BY <3>2, <3>3
  <2>4. PICK all \in Seq(Load) : /\ all = <<op>> \o Next1(ops) /\ all # <<>> /\ all[1] = op
                                 /\ operation' = [operation EXCEPT ![t] = all]
    <3>1. /\ <<op>> \o Next1(ops) \in Seq(Load) /\ <<op>> \o Next1(ops) # <<>>
          /\ (<<op>> \o Next1(ops))[1] = op
      BY <2>2
    <3>2. Advanced(t)[t] = Next1(ops)
      BY <2>2 DEF IInv, Types
    <3>3. operation' = [Advanced(t) EXCEPT ![t] = <<op>> \o Next1(ops)]
      BY <2>1, <2>3, <3>2 DEF Stacked
    <3>4. operation' = [operation EXCEPT ![t] = <<op>> \o Next1(ops)]
      BY <2>2, <3>3 DEF IInv, Types
    <3>. QED  BY <3>1, <3>4
  <2>5. Types'
    <3>1. operation' \in [Thread -> Seq(Load)]
      BY <2>4 DEF IInv, Types
    <3>2. loads' \in [Module -> 0..2]
      <4>1. PICK n \in 0..2 : n = loads[m]
        BY DEF IInv, Types
      <4>2. (IF n = 2 THEN 2 ELSE n + 1) \in 0..2
        OBVIOUS
      <4>. QED  BY <2>1, <4>1, <4>2 DEF IInv, Types
    <3>3. crossed' \in BOOLEAN
      BY <2>1 DEF IInv, Types, BeingLoaded
    <3>. QED  BY <1>1, <3>1, <3>2, <3>3 DEF IInv, Types
  <2>6. Within'
    <3>1. InPackages(Next1(ops), package[t])
      BY <1>1, <2>2, NextInPackages DEF IInv, Within
    <3>2. InPackages(all, package[t])
      BY <2>2, <2>3, <2>4, <3>1, PushInPackages
    <3>3. package' = [package EXCEPT ![t] = package[t]]
      BY <1>1 DEF IInv, Types
    <3>. QED  BY <2>4, <3>2, <3>3, WithinKept DEF IInv
  <2>7. Providing'
    BY <1>1, <2>4, ProvidingKept DEF IInv
  <2>8. ASSUME NEW u \in Thread, NEW n \in Module, Starting(u, n), ProvidesFirst(n)
        PROVE  u # t /\ Starting(u, n)'
    <3>1. u # t
      BY <1>1, <2>8, NoStart
    <3>2. operation'[u] = operation[u]
      BY <2>4, <3>1 DEF IInv, Types
    <3>. QED  BY <1>1, <2>8, <3>1, <3>2 DEF Starting, Top
  <2>9. OnceEach'
    <3>1. SUFFICES ASSUME NEW n \in Module, ~crossed', ProvidesFirst(n), loads'[n] # 0
                   PROVE  /\ loads'[n] = 1
                          /\ Contains(load_modules', n) \/ \E u \in Thread : Starting(u, n)'
      BY DEF OnceEach, Once, ProvidesFirst
    <3>2. ~crossed /\ ~BeingLoaded(t, m)
      BY <2>1, <3>1
    <3>3. Once(n)
      BY DEF IInv, OnceEach
    <3>4. CASE n # m
      <4>1. loads'[n] = loads[n]
        BY <2>1, <3>4 DEF IInv, Types
      <4>2. loads[n] = 1 /\ (Contains(load_modules, n) \/ \E u \in Thread : Starting(u, n))
        BY <3>1, <3>2, <3>3, <4>1 DEF Once
      <4>. QED  BY <1>1, <2>8, <3>1, <4>1, <4>2
    <3>5. CASE n = m
      <4>1. ~ \E u \in Thread : Starting(u, m)
        <5>1. SUFFICES ASSUME NEW u \in Thread, Starting(u, m)  PROVE FALSE
          OBVIOUS
        <5>2. u # t
          BY <2>8, <3>1, <3>5, <5>1
        <5>3. 1 \in DOMAIN operation[u] /\ operation[u][1].name = m
          BY <5>1 DEF Starting, Top, IInv, Types
        <5>. QED  BY <1>4, <3>2, <5>2, <5>3 DEF BeingLoaded, Searched
      <4>2. loads[m] = 0
        BY <1>4, <3>1, <3>2, <3>3, <3>5, <4>1 DEF Once, Searched
      <4>3. loads'[m] = 1
        BY <2>1, <4>2 DEF IInv, Types
      <4>4. t \notin failing
        BY <1>1 DEF AtForm, Running
      <4>5. operation'[t] = all
        BY <2>4 DEF IInv, Types
      <4>6. Starting(t, m)'
        BY <1>1, <2>3, <2>4, <4>4, <4>5 DEF Starting, Top
      <4>. QED  BY <3>5, <4>3, <4>6
    <3>. QED  BY <3>4, <3>5
  <2>. QED  BY <2>5, <2>6, <2>7, <2>9 DEF IInv
<1>. QED  BY <1>3, <1>4

LEMMA StepKeeps ==
  ASSUME LoadingAssumption, IInv, [LoadNext]_loadVars
  PROVE  IInv'
<1>1. ASSUME NEW t \in Thread, Skip(t)  PROVE IInv'
  BY <1>1, StepsOn DEF Skip, Evaluates
<1>2. ASSUME NEW t \in Thread, SwitchPackage(t)  PROVE IInv'
  BY <1>2, StepsOn DEF SwitchPackage, Evaluates
<1>3. CASE UNCHANGED loadVars
  BY <1>3 DEF loadVars, IInv, Types, Within, Providing, OnceEach, Once, Starting, AtForm, Running,
              Evaluated, Top
<1>. QED
  BY <1>1, <1>2, <1>3, FailKeeps, RequireKeeps, BeginProvideKeeps, EndProvideKeeps, LeaveKeeps
  DEF LoadNext, Step

-----------------------------------------------------------------------------
(* The theorems.                                                           *)

\* The invariant holds at all times: the packages that the operations of a thread
\* saved, the provide it is in, and what was loaded (src/src/load.c).
THEOREM Invariant ==
  ASSUME LoadingAssumption
  PROVE  LoadSpec => []IInv
<1>1. LoadInit => IInv
  BY InitIInv
<1>2. IInv /\ [LoadNext]_loadVars => IInv'
  BY StepKeeps
<1>. QED  BY <1>1, <1>2, PTL DEF LoadSpec

\* Every form is read and evaluated in the package its own text has set, however
\* many modules are required, and whether they end or fail (dfsch_load_source).
THEOREM PackagesOfTexts ==
  ASSUME LoadingAssumption
  PROVE  LoadSpec => []PackageOfText
<1>1. IInv => PackageOfText
  BY DEF IInv, Within, InPackages, PackageOfText
<1>. QED  BY <1>1, Invariant, PTL

\* A module that provides itself first is loaded once, if no two threads load or
\* provide at the same time (dfsch_require and dfsch_provide).
THEOREM EachLoadedOnce ==
  ASSUME LoadingAssumption
  PROVE  LoadSpec => []LoadedOnce
<1>1. IInv => LoadedOnce
  BY DEF IInv, Types, OnceEach, Once, ProvidesFirst, LoadedOnce
<1>. QED  BY <1>1, Invariant, PTL

-----------------------------------------------------------------------------
(* Recursive functions of numbers.                                         *)

\* What holds of 0, and of the next number whenever it holds of one, holds up
\* to any number.
LEMMA Upward ==
  ASSUME NEW N \in Nat, NEW S, 0 \in S, \A n \in 0..(N - 1) : n \in S => n + 1 \in S
  PROVE  \A n \in 0..N : n \in S
<1>. DEFINE rest == {n \in 0..N : n \notin S}
<1>1. SUFFICES ASSUME rest # {}
               PROVE  FALSE
  OBVIOUS
<1>2. Least(rest) \in rest /\ \A j \in rest : Least(rest) <= j
  <2>. rest \in SUBSET Nat
    OBVIOUS
  <2>. HIDE DEF rest
  <2>. QED  BY <1>1, LeastIs
<1>. DEFINE i == Least(rest)
<1>. HIDE DEF i
<1>3. i \in rest /\ \A j \in rest : i <= j
  BY <1>2 DEF i
<1>4. i # 0 /\ i \in 0..N /\ i \notin S
  BY <1>3
<1>5. i - 1 \in 0..(N - 1) /\ i - 1 \notin rest
  BY <1>3, <1>4
<1>6. i - 1 \in S /\ (i - 1) + 1 = i
  BY <1>4, <1>5
<1>. QED  BY <1>4, <1>5, <1>6

\* A recursive function exists.
Follows(f, N, base, step) == f[0] = base /\ \A k \in 1..N : f[k] = step[<<k, f[k - 1]>>]

LEMMA Recursion ==
  ASSUME NEW N \in Nat, NEW X, NEW base \in X, NEW step \in [(1..N) \X X -> X]
  PROVE  \E f \in [0..N -> X] : Follows(f, N, base, step)
<1>. DEFINE Upto(n, f) == f[0] = base /\ \A k \in 1..n : f[k] = step[<<k, f[k - 1]>>]
            S == {n \in 0..N : \E f \in [0..n -> X] : Upto(n, f)}
<1>1. 0 \in S
  <2>. DEFINE g == [i \in 0..0 |-> base]
  <2>1. g \in [0..0 -> X]
    OBVIOUS
  <2>2. Upto(0, g)
    OBVIOUS
  <2>. HIDE DEF g, Upto
  <2>. QED  BY <2>1, <2>2
<1>2. ASSUME NEW n \in 0..(N - 1), n \in S
      PROVE  n + 1 \in S
  <2>1. PICK f \in [0..n -> X] : Upto(n, f)
    BY <1>2
  <2>. DEFINE succ == step[<<n + 1, f[n]>>]
              g == [i \in 0..(n + 1) |-> IF i = n + 1 THEN succ ELSE f[i]]
  <2>2. n + 1 \in 1..N /\ f[n] \in X
    OBVIOUS
  <2>3. succ \in X
    BY <2>2
  <2>4. g \in [0..(n + 1) -> X]
    <3>1. ASSUME NEW i \in 0..(n + 1), i # n + 1  PROVE f[i] \in X
      <4>. i \in 0..n
        BY <3>1
      <4>. QED  OBVIOUS
    <3>. HIDE DEF succ
    <3>. QED  BY <2>3, <3>1
  <2>5. g[0] = base
    BY <2>1
  <2>6. ASSUME NEW k \in 1..(n + 1)
        PROVE  g[k] = step[<<k, g[k - 1]>>]
    <3>1. CASE k = n + 1
      <4>. g[k] = succ /\ g[k - 1] = f[n]
        BY <3>1
      <4>. QED  BY <3>1
    <3>2. CASE k # n + 1
      <4>1. k \in 1..n /\ k - 1 \in 0..n
        BY <3>2
      <4>2. g[k] = f[k] /\ g[k - 1] = f[k - 1]
        BY <4>1
      <4>. QED  BY <2>1, <4>1, <4>2
    <3>. QED  BY <3>1, <3>2
  <2>7. Upto(n + 1, g)
    BY <2>5, <2>6
  <2>8. n + 1 \in 0..N
    OBVIOUS
  <2>. HIDE DEF g, Upto
  <2>. QED  BY <2>4, <2>7, <2>8
<1>3. \A n \in 0..N : n \in S
  <2>. HIDE DEF S
  <2>. QED  BY <1>1, <1>2, Upward
<1>4. PICK f \in [0..N -> X] : Upto(N, f)
  BY <1>3
<1>. QED  BY <1>4 DEF Follows

-----------------------------------------------------------------------------
(* Merging two runs.                                                       *)

\* Methods are put in an order by which of two goes first.
Ranked(some) ==
  /\ \A a, b \in some : Before(a, b) \/ Before(b, a)
  /\ \A a, b, c \in some : Before(a, b) /\ Before(b, c) => Before(a, c)
Sorted(list) == \A i, j \in 1..Len(list) : i < j => Before(list[i], list[j])

\* How many of the first n of a merged run are of the first run p.
IsTaken(p, q, taken) ==
  /\ taken \in [0..(Len(p) + Len(q)) -> Nat] /\ taken[0] = 0
  /\ \A n \in 1..(Len(p) + Len(q)) :
       LET i == taken[n - 1]
           j == n - 1 - i
       IN  taken[n] = IF j < Len(q) /\ (i < Len(p) => Before(q[j + 1], p[i + 1])) THEN i
                      ELSE i + 1
MergedBy(p, q, taken) ==
  [n \in 1..(Len(p) + Len(q)) |->
     IF taken[n] = taken[n - 1] THEN q[n - taken[n]] ELSE p[taken[n]]]

LEMMA MergeBy ==
  ASSUME NEW S, NEW p \in Seq(S), NEW q \in Seq(S)
  PROVE  \E taken : IsTaken(p, q, taken) /\ Merge(p, q) = MergedBy(p, q, taken)
<1>. DEFINE N == Len(p) + Len(q)
            After(n, i) ==
              IF n - 1 - i < Len(q) /\ (i < Len(p) => Before(q[(n - 1 - i) + 1], p[i + 1])) THEN i
              ELSE i + 1
            step == [x \in (1..N) \X Nat |-> After(x[1], x[2])]
            IsRun(f) == f = [n \in 0..N |-> IF n = 0 THEN 0 ELSE After(n, f[n - 1])]
            run == CHOOSE f : IsRun(f)
<1>1. Merge(p, q) = MergedBy(p, q, run)
  BY DEF Merge, MergedBy
<1>2. N \in Nat
  OBVIOUS
<1>3. step \in [(1..N) \X Nat -> Nat]
  <2>. HIDE DEF N
  <2>1. ASSUME NEW n \in 1..N, NEW i \in Nat
        PROVE  After(n, i) \in Nat
    OBVIOUS
  <2>. HIDE DEF After
  <2>. QED  BY <2>1
<1>4. \E f \in [0..N -> Nat] : IsRun(f)
  <2>. HIDE DEF step, N
  <2>1. PICK f \in [0..N -> Nat] : Follows(f, N, 0, step)
    BY <1>2, <1>3, Recursion
  <2>2. ASSUME NEW n \in 1..N
        PROVE  f[n] = After(n, f[n - 1])
    <3>1. f[n - 1] \in Nat
      BY <1>2
    <3>. HIDE DEF After
    <3>. QED  BY <2>1, <3>1 DEF step, Follows
  <2>3. \A n \in 0..N : f[n] = IF n = 0 THEN 0 ELSE After(n, f[n - 1])
    <3>. HIDE DEF After
    <3>1. \A n \in 0..N : n # 0 => n \in 1..N
      BY <1>2
    <3>. QED  BY <2>1, <2>2, <3>1 DEF Follows
  <2>4. f = [n \in 0..N |-> IF n = 0 THEN 0 ELSE After(n, f[n - 1])]
    <3>. HIDE DEF After
    <3>. QED  BY <2>3
  <2>. QED  BY <2>4
<1>5. IsRun(run)
  <2>. HIDE DEF IsRun
  <2>. QED  BY <1>4
<1>6. run[0] = 0 /\ DOMAIN run = 0..N /\ \A n \in 1..N : run[n] = After(n, run[n - 1])
  <2>. HIDE DEF run, After
  <2>1. 0 \in 0..N /\ \A n \in 1..N : n \in 0..N /\ n # 0
    OBVIOUS
  <2>. QED  BY <1>5, <2>1
<1>7. \A n \in 0..N : run[n] \in Nat
  <2>. DEFINE kept == {n \in 0..N : run[n] \in Nat}
  <2>. HIDE DEF run, N
  <2>1. 0 \in kept
    BY <1>2, <1>6
  <2>2. ASSUME NEW n \in 0..(N - 1), n \in kept
        PROVE  n + 1 \in kept
    <3>1. n + 1 \in 1..N /\ (n + 1) - 1 = n /\ n + 1 \in 0..N /\ run[n] \in Nat
      BY <1>2, <2>2
    <3>2. run[n + 1] = After(n + 1, run[n])
      <4>. HIDE DEF After
      <4>. QED  BY <1>6, <3>1
    <3>3. After(n + 1, run[n]) \in Nat
      BY <3>1
    <3>. QED  BY <3>1, <3>2, <3>3
  <2>. HIDE DEF kept
  <2>3. \A n \in 0..N : n \in kept
    BY <1>2, <2>1, <2>2, Upward
  <2>. QED  BY <2>3 DEF kept
<1>8. run \in [0..N -> Nat]
  <2>. HIDE DEF run, N
  <2>1. run = [n \in 0..N |-> run[n]]
    <3>. HIDE DEF After
    <3>. QED  BY <1>5
  <2>. QED  BY <1>7, <2>1
<1>9. IsTaken(p, q, run)
  <2>. HIDE DEF run
  <2>. QED  BY <1>6, <1>8 DEF IsTaken
<1>. HIDE DEF run
<1>. QED  BY <1>1, <1>9

\* Each step takes the next one of either run.
LEMMA MergeStep ==
  ASSUME NEW S, NEW p \in Seq(S), NEW q \in Seq(S), NEW taken, IsTaken(p, q, taken),
         NEW n \in 1..(Len(p) + Len(q)), taken[n - 1] \in 0..Len(p), n - 1 - taken[n - 1] \in 0..Len(q)
  PROVE  LET i == taken[n - 1]
             j == n - 1 - i
             out == MergedBy(p, q, taken)[n]
         IN  \/ /\ taken[n] = i /\ j < Len(q) /\ out = q[j + 1]
                /\ i < Len(p) => Before(out, p[i + 1])
             \/ /\ taken[n] = i + 1 /\ i < Len(p) /\ out = p[i + 1]
                /\ j < Len(q) => ~Before(q[j + 1], out)
<1>. DEFINE i == taken[n - 1]
            j == n - 1 - i
            goes == j < Len(q) /\ (i < Len(p) => Before(q[j + 1], p[i + 1]))
<1>1. /\ i \in Nat /\ j \in Nat /\ i <= Len(p) /\ j <= Len(q) /\ i + j < Len(p) + Len(q)
      /\ Len(p) \in Nat /\ Len(q) \in Nat /\ n = i + j + 1
  OBVIOUS
<1>2. taken[n] = IF goes THEN i ELSE i + 1
  BY DEF IsTaken
<1>3. MergedBy(p, q, taken)[n] = IF taken[n] = i THEN q[n - taken[n]] ELSE p[taken[n]]
  BY DEF MergedBy
<1>4. CASE goes
  <2>1. taken[n] = i /\ MergedBy(p, q, taken)[n] = q[n - i] /\ n - i = j + 1
    <3>. HIDE DEF goes, i, j
    <3>. QED  BY <1>1, <1>2, <1>3, <1>4
  <2>. QED  BY <1>4, <2>1
<1>5. CASE ~goes
  <2>1. taken[n] = i + 1 /\ MergedBy(p, q, taken)[n] = p[i + 1]
    <3>. HIDE DEF goes, i, j
    <3>. QED  BY <1>1, <1>2, <1>3, <1>5
  <2>2. i < Len(p)
    <3>. HIDE DEF i, j
    <3>. QED  BY <1>1, <1>5
  <2>. QED  BY <1>5, <2>1, <2>2
<1>. QED  BY <1>4, <1>5

LEMMA TakenBounded ==
  ASSUME NEW S, NEW p \in Seq(S), NEW q \in Seq(S), NEW taken, IsTaken(p, q, taken)
  PROVE  \A n \in 0..(Len(p) + Len(q)) : taken[n] \in 0..Len(p) /\ n - taken[n] \in 0..Len(q)
<1>. DEFINE N == Len(p) + Len(q)
            some == {n \in 0..N : taken[n] \in 0..Len(p) /\ n - taken[n] \in 0..Len(q)}
<1>1. Len(p) \in Nat /\ Len(q) \in Nat /\ N \in Nat
  OBVIOUS
<1>2. 0 \in some
  BY <1>1 DEF IsTaken
<1>3. ASSUME NEW n \in 1..N, taken[n - 1] \in 0..Len(p), n - 1 - taken[n - 1] \in 0..Len(q)
      PROVE  \/ taken[n] = taken[n - 1] /\ n - 1 - taken[n - 1] < Len(q)
             \/ taken[n] = taken[n - 1] + 1 /\ taken[n - 1] < Len(p)
  BY <1>3, MergeStep
<1>4. ASSUME NEW n \in 0..(N - 1), n \in some
      PROVE  n + 1 \in some
  <2>1. n + 1 \in 1..N /\ (n + 1) - 1 = n /\ n + 1 \in 0..N /\ n \in Nat
    BY <1>1
  <2>2. taken[n] \in 0..Len(p) /\ n - taken[n] \in 0..Len(q)
    BY <1>4
  <2>3. \/ taken[n + 1] = taken[n] /\ n - taken[n] < Len(q)
        \/ taken[n + 1] = taken[n] + 1 /\ taken[n] < Len(p)
    BY <1>3, <2>1, <2>2
  <2>. HIDE DEF N
  <2>4. taken[n + 1] \in 0..Len(p) /\ (n + 1) - taken[n + 1] \in 0..Len(q)
    BY <1>1, <2>1, <2>2, <2>3
  <2>. QED  BY <2>1, <2>4
<1>. HIDE DEF some
<1>5. \A n \in 0..N : n \in some
  <2>. HIDE DEF N
  <2>. QED  BY <1>1, <1>2, <1>4, Upward
<1>. QED  BY <1>5 DEF some

\* A merged run has the methods of both.
LEMMA MergeElements ==
  ASSUME NEW S, NEW p \in Seq(S), NEW q \in Seq(S), NEW taken, IsTaken(p, q, taken)
  PROVE  /\ MergedBy(p, q, taken) \in Seq(S) /\ Len(MergedBy(p, q, taken)) = Len(p) + Len(q)
         /\ \A n \in 1..(Len(p) + Len(q)) :
              MergedBy(p, q, taken)[n] \in ToSet(p) \union ToSet(q)
         /\ \A i \in 1..Len(p) : \E n \in 1..(Len(p) + Len(q)) :
              MergedBy(p, q, taken)[n] = p[i]
         /\ \A j \in 1..Len(q) : \E n \in 1..(Len(p) + Len(q)) :
              MergedBy(p, q, taken)[n] = q[j]
<1>. DEFINE N == Len(p) + Len(q)
            out == MergedBy(p, q, taken)
            Upto(n) == /\ \A i \in 1..taken[n] : \E m \in 1..n : out[m] = p[i]
                       /\ \A j \in 1..(n - taken[n]) : \E m \in 1..n : out[m] = q[j]
            some == {n \in 0..N : Upto(n)}
<1>1. Len(p) \in Nat /\ Len(q) \in Nat /\ N \in Nat
  OBVIOUS
<1>2. \A n \in 0..N : taken[n] \in 0..Len(p) /\ n - taken[n] \in 0..Len(q)
  BY TakenBounded
<1>3. ASSUME NEW n \in 1..N
      PROVE  LET i == taken[n - 1]
                 j == n - 1 - i
             IN  \/ taken[n] = i /\ j < Len(q) /\ out[n] = q[j + 1]
                 \/ taken[n] = i + 1 /\ i < Len(p) /\ out[n] = p[i + 1]
  <2>1. n - 1 \in 0..N
    BY <1>1
  <2>2. taken[n - 1] \in 0..Len(p) /\ (n - 1) - taken[n - 1] \in 0..Len(q)
    <3>. HIDE DEF N
    <3>. QED  BY <1>2, <2>1
  <2>. QED  BY <2>2, MergeStep
<1>4. \A n \in 1..N : out[n] \in ToSet(p) \union ToSet(q) /\ out[n] \in S
  <2>1. SUFFICES ASSUME NEW n \in 1..N
                 PROVE  out[n] \in ToSet(p) \union ToSet(q) /\ out[n] \in S
    OBVIOUS
  <2>2. n - 1 \in 0..N
    BY <1>1
  <2>3. taken[n - 1] \in 0..Len(p) /\ n - 1 - taken[n - 1] \in 0..Len(q)
    <3>. HIDE DEF N, out
    <3>. QED  BY <1>2, <2>2
  <2>4. (\E j \in 1..Len(q) : out[n] = q[j]) \/ (\E i \in 1..Len(p) : out[n] = p[i])
    <3>. DEFINE i == taken[n - 1]
                j == n - 1 - i
    <3>1. (taken[n] = i /\ j < Len(q) /\ out[n] = q[j + 1])
            \/ (taken[n] = i + 1 /\ i < Len(p) /\ out[n] = p[i + 1])
      BY <1>3
    <3>2. i \in Nat /\ j \in Nat
      BY <2>3, <1>1
    <3>. HIDE DEF out, i, j, N
    <3>3. CASE j < Len(q) /\ out[n] = q[j + 1]
      <4>1. j + 1 \in 1..Len(q)
        BY <3>2, <3>3, <1>1
      <4>. QED  BY <3>3, <4>1
    <3>4. CASE i < Len(p) /\ out[n] = p[i + 1]
      <4>1. i + 1 \in 1..Len(p)
        BY <3>2, <3>4, <1>1
      <4>. QED  BY <3>4, <4>1
    <3>. QED  BY <3>1, <3>3, <3>4
  <2>. HIDE DEF out
  <2>. QED  BY <2>4 DEF ToSet
<1>5. out \in Seq(S) /\ Len(out) = N
  <2>1. out = [n \in 1..N |-> out[n]]
    BY DEF MergedBy
  <2>. HIDE DEF out, N
  <2>2. out \in [1..N -> S]
    BY <1>4, <2>1
  <2>. QED  BY <1>1, <2>2
<1>6. 0 \in some
  BY <1>1 DEF IsTaken
<1>7. ASSUME NEW n \in 0..(N - 1), n \in some
      PROVE  n + 1 \in some
  <2>. DEFINE m == n + 1
              k == taken[n]
  <2>1. m \in 1..N /\ m - 1 = n /\ m \in 0..N /\ n \in 0..N /\ n \in Nat
    BY <1>1
  <2>2. Upto(n)
    BY <1>7
  <2>. HIDE DEF m, N, out
  <2>3. k \in 0..Len(p) /\ n - k \in 0..Len(q)
    BY <1>2, <2>1
  <2>4. \/ taken[m] = k /\ out[m] = q[(n - k) + 1]
        \/ taken[m] = k + 1 /\ out[m] = p[k + 1]
    BY <1>3, <2>1
  <2>. HIDE DEF k
  <2>5. /\ \A i \in 1..k : \E l \in 1..n : out[l] = p[i]
        /\ \A j \in 1..(n - k) : \E l \in 1..n : out[l] = q[j]
    BY <2>2 DEF k
  <2>6. m \in 1..m /\ m = n + 1 /\ \A l \in 1..n : l \in 1..m
    BY <2>1 DEF m
  <2>7. CASE taken[m] = k /\ out[m] = q[(n - k) + 1]
    <3>1. \A i \in 1..k : \E l \in 1..m : out[l] = p[i]
      BY <2>5, <2>6
    <3>2. \A j \in 1..(m - k) : j = (n - k) + 1 \/ j \in 1..(n - k)
      BY <2>1, <2>3, <2>6
    <3>3. \A j \in 1..(m - k) : \E l \in 1..m : out[l] = q[j]
      BY <2>5, <2>6, <2>7, <3>2
    <3>. QED  BY <2>1, <2>6, <2>7, <3>1, <3>3
  <2>8. CASE taken[m] = k + 1 /\ out[m] = p[k + 1]
    <3>1. \A i \in 1..(k + 1) : i = k + 1 \/ i \in 1..k
      BY <2>3
    <3>2. \A i \in 1..(k + 1) : \E l \in 1..m : out[l] = p[i]
      BY <2>5, <2>6, <2>8, <3>1
    <3>3. m - (k + 1) = n - k
      BY <2>1, <2>3, <2>6
    <3>4. \A j \in 1..(n - k) : \E l \in 1..m : out[l] = q[j]
      BY <2>5, <2>6
    <3>. QED  BY <2>1, <2>6, <2>8, <3>2, <3>3, <3>4
  <2>. QED  BY <2>4, <2>7, <2>8
<1>8. N \in some
  <2>. HIDE DEF some, N
  <2>1. \A n \in 0..N : n \in some
    BY <1>1, <1>6, <1>7, Upward
  <2>. QED  BY <1>1, <2>1
<1>9. taken[N] = Len(p) /\ N - taken[N] = Len(q)
  <2>1. taken[N] \in 0..Len(p) /\ N - taken[N] \in 0..Len(q)
    <3>. HIDE DEF N
    <3>. QED  BY <1>1, <1>2
  <2>. QED  BY <1>1, <2>1
<1>10. Upto(N)
  BY <1>8
<1>. HIDE DEF out, N
<1>11. /\ \A i \in 1..Len(p) : \E n \in 1..N : out[n] = p[i]
       /\ \A j \in 1..Len(q) : \E n \in 1..N : out[n] = q[j]
  BY <1>9, <1>10
<1>12. N = Len(p) + Len(q)
  BY DEF N
<1>13. out = MergedBy(p, q, taken)
  BY DEF out
<1>. QED  BY <1>4, <1>5, <1>11, <1>12, <1>13

\* What is taken goes before all that is left of the two runs.
LEMMA MergeSorted ==
  ASSUME NEW S, Ranked(S), NEW p \in Seq(S), NEW q \in Seq(S), NEW taken, IsTaken(p, q, taken),
         Sorted(p), Sorted(q)
  PROVE  Sorted(MergedBy(p, q, taken))
<1>. DEFINE N == Len(p) + Len(q)
            out == MergedBy(p, q, taken)
            Ahead(n) == \A m \in 1..n :
                          /\ \A i \in (taken[n] + 1)..Len(p) : Before(out[m], p[i])
                          /\ \A j \in (n - taken[n] + 1)..Len(q) : Before(out[m], q[j])
            some == {n \in 0..N : Ahead(n)}
<1>1. Len(p) \in Nat /\ Len(q) \in Nat /\ N \in Nat
  OBVIOUS
<1>2. \A n \in 0..N : taken[n] \in 0..Len(p) /\ n - taken[n] \in 0..Len(q)
  BY TakenBounded
<1>3. ASSUME NEW n \in 1..N
      PROVE  LET i == taken[n - 1]
                 j == n - 1 - i
             IN  \/ /\ taken[n] = i /\ j < Len(q) /\ out[n] = q[j + 1]
                    /\ i < Len(p) => Before(out[n], p[i + 1])
                 \/ /\ taken[n] = i + 1 /\ i < Len(p) /\ out[n] = p[i + 1]
                    /\ j < Len(q) => ~Before(q[j + 1], out[n])
  <2>1. n - 1 \in 0..N
    BY <1>1
  <2>2. taken[n - 1] \in 0..Len(p) /\ (n - 1) - taken[n - 1] \in 0..Len(q)
    <3>. HIDE DEF N
    <3>. QED  BY <1>2, <2>1
  <2>. QED  BY <2>2, MergeStep
<1>4. Len(out) = N
  BY MergeElements
<1>5. /\ \A a, b \in S : Before(a, b) \/ Before(b, a)
      /\ \A a, b, c \in S : Before(a, b) /\ Before(b, c) => Before(a, c)
  BY DEF Ranked
<1>6. ASSUME NEW list \in Seq(S), Sorted(list), NEW a \in S, NEW i \in 1..Len(list),
             Before(a, list[i]), NEW j \in i..Len(list)
      PROVE  Before(a, list[j])
  <2>1. j \in 1..Len(list) /\ list[i] \in S /\ list[j] \in S
    OBVIOUS
  <2>2. CASE i = j
    BY <1>6, <2>2
  <2>3. CASE i # j
    <3>1. Before(list[i], list[j])
      BY <1>6, <2>1, <2>3 DEF Sorted
    <3>. QED  BY <1>5, <1>6, <2>1, <3>1
  <2>. QED  BY <2>2, <2>3
<1>7. 0 \in some
  BY <1>1
<1>8. ASSUME NEW n \in 0..(N - 1), n \in some
      PROVE  n + 1 \in some
  <2>. DEFINE m == n + 1
              k == taken[n]
  <2>1. m \in 1..N /\ m - 1 = n /\ m \in 0..N /\ n \in 0..N /\ n \in Nat
    BY <1>1
  <2>2. Ahead(n)
    BY <1>8
  <2>. HIDE DEF m, N, out, some
  <2>3. k \in 0..Len(p) /\ n - k \in 0..Len(q)
    BY <1>2, <2>1
  <2>4. \/ /\ taken[m] = k /\ n - k < Len(q) /\ out[m] = q[(n - k) + 1]
           /\ k < Len(p) => Before(out[m], p[k + 1])
        \/ /\ taken[m] = k + 1 /\ k < Len(p) /\ out[m] = p[k + 1]
           /\ n - k < Len(q) => ~Before(q[(n - k) + 1], out[m])
    BY <1>3, <2>1
  <2>5. /\ \A l \in 1..n, i \in (k + 1)..Len(p) : Before(out[l], p[i])
        /\ \A l \in 1..n, j \in (n - k + 1)..Len(q) : Before(out[l], q[j])
    BY <2>2
  <2>6. m = n + 1 /\ \A l \in 1..m : l = m \/ l \in 1..n
    BY <2>1 DEF m
  <2>. HIDE DEF k
  <2>7. CASE /\ taken[m] = k /\ n - k < Len(q) /\ out[m] = q[(n - k) + 1]
             /\ k < Len(p) => Before(out[m], p[k + 1])
    <3>. DEFINE j0 == (n - k) + 1
    <3>1. j0 \in 1..Len(q) /\ out[m] = q[j0] /\ out[m] \in S /\ m - k + 1 = j0 + 1
      BY <1>1, <2>1, <2>3, <2>6, <2>7
    <3>2. ASSUME NEW i \in (k + 1)..Len(p)
          PROVE  Before(out[m], p[i])
      <4>1. k + 1 \in 1..Len(p) /\ Before(out[m], p[k + 1]) /\ i \in (k + 1)..Len(p)
        BY <1>1, <2>3, <2>7
      <4>. QED  BY <1>6, <3>1, <4>1
    <3>3. ASSUME NEW j \in (j0 + 1)..Len(q)
          PROVE  Before(out[m], q[j]) /\ j \in (n - k + 1)..Len(q)
      <4>1. j \in 1..Len(q) /\ j0 < j /\ j \in (n - k + 1)..Len(q)
        BY <3>1, <2>1, <2>3
      <4>. QED  BY <3>1, <4>1 DEF Sorted
    <3>. HIDE DEF j0
    <3>4. \A l \in 1..m : /\ \A i \in (k + 1)..Len(p) : Before(out[l], p[i])
                          /\ \A j \in (j0 + 1)..Len(q) : Before(out[l], q[j])
      BY <2>5, <2>6, <3>2, <3>3
    <3>5. Ahead(m)
      BY <2>7, <3>1, <3>4
    <3>. QED  BY <2>1, <2>6, <3>5 DEF some
  <2>8. CASE /\ taken[m] = k + 1 /\ k < Len(p) /\ out[m] = p[k + 1]
             /\ n - k < Len(q) => ~Before(q[(n - k) + 1], out[m])
    <3>. DEFINE i0 == k + 1
    <3>1. i0 \in 1..Len(p) /\ out[m] = p[i0] /\ out[m] \in S /\ m - i0 = n - k
      BY <1>1, <2>1, <2>3, <2>6, <2>8
    <3>2. ASSUME NEW j \in (n - k + 1)..Len(q)
          PROVE  Before(out[m], q[j])
      <4>. DEFINE j0 == (n - k) + 1
      <4>1. j0 \in 1..Len(q) /\ n - k < Len(q) /\ j \in j0..Len(q) /\ q[j0] \in S
        BY <1>1, <2>3
      <4>2. ~Before(q[j0], out[m])
        BY <2>8, <4>1
      <4>. HIDE DEF j0
      <4>3. Before(out[m], q[j0])
        BY <1>5, <3>1, <4>1, <4>2
      <4>. QED  BY <1>6, <3>1, <4>1, <4>3
    <3>3. ASSUME NEW i \in (i0 + 1)..Len(p)
          PROVE  Before(out[m], p[i]) /\ i \in (k + 1)..Len(p)
      <4>1. i \in 1..Len(p) /\ i0 < i /\ i \in (k + 1)..Len(p)
        BY <3>1, <2>3
      <4>. QED  BY <3>1, <4>1 DEF Sorted
    <3>4. taken[m] = i0
      BY <2>8
    <3>. HIDE DEF i0
    <3>5. \A l \in 1..m : /\ \A i \in (i0 + 1)..Len(p) : Before(out[l], p[i])
                          /\ \A j \in (n - k + 1)..Len(q) : Before(out[l], q[j])
      BY <2>5, <2>6, <3>2, <3>3
    <3>6. Ahead(m)
      BY <3>1, <3>4, <3>5
    <3>. QED  BY <2>1, <2>6, <3>6 DEF some
  <2>. QED  BY <2>4, <2>7, <2>8
<1>9. \A n \in 0..N : Ahead(n)
  <2>. HIDE DEF some, N
  <2>1. \A n \in 0..N : n \in some
    BY <1>1, <1>7, <1>8, Upward
  <2>. QED  BY <2>1 DEF some
<1>10. ASSUME NEW m \in 1..N, NEW n \in 1..N, m < n
       PROVE  Before(out[m], out[n])
  <2>. DEFINE b == n - 1
              k == taken[b]
  <2>1. b \in 0..N /\ m \in 1..b /\ b \in Nat
    BY <1>1, <1>10
  <2>. HIDE DEF N, out, b
  <2>2. Ahead(b) /\ k \in 0..Len(p) /\ b - k \in 0..Len(q)
    BY <1>2, <1>9, <2>1
  <2>3. \/ b - k < Len(q) /\ out[n] = q[b - k + 1]
        \/ k < Len(p) /\ out[n] = p[k + 1]
    BY <1>3 DEF b
  <2>4. CASE b - k < Len(q) /\ out[n] = q[b - k + 1]
    <3>1. b - k + 1 \in (b - k + 1)..Len(q)
      BY <1>1, <2>1, <2>2, <2>4
    <3>. QED  BY <2>1, <2>2, <2>4, <3>1
  <2>5. CASE k < Len(p) /\ out[n] = p[k + 1]
    <3>1. k + 1 \in (k + 1)..Len(p)
      BY <1>1, <2>2, <2>5
    <3>. QED  BY <2>1, <2>2, <2>5, <3>1
  <2>. QED  BY <2>3, <2>4, <2>5
<1>. HIDE DEF N, out
<1>11. Sorted(out)
  BY <1>4, <1>10 DEF Sorted
<1>. QED  BY <1>11 DEF out

\* What merging two runs makes.
LEMMA MergeIs ==
  ASSUME NEW S, NEW p \in Seq(S), NEW q \in Seq(S)
  PROVE  LET out == Merge(p, q)
         IN  /\ out \in Seq(S) /\ Len(out) = Len(p) + Len(q)
             /\ ToSet(out) = ToSet(p) \union ToSet(q)
             /\ Ranked(S) /\ Sorted(p) /\ Sorted(q) => Sorted(out)
<1>1. PICK taken : IsTaken(p, q, taken) /\ Merge(p, q) = MergedBy(p, q, taken)
  BY MergeBy
<1>. DEFINE out == MergedBy(p, q, taken)
<1>2. /\ out \in Seq(S) /\ Len(out) = Len(p) + Len(q)
      /\ \A n \in 1..Len(out) : out[n] \in ToSet(p) \union ToSet(q)
      /\ \A i \in 1..Len(p) : \E n \in 1..Len(out) : out[n] = p[i]
      /\ \A j \in 1..Len(q) : \E n \in 1..Len(out) : out[n] = q[j]
  <2>1. IsTaken(p, q, taken)
    BY <1>1
  <2>2. out \in Seq(S) /\ Len(out) = Len(p) + Len(q)
    BY <2>1, MergeElements
  <2>3. \A n \in 1..(Len(p) + Len(q)) : out[n] \in ToSet(p) \union ToSet(q)
    BY <2>1, MergeElements
  <2>4. \A i \in 1..Len(p) : \E n \in 1..(Len(p) + Len(q)) : out[n] = p[i]
    BY <2>1, MergeElements
  <2>5. \A j \in 1..Len(q) : \E n \in 1..(Len(p) + Len(q)) : out[n] = q[j]
    BY <2>1, MergeElements
  <2>. HIDE DEF out
  <2>. QED  BY <2>2, <2>3, <2>4, <2>5, Zenon
<1>3. Ranked(S) /\ Sorted(p) /\ Sorted(q) => Sorted(out)
  BY <1>1, MergeSorted
<1>. HIDE DEF out
<1>4. ToSet(out) = ToSet(p) \union ToSet(q)
  <2>1. DOMAIN out = 1..Len(out) /\ DOMAIN p = 1..Len(p) /\ DOMAIN q = 1..Len(q)
    BY <1>2
  <2>2. \A x \in ToSet(out) : x \in ToSet(p) \union ToSet(q)
    BY <1>2, <2>1 DEF ToSet
  <2>3. \A x \in ToSet(p) \union ToSet(q) : x \in ToSet(out)
    <3>1. \A i \in 1..Len(p) : p[i] \in ToSet(out)
      BY <1>2, <2>1 DEF ToSet
    <3>2. \A j \in 1..Len(q) : q[j] \in ToSet(out)
      BY <1>2, <2>1 DEF ToSet
    <3>. QED  BY <2>1, <3>1, <3>2 DEF ToSet
  <2>. QED  BY <2>2, <2>3
<1>5. out = Merge(p, q)
  BY <1>1 DEF out
<1>. QED  BY <1>2, <1>3, <1>4, <1>5

-----------------------------------------------------------------------------
(* A pass over runs of k methods leaves sorted runs of twice as many.      *)

InRuns(list, k) ==
  \A m \in Nat : \A i, j \in 1..Len(list) :
    m * k < i /\ i < j /\ j <= m * k + k => Before(list[i], list[j])

LEMMA RunIs ==
  ASSUME NEW S, NEW list \in Seq(S), NEW first \in Nat, NEW k \in Nat
  PROVE  /\ Run(list, first, k) \in Seq(S)
         /\ Len(Run(list, first, k)) = IF first + k < Len(list) THEN k
                                       ELSE IF first < Len(list) THEN Len(list) - first ELSE 0
         /\ \A i \in 1..Len(Run(list, first, k)) :
              first + i \in 1..Len(list) /\ Run(list, first, k)[i] = list[first + i]
<1>. DEFINE last == IF first + k < Len(list) THEN first + k ELSE Len(list)
            run == SubSeq(list, first + 1, last)
<1>1. last \in Nat /\ last <= Len(list) /\ Len(list) \in Nat
  OBVIOUS
<1>2. run = Run(list, first, k)
  BY DEF Run
<1>. HIDE DEF last
<1>3. /\ run \in Seq(S) /\ Len(run) = IF first < last THEN last - first ELSE 0
      /\ \A i \in 1..Len(run) : first + i \in 1..Len(list) /\ run[i] = list[first + i]
  <2>1. \A i \in (first + 1)..last : list[i] \in S
    BY <1>1
  <2>2. run \in Seq(S)
    BY <1>1, <2>1, SubSeqProperties
  <2>3. Len(run) = IF first < last THEN last - first ELSE 0
    BY <1>1
  <2>4. ASSUME NEW i \in 1..Len(run)
        PROVE  first + i \in 1..Len(list) /\ run[i] = list[first + i]
    <3>1. i \in 1..(last - first) /\ first < last
      BY <1>1, <2>3
    <3>2. i \in 1..(last + 1 - (first + 1))
      BY <1>1, <3>1
    <3>3. run[i] = list[(first + 1) + i - 1]
      BY <1>1, <3>2
    <3>. QED  BY <1>1, <3>1, <3>3
  <2>. QED  BY <2>2, <2>3, <2>4
<1>. HIDE DEF run
<1>4. Len(run) = IF first + k < Len(list) THEN k
                 ELSE IF first < Len(list) THEN Len(list) - first ELSE 0
  BY <1>1, <1>3 DEF last
<1>. QED  BY <1>2, <1>3, <1>4

LEMMA RunItem ==
  ASSUME NEW S, NEW list \in Seq(S), NEW first \in Nat, NEW k \in Nat,
         NEW i \in 1..Len(Run(list, first, k))
  PROVE  first + i \in 1..Len(list) /\ Run(list, first, k)[i] = list[first + i]
BY RunIs

LEMMA Multiples ==
  ASSUME NEW k \in Nat \ {0}, NEW m \in Nat, NEW n \in Nat
  PROVE  /\ m * k \in Nat /\ (2 * k) * n = (2 * n) * k /\ (2 * k) * n + k = (2 * n + 1) * k
         /\ m < n => m * k + k <= n * k
         /\ n <= k * n
<1>1. m * k \in Nat
  OBVIOUS
<1>2. (2 * k) * n = (2 * n) * k /\ (2 * k) * n + k = (2 * n + 1) * k
  OBVIOUS
<1>3. ASSUME m < n
      PROVE  m * k + k <= n * k
  <2>1. PICK d \in Nat : n = m + 1 + d
    <3>1. n - m - 1 \in Nat /\ n = m + 1 + (n - m - 1)
      BY <1>3
    <3>. QED  BY <3>1
  <2>2. n * k = m * k + k + d * k
    BY <2>1
  <2>3. d * k \in Nat
    OBVIOUS
  <2>. QED  BY <1>1, <2>2, <2>3
<1>4. n <= k * n
  <2>1. k * n = n + (k - 1) * n
    OBVIOUS
  <2>2. k - 1 \in Nat
    OBVIOUS
  <2>3. (k - 1) * n \in Nat
    BY <2>2
  <2>. QED  BY <2>1, <2>3
<1>. QED  BY <1>1, <1>2, <1>3, <1>4

\* A run at a multiple of k is sorted.
LEMMA RunSorted ==
  ASSUME NEW S, NEW list \in Seq(S), NEW k \in Nat \ {0}, InRuns(list, k), NEW m \in Nat
  PROVE  Sorted(Run(list, m * k, k))
<1>. DEFINE run == Run(list, m * k, k)
<1>1. m * k \in Nat
  BY Multiples
<1>2. /\ Len(run) \in Nat /\ Len(run) <= k
      /\ \A i \in 1..Len(run) : m * k + i \in 1..Len(list) /\ run[i] = list[m * k + i]
  <2>. DEFINE first == m * k
  <2>1. first \in Nat
    BY <1>1
  <2>. HIDE DEF first
  <2>2. /\ Len(Run(list, first, k)) = IF first + k < Len(list) THEN k
                                      ELSE IF first < Len(list) THEN Len(list) - first ELSE 0
        /\ \A i \in 1..Len(Run(list, first, k)) :
             first + i \in 1..Len(list) /\ Run(list, first, k)[i] = list[first + i]
    <3>1. k \in Nat
      OBVIOUS
    <3>2. Len(Run(list, first, k)) = IF first + k < Len(list) THEN k
                                     ELSE IF first < Len(list) THEN Len(list) - first ELSE 0
      BY <2>1, <3>1, RunIs
    <3>3. \A i \in 1..Len(Run(list, first, k)) :
            first + i \in 1..Len(list) /\ Run(list, first, k)[i] = list[first + i]
      BY <2>1, <3>1, RunIs
    <3>. QED  BY <3>2, <3>3
  <2>3. Len(list) \in Nat
    OBVIOUS
  <2>4. /\ Len(Run(list, first, k)) \in Nat /\ Len(Run(list, first, k)) <= k
        /\ \A i \in 1..Len(Run(list, first, k)) :
             first + i \in 1..Len(list) /\ Run(list, first, k)[i] = list[first + i]
    BY <2>1, <2>2, <2>3
  <2>. QED  BY <2>4 DEF first
<1>. HIDE DEF run
<1>3. ASSUME NEW i \in 1..Len(run), NEW j \in 1..Len(run), i < j
      PROVE  Before(run[i], run[j])
  <2>1. m * k < m * k + i /\ m * k + i < m * k + j /\ m * k + j <= m * k + k
    BY <1>1, <1>2, <1>3
  <2>. QED  BY <1>2, <1>3, <2>1 DEF InRuns
<1>4. Sorted(run)
  BY <1>3 DEF Sorted
<1>. QED  BY <1>4 DEF run

\* When the first n pairs of runs of a list are merged.
Passed(S, list, k, n, out) ==
  /\ out \in Seq(S) /\ Len(out) = IF 2 * k * n < Len(list) THEN 2 * k * n ELSE Len(list)
  /\ \A i \in 1..Len(out) : \E j \in 1..Len(list) : out[i] = list[j]
  /\ \A j \in 1..Len(list) : j <= 2 * k * n => \E i \in 1..Len(out) : list[j] = out[i]
  /\ Ranked(S) /\ InRuns(list, k) => InRuns(out, 2 * k)

LEMMA Appended ==
  ASSUME NEW S, NEW p \in Seq(S), NEW q \in Seq(S)
  PROVE  /\ p \o q \in Seq(S) /\ Len(p \o q) = Len(p) + Len(q)
         /\ \A i \in 1..Len(p) : i \in 1..Len(p \o q) /\ (p \o q)[i] = p[i]
         /\ \A i \in 1..Len(q) : Len(p) + i \in 1..Len(p \o q) /\ (p \o q)[Len(p) + i] = q[i]
OBVIOUS

\* The next pair.
LEMMA PairMerged ==
  ASSUME NEW S, NEW list \in Seq(S), NEW k \in Nat \ {0}, NEW n \in Nat, NEW out,
         Passed(S, list, k, n, out)
  PROVE  Passed(S, list, k, n + 1,
                out \o Merge(Run(list, 2 * k * n, k), Run(list, 2 * k * n + k, k)))
<1>. DEFINE first == 2 * k * n
            w == 2 * k
            L == Len(list)
            p == Run(list, first, k)
            q == Run(list, first + k, k)
            m == Merge(p, q)
            new == out \o m
<1>1. /\ first \in Nat /\ w \in Nat \ {0} /\ w = k + k /\ L \in Nat /\ 2 * k * (n + 1) = first + w
      /\ first = n * w
  <2>1. w \in Nat \ {0} /\ w = k + k /\ L \in Nat
    OBVIOUS
  <2>2. first = n * w /\ 2 * k * (n + 1) = first + w
    OBVIOUS
  <2>3. n * w \in Nat
    <3>. HIDE DEF w
    <3>. QED  BY <2>1, Multiples
  <2>. QED  BY <2>1, <2>2, <2>3
<1>2. /\ out \in Seq(S) /\ Len(out) = IF first < L THEN first ELSE L
      /\ \A i \in 1..Len(out) : \E j \in 1..L : out[i] = list[j]
      /\ \A j \in 1..L : j <= first => \E i \in 1..Len(out) : list[j] = out[i]
      /\ Ranked(S) /\ InRuns(list, k) => InRuns(out, w)
  BY DEF Passed
<1>3. Ranked(S) /\ InRuns(list, k) => Sorted(p) /\ Sorted(q)
  <2>1. first = (2 * n) * k /\ first + k = (2 * n + 1) * k /\ 2 * n \in Nat /\ 2 * n + 1 \in Nat
    BY Multiples
  <2>. HIDE DEF first
  <2>. QED  BY <2>1, RunSorted
<1>. HIDE DEF first, w, L
<1>4. /\ p \in Seq(S)
      /\ Len(p) = IF first + k < L THEN k ELSE IF first < L THEN L - first ELSE 0
  BY <1>1, RunIs DEF L
<1>5. \A i \in 1..Len(p) : first + i \in 1..L /\ p[i] = list[first + i]
  BY <1>1, RunItem DEF L
<1>6. /\ q \in Seq(S)
      /\ Len(q) = IF first + k + k < L THEN k ELSE IF first + k < L THEN L - (first + k) ELSE 0
  <2>1. first + k \in Nat
    BY <1>1
  <2>. QED  BY <2>1, RunIs DEF L
<1>7. \A i \in 1..Len(q) : first + k + i \in 1..L /\ q[i] = list[first + k + i]
  <2>1. first + k \in Nat
    BY <1>1
  <2>. QED  BY <2>1, RunItem DEF L
<1>. HIDE DEF p, q
<1>8. /\ m \in Seq(S) /\ Len(m) = Len(p) + Len(q)
      /\ ToSet(m) = ToSet(p) \union ToSet(q)
      /\ Ranked(S) /\ Sorted(p) /\ Sorted(q) => Sorted(m)
  BY <1>4, <1>6, MergeIs
<1>. HIDE DEF m
<1>9. /\ \A i \in 1..Len(m) : \E j \in 1..L : m[i] = list[j]
      /\ \A i \in 1..Len(p) : \E j \in 1..Len(m) : m[j] = p[i]
      /\ \A i \in 1..Len(q) : \E j \in 1..Len(m) : m[j] = q[i]
  <2>1. DOMAIN m = 1..Len(m) /\ DOMAIN p = 1..Len(p) /\ DOMAIN q = 1..Len(q)
    BY <1>4, <1>6, <1>8
  <2>2. \A i \in 1..Len(m) : m[i] \in ToSet(p) \union ToSet(q)
    BY <1>8, <2>1 DEF ToSet
  <2>3. \A i \in 1..Len(m) : (\E j \in 1..Len(p) : m[i] = p[j]) \/ (\E j \in 1..Len(q) : m[i] = q[j])
    BY <2>1, <2>2 DEF ToSet
  <2>4. \A i \in 1..Len(m) : \E j \in 1..L : m[i] = list[j]
    BY <1>5, <1>7, <2>3
  <2>5. \A i \in 1..Len(p) : p[i] \in ToSet(m)
    BY <1>8, <2>1 DEF ToSet
  <2>6. \A i \in 1..Len(q) : q[i] \in ToSet(m)
    BY <1>8, <2>1 DEF ToSet
  <2>. QED  BY <2>1, <2>4, <2>5, <2>6 DEF ToSet
<1>10. /\ new \in Seq(S) /\ Len(new) = Len(out) + Len(m)
       /\ \A i \in 1..Len(out) : i \in 1..Len(new) /\ new[i] = out[i]
       /\ \A i \in 1..Len(m) : Len(out) + i \in 1..Len(new) /\ new[Len(out) + i] = m[i]
  <2>1. out \in Seq(S) /\ m \in Seq(S)
    BY <1>2, <1>8
  <2>2. new \in Seq(S) /\ Len(new) = Len(out) + Len(m)
    BY <2>1, Appended
  <2>3. \A i \in 1..Len(out) : i \in 1..Len(new) /\ new[i] = out[i]
    BY <2>1, Appended
  <2>4. \A i \in 1..Len(m) : Len(out) + i \in 1..Len(new) /\ new[Len(out) + i] = m[i]
    BY <2>1, Appended
  <2>. QED  BY <2>2, <2>3, <2>4
<1>11. /\ Len(out) \in Nat /\ Len(m) \in Nat /\ Len(p) \in Nat /\ Len(q) \in Nat
       /\ Len(new) = IF first + w < L THEN first + w ELSE L
  <2>1. Len(out) \in Nat /\ Len(p) \in Nat /\ Len(q) \in Nat
    BY <1>2, <1>4, <1>6
  <2>. QED  BY <1>1, <1>2, <1>4, <1>6, <1>8, <1>10, <2>1
<1>. HIDE DEF new
<1>12. \A i \in 1..Len(new) : i \in 1..Len(out) \/ (i - Len(out) \in 1..Len(m)
                                                    /\ i = Len(out) + (i - Len(out)))
  BY <1>10, <1>11
<1>13. \A i \in 1..Len(new) : \E j \in 1..L : new[i] = list[j]
  <2>1. SUFFICES ASSUME NEW i \in 1..Len(new)
                 PROVE  \E j \in 1..L : new[i] = list[j]
    OBVIOUS
  <2>2. CASE i \in 1..Len(out)
    BY <1>2, <1>10, <2>2
  <2>3. CASE i - Len(out) \in 1..Len(m) /\ i = Len(out) + (i - Len(out))
    <3>1. new[i] = m[i - Len(out)]
      BY <1>10, <2>3
    <3>. QED  BY <1>9, <2>3, <3>1
  <2>. QED  BY <1>12, <2>2, <2>3
<1>14. \A j \in 1..L : j <= first + w => \E i \in 1..Len(new) : list[j] = new[i]
  <2>1. SUFFICES ASSUME NEW j \in 1..L, j <= first + w
                 PROVE  \E i \in 1..Len(new) : list[j] = new[i]
    OBVIOUS
  <2>2. CASE j <= first
    BY <1>2, <1>10, <2>2
  <2>3. CASE first < j /\ j <= first + k
    <3>1. j - first \in 1..Len(p) /\ first + (j - first) = j
      BY <1>1, <1>4, <2>3
    <3>2. p[j - first] = list[j]
      BY <1>5, <3>1
    <3>. QED  BY <1>9, <1>10, <3>1, <3>2
  <2>4. CASE first + k < j
    <3>1. j - (first + k) \in 1..Len(q) /\ first + k + (j - (first + k)) = j
      BY <1>1, <1>6, <2>1, <2>4
    <3>2. q[j - (first + k)] = list[j]
      BY <1>7, <3>1
    <3>. QED  BY <1>9, <1>10, <3>1, <3>2
  <2>. QED  BY <1>1, <2>2, <2>3, <2>4
<1>15. ASSUME Ranked(S), InRuns(list, k)
       PROVE  InRuns(new, w)
  <2>1. InRuns(out, w) /\ Sorted(m)
    BY <1>2, <1>3, <1>8, <1>15
  <2>2. SUFFICES ASSUME NEW a \in Nat, NEW i \in 1..Len(new), NEW j \in 1..Len(new),
                        a * w < i, i < j, j <= a * w + w
                 PROVE  Before(new[i], new[j])
    BY DEF InRuns
  <2>3. CASE j \in 1..Len(out)
    <3>1. i \in 1..Len(out)
      BY <1>11, <2>2, <2>3
    <3>2. Before(out[i], out[j])
      BY <2>1, <2>2, <2>3, <3>1 DEF InRuns
    <3>. QED  BY <1>10, <2>3, <3>1, <3>2
  <2>4. CASE j \notin 1..Len(out)
    <3>1. Len(out) = first /\ first < j /\ j <= first + w
      BY <1>1, <1>2, <1>11, <2>4
    <3>2. a * w \in Nat
      BY <1>1, Multiples
    <3>3. ~(a < n)
      <4>1. a < n => a * w + w <= n * w
        BY <1>1, Multiples
      <4>. QED  BY <1>1, <2>2, <3>1, <3>2, <4>1
    <3>4. first <= a * w
      <4>1. CASE a = n
        BY <1>1, <3>2, <4>1
      <4>2. CASE n < a
        <5>1. n * w + w <= a * w
          BY <1>1, <4>2, Multiples
        <5>. QED  BY <1>1, <3>2, <5>1
      <4>. QED  BY <3>3, <4>1, <4>2
    <3>5. i \notin 1..Len(out)
      BY <2>2, <3>1, <3>2, <3>4
    <3>6. /\ i - Len(out) \in 1..Len(m) /\ i = Len(out) + (i - Len(out))
          /\ j - Len(out) \in 1..Len(m) /\ j = Len(out) + (j - Len(out))
          /\ i - Len(out) < j - Len(out)
      BY <1>11, <1>12, <2>2, <2>4, <3>5
    <3>7. Before(m[i - Len(out)], m[j - Len(out)])
      BY <2>1, <3>6 DEF Sorted
    <3>. QED  BY <1>10, <3>6, <3>7
  <2>. QED  BY <2>3, <2>4
<1>16. Passed(S, list, k, n + 1, new)
  BY <1>1, <1>10, <1>11, <1>13, <1>14, <1>15 DEF Passed, w, L
<1>. QED  BY <1>16 DEF new, m, p, q, first

\* What a pass makes of a list.
LEMMA PassIs ==
  ASSUME NEW S, NEW list \in Seq(S), NEW k \in Nat \ {0}
  PROVE  Passed(S, list, k, Len(list), Pass(list, k)) /\ 2 * k * Len(list) >= Len(list)
<1>. DEFINE N == Len(list)
            After(n, out) == out \o Merge(Run(list, 2 * k * (n - 1), k),
                                          Run(list, 2 * k * (n - 1) + k, k))
            step == [x \in (1..N) \X Seq(S) |-> After(x[1], x[2])]
            IsRun(f) == f = [n \in 0..N |-> IF n = 0 THEN <<>> ELSE After(n, f[n - 1])]
            run == CHOOSE f : IsRun(f)
<1>1. Pass(list, k) = run[N]
  BY DEF Pass
<1>2. N \in Nat
  OBVIOUS
<1>3. step \in [(1..N) \X Seq(S) -> Seq(S)]
  <2>1. ASSUME NEW n \in 1..N, NEW out \in Seq(S)
        PROVE  After(n, out) \in Seq(S)
    <3>. DEFINE first == 2 * k * (n - 1)
    <3>1. first \in Nat /\ first + k \in Nat /\ k \in Nat
      <4>1. n - 1 \in Nat /\ 2 * k \in Nat \ {0}
        BY <1>2
      <4>2. (n - 1) * (2 * k) \in Nat
        BY <4>1, Multiples
      <4>. QED  BY <4>1, <4>2
    <3>. HIDE DEF first, N
    <3>2. Run(list, first, k) \in Seq(S)
      BY <3>1, RunIs
    <3>3. Run(list, first + k, k) \in Seq(S)
      BY <3>1, RunIs
    <3>4. Merge(Run(list, first, k), Run(list, first + k, k)) \in Seq(S)
      BY <3>2, <3>3, MergeIs
    <3>. QED  BY <3>4, Appended DEF first
  <2>. HIDE DEF After, N
  <2>. QED  BY <2>1
<1>4. \E f : IsRun(f)
  <2>. HIDE DEF step, N
  <2>0. <<>> \in Seq(S)
    OBVIOUS
  <2>1. PICK f \in [0..N -> Seq(S)] : Follows(f, N, <<>>, step)
    BY <1>2, <1>3, <2>0, Recursion
  <2>2. ASSUME NEW n \in 1..N
        PROVE  f[n] = After(n, f[n - 1])
    <3>1. n - 1 \in 0..N
      BY <1>2
    <3>2. f[n - 1] \in Seq(S)
      BY <3>1
    <3>. HIDE DEF After
    <3>. QED  BY <2>1, <3>2 DEF step, Follows
  <2>3. \A n \in 0..N : f[n] = IF n = 0 THEN <<>> ELSE After(n, f[n - 1])
    <3>. HIDE DEF After
    <3>1. \A n \in 0..N : n # 0 => n \in 1..N
      BY <1>2
    <3>. QED  BY <2>1, <2>2, <3>1 DEF Follows
  <2>4. f = [n \in 0..N |-> IF n = 0 THEN <<>> ELSE After(n, f[n - 1])]
    <3>. HIDE DEF After
    <3>. QED  BY <2>3
  <2>. QED  BY <2>4
<1>5. IsRun(run)
  <2>. HIDE DEF IsRun
  <2>. QED  BY <1>4
<1>6. run[0] = <<>> /\ \A n \in 1..N : run[n] = After(n, run[n - 1])
  <2>. HIDE DEF run, After, N
  <2>1. 0 \in 0..N /\ \A n \in 1..N : n \in 0..N /\ n # 0
    BY <1>2
  <2>. QED  BY <1>5, <2>1
<1>. DEFINE some == {n \in 0..N : Passed(S, list, k, n, run[n])}
<1>7. 0 \in some
  <2>. HIDE DEF run
  <2>1. 2 * k * 0 = 0 /\ run[0] = <<>>
    BY <1>6
  <2>2. Passed(S, list, k, 0, <<>>)
    BY <1>2, <2>1 DEF Passed, InRuns
  <2>. QED  BY <1>2, <2>1, <2>2
<1>8. ASSUME NEW n \in 0..(N - 1), n \in some
      PROVE  n + 1 \in some
  <2>1. n + 1 \in 1..N /\ (n + 1) - 1 = n /\ n + 1 \in 0..N /\ n \in Nat
    BY <1>2
  <2>2. Passed(S, list, k, n, run[n])
    BY <1>8
  <2>. HIDE DEF run, N
  <2>3. run[n + 1] = After(n + 1, run[n])
    <3>. HIDE DEF After
    <3>. QED  BY <1>6, <2>1
  <2>4. Passed(S, list, k, n + 1, run[n + 1])
    BY <2>1, <2>2, <2>3, PairMerged
  <2>. QED  BY <2>1, <2>4
<1>9. N \in some
  <2>. HIDE DEF some, N
  <2>1. \A n \in 0..N : n \in some
    BY <1>2, <1>7, <1>8, Upward
  <2>. QED  BY <1>2, <2>1
<1>10. 2 * k * N >= N
  <2>1. 2 * k \in Nat \ {0}
    OBVIOUS
  <2>2. N <= (2 * k) * N
    BY <1>2, <2>1, Multiples
  <2>3. (2 * k) * N \in Nat
    BY <1>2, <2>1
  <2>. QED  BY <1>2, <2>2, <2>3
<1>11. Passed(S, list, k, N, run[N])
  BY <1>9
<1>. HIDE DEF run
<1>. QED  BY <1>1, <1>10, <1>11

\* The passes so far have left the same methods, in runs that are sorted, of which there
\* is one at the latest when there were as many passes as methods.
SortedBy(S, list, n, state) ==
  /\ state \in [list : Seq(S), k : Nat \ {0}] /\ Len(state.list) = Len(list)
  /\ \A i \in 1..Len(list) : \E j \in 1..Len(list) : state.list[i] = list[j]
  /\ \A i \in 1..Len(list) : \E j \in 1..Len(list) : list[i] = state.list[j]
  /\ Ranked(S) => InRuns(state.list, state.k)
  /\ state.k >= Len(list) \/ state.k > n

LEMMA PassSorts ==
  ASSUME NEW S, NEW list \in Seq(S), NEW n \in Nat, NEW state, SortedBy(S, list, n, state)
  PROVE  /\ state.k >= Len(list) => SortedBy(S, list, n + 1, state)
         /\ SortedBy(S, list, n + 1, [list |-> Pass(state.list, state.k), k |-> 2 * state.k])
<1>. DEFINE l == state.list
            k == state.k
            r == Pass(l, k)
            L == Len(list)
<1>1. /\ l \in Seq(S) /\ k \in Nat \ {0} /\ Len(l) = L /\ L \in Nat
      /\ \A i \in 1..L : \E j \in 1..L : l[i] = list[j]
      /\ \A i \in 1..L : \E j \in 1..L : list[i] = l[j]
      /\ Ranked(S) => InRuns(l, k)
      /\ k >= L \/ k > n
  BY DEF SortedBy
<1>2. k >= L => SortedBy(S, list, n + 1, state)
  BY <1>1 DEF SortedBy
<1>. HIDE DEF l, k
<1>3. Passed(S, l, k, Len(l), r) /\ 2 * k * Len(l) >= Len(l)
  BY <1>1, PassIs
<1>. HIDE DEF r
<1>4. /\ r \in Seq(S) /\ Len(r) = L
      /\ \A i \in 1..L : \E j \in 1..L : r[i] = l[j]
      /\ \A j \in 1..L : \E i \in 1..L : l[j] = r[i]
      /\ Ranked(S) => InRuns(r, 2 * k)
  <2>1. Len(r) = L /\ r \in Seq(S)
    BY <1>1, <1>3 DEF Passed
  <2>2. \A j \in 1..L : j <= 2 * k * Len(l)
    <3>1. 2 * k * Len(l) \in Int
      BY <1>1
    <3>. QED  BY <1>1, <1>3, <3>1
  <2>. QED  BY <1>1, <1>3, <2>1, <2>2 DEF Passed
<1>. DEFINE succ == [list |-> r, k |-> 2 * k]
<1>5. /\ succ.list = r /\ succ.k = 2 * k /\ 2 * k \in Nat \ {0}
      /\ succ \in [list : Seq(S), k : Nat \ {0}]
  BY <1>1, <1>4
<1>6. /\ \A i \in 1..L : \E j \in 1..L : r[i] = list[j]
      /\ \A i \in 1..L : \E j \in 1..L : list[i] = r[j]
  <2>. HIDE DEF L
  <2>1. ASSUME NEW i \in 1..L
        PROVE  \E j \in 1..L : r[i] = list[j]
    <3>1. PICK j \in 1..L : r[i] = l[j]
      BY <1>4
    <3>2. PICK h \in 1..L : l[j] = list[h]
      BY <1>1
    <3>. QED  BY <3>1, <3>2
  <2>2. ASSUME NEW i \in 1..L
        PROVE  \E j \in 1..L : list[i] = r[j]
    <3>1. PICK j \in 1..L : list[i] = l[j]
      BY <1>1
    <3>. QED  BY <1>4, <3>1
  <2>. QED  BY <2>1, <2>2
<1>7. 2 * k >= L \/ 2 * k > n + 1
  BY <1>1
<1>. HIDE DEF succ, L
<1>8. SortedBy(S, list, n + 1, succ)
  BY <1>4, <1>5, <1>6, <1>7 DEF SortedBy, L
<1>. QED  BY <1>2, <1>8 DEF succ, r, l, k, L

\* The merge sort keeps the methods there are, and sorts them.
LEMMA SortIs ==
  ASSUME NEW S, NEW list \in Seq(S)
  PROVE  /\ SortMethods(list) \in Seq(S) /\ Len(SortMethods(list)) = Len(list)
         /\ \A i \in 1..Len(list) : \E j \in 1..Len(list) : SortMethods(list)[i] = list[j]
         /\ \A i \in 1..Len(list) : \E j \in 1..Len(list) : list[i] = SortMethods(list)[j]
         /\ Ranked(S) => Sorted(SortMethods(list))
<1>. DEFINE N == Len(list)
            X == [list : Seq(S), k : Nat \ {0}]
            base == [list |-> list, k |-> 1]
            After(n, last) == IF last.k >= Len(list) THEN last
                              ELSE [list |-> Pass(last.list, last.k), k |-> 2 * last.k]
            step == [x \in (1..N) \X X |-> After(x[1], x[2])]
            IsRun(f) == f = [n \in 0..N |-> IF n = 0 THEN base ELSE After(n, f[n - 1])]
            run == CHOOSE f : IsRun(f)
<1>1. SortMethods(list) = run[N].list
  BY DEF SortMethods
<1>2. N \in Nat
  OBVIOUS
<1>3. step \in [(1..N) \X X -> X]
  <2>1. ASSUME NEW n \in 1..N, NEW last \in X
        PROVE  After(n, last) \in X
    <3>1. Pass(last.list, last.k) \in Seq(S)
      BY PassIs DEF Passed
    <3>2. 2 * last.k \in Nat \ {0}
      OBVIOUS
    <3>. QED  BY <3>1, <3>2
  <2>. HIDE DEF After, N, X
  <2>. QED  BY <2>1
<1>4. \E f : IsRun(f)
  <2>0. base \in X
    OBVIOUS
  <2>. HIDE DEF step, N, X, base
  <2>1. PICK f \in [0..N -> X] : Follows(f, N, base, step)
    BY <1>2, <1>3, <2>0, Recursion
  <2>2. ASSUME NEW n \in 1..N
        PROVE  f[n] = After(n, f[n - 1])
    <3>1. n - 1 \in 0..N
      BY <1>2
    <3>2. f[n - 1] \in X
      BY <3>1
    <3>. HIDE DEF After
    <3>. QED  BY <2>1, <3>2 DEF step, Follows
  <2>3. \A n \in 0..N : f[n] = IF n = 0 THEN base ELSE After(n, f[n - 1])
    <3>. HIDE DEF After
    <3>1. \A n \in 0..N : n # 0 => n \in 1..N
      BY <1>2
    <3>. QED  BY <2>1, <2>2, <3>1 DEF Follows
  <2>4. f = [n \in 0..N |-> IF n = 0 THEN base ELSE After(n, f[n - 1])]
    <3>. HIDE DEF After
    <3>. QED  BY <2>3
  <2>. QED  BY <2>4 DEF base
<1>5. IsRun(run)
  <2>. HIDE DEF IsRun
  <2>. QED  BY <1>4
<1>6. run[0] = base /\ \A n \in 1..N : run[n] = After(n, run[n - 1])
  <2>. HIDE DEF run, After, N, base
  <2>1. 0 \in 0..N /\ \A n \in 1..N : n \in 0..N /\ n # 0
    BY <1>2
  <2>. QED  BY <1>5, <2>1
<1>. DEFINE some == {n \in 0..N : SortedBy(S, list, n, run[n])}
<1>7. 0 \in some
  <2>. HIDE DEF run
  <2>1. InRuns(list, 1)
    <3>1. \A m \in Nat : \A i, j \in 1..Len(list) : ~(m * 1 < i /\ i < j /\ j <= m * 1 + 1)
      OBVIOUS
    <3>. QED  BY <3>1 DEF InRuns
  <2>2. SortedBy(S, list, 0, base)
    BY <2>1 DEF SortedBy
  <2>. HIDE DEF base
  <2>. QED  BY <1>2, <1>6, <2>2
<1>8. ASSUME NEW n \in 0..(N - 1), n \in some
      PROVE  n + 1 \in some
  <2>1. n + 1 \in 1..N /\ (n + 1) - 1 = n /\ n + 1 \in 0..N /\ n \in Nat
    BY <1>2
  <2>2. SortedBy(S, list, n, run[n])
    BY <1>8
  <2>. HIDE DEF run, N
  <2>3. run[n + 1] = After(n + 1, run[n])
    <3>. HIDE DEF After, base
    <3>. QED  BY <1>6, <2>1
  <2>4. /\ run[n].k >= Len(list) => SortedBy(S, list, n + 1, run[n])
        /\ SortedBy(S, list, n + 1, [list |-> Pass(run[n].list, run[n].k), k |-> 2 * run[n].k])
    BY <2>1, <2>2, PassSorts
  <2>5. SortedBy(S, list, n + 1, run[n + 1])
    BY <2>3, <2>4
  <2>. QED  BY <2>1, <2>5
<1>9. N \in some
  <2>. HIDE DEF some, N
  <2>1. \A n \in 0..N : n \in some
    BY <1>2, <1>7, <1>8, Upward
  <2>. QED  BY <1>2, <2>1
<1>10. SortedBy(S, list, N, run[N])
  BY <1>9
<1>. DEFINE l == run[N].list
            k == run[N].k
<1>. HIDE DEF run
<1>11. /\ l \in Seq(S) /\ k \in Nat \ {0} /\ Len(l) = N /\ k >= N
       /\ \A i \in 1..Len(list) : \E j \in 1..Len(list) : l[i] = list[j]
       /\ \A i \in 1..Len(list) : \E j \in 1..Len(list) : list[i] = l[j]
       /\ Ranked(S) => InRuns(l, k)
  <2>1. /\ run[N] \in [list : Seq(S), k : Nat \ {0}] /\ Len(l) = Len(list)
        /\ Ranked(S) => InRuns(l, k)
        /\ k >= Len(list) \/ k > N
    BY <1>10 DEF SortedBy
  <2>2. /\ \A i \in 1..Len(list) : \E j \in 1..Len(list) : l[i] = list[j]
        /\ \A i \in 1..Len(list) : \E j \in 1..Len(list) : list[i] = l[j]
    BY <1>10 DEF SortedBy
  <2>3. l \in Seq(S) /\ k \in Nat \ {0}
    BY <2>1
  <2>4. k >= N
    BY <1>2, <2>1, <2>3
  <2>. HIDE DEF k, l
  <2>. QED  BY <2>1, <2>2, <2>3, <2>4
<1>. HIDE DEF k, l
<1>12. ASSUME InRuns(l, k)
       PROVE  Sorted(l)
  <2>1. 0 \in Nat /\ 0 * k = 0 /\ \A i \in 1..Len(l) : i <= k /\ 0 < i
    BY <1>2, <1>11
  <2>2. \A i, j \in 1..Len(l) : 0 * k < i /\ i < j /\ j <= 0 * k + k => Before(l[i], l[j])
    BY <1>12, <2>1 DEF InRuns
  <2>3. \A i, j \in 1..Len(l) : i < j => Before(l[i], l[j])
    BY <1>11, <2>1, <2>2
  <2>. QED  BY <2>3 DEF Sorted
<1>. QED  BY <1>1, <1>11, <1>12 DEF l

-----------------------------------------------------------------------------
(* The order of methods.                                                   *)

HasSpecs(m) == m.spec \in Seq(Range(m.spec))

LEMMA SpecIs ==
  ASSUME NEW m, HasSpecs(m)
  PROVE  Len(m.spec) \in Nat /\ DOMAIN m.spec = 1..Len(m.spec)
BY DEF HasSpecs

\* Two methods differ first in argument x, or in none that both have.
FirstAt(a, b, x) ==
  /\ x \in 1..Len(a.spec) /\ x \in 1..Len(b.spec) /\ a.spec[x] # b.spec[x]
  /\ \A y \in 1..(x - 1) : a.spec[y] = b.spec[y]
Alike(a, b) == \A y \in 1..Len(a.spec) : y \in 1..Len(b.spec) => a.spec[y] = b.spec[y]

LEMMA DifferIs ==
  ASSUME NEW a, NEW b, HasSpecs(a), HasSpecs(b)
  PROVE  (Differ(a, b) = 0 /\ Alike(a, b)) \/ FirstAt(a, b, Differ(a, b))
<1>. DEFINE both == {i \in DOMAIN a.spec \intersect DOMAIN b.spec : a.spec[i] # b.spec[i]}
<1>1. /\ DOMAIN a.spec = 1..Len(a.spec) /\ DOMAIN b.spec = 1..Len(b.spec)
      /\ Len(a.spec) \in Nat /\ Len(b.spec) \in Nat
  BY SpecIs
<1>2. CASE both = {}
  <2>1. Differ(a, b) = 0
    BY <1>2 DEF Differ
  <2>. QED  BY <1>1, <1>2, <2>1 DEF Alike
<1>3. CASE both # {}
  <2>1. Differ(a, b) = Least(both)
    BY <1>3 DEF Differ, Least
  <2>2. both \in SUBSET Nat
    BY <1>1
  <2>3. Least(both) \in both /\ \A j \in both : Least(both) <= j
    <3>. HIDE DEF both
    <3>. QED  BY <1>3, <2>2, LeastIs
  <2>. DEFINE x == Least(both)
  <2>. HIDE DEF x
  <2>4. x \in both /\ \A j \in both : x <= j
    BY <2>3 DEF x
  <2>5. \A y \in 1..(x - 1) : y \in 1..Len(a.spec) /\ y \in 1..Len(b.spec) /\ y \notin both
    BY <1>1, <2>4
  <2>6. FirstAt(a, b, x)
    BY <1>1, <2>4, <2>5 DEF FirstAt
  <2>. QED  BY <2>1, <2>6 DEF x
<1>. QED  BY <1>2, <1>3

LEMMA DifferUnique ==
  ASSUME NEW a, NEW b, HasSpecs(a), HasSpecs(b)
  PROVE  /\ Alike(a, b) => Differ(a, b) = 0
         /\ \A x : FirstAt(a, b, x) => Differ(a, b) = x
<1>1. Len(a.spec) \in Nat /\ Len(b.spec) \in Nat
  BY SpecIs
<1>2. (Differ(a, b) = 0 /\ Alike(a, b)) \/ FirstAt(a, b, Differ(a, b))
  BY DifferIs
<1>3. \A x : ~(FirstAt(a, b, x) /\ Alike(a, b))
  BY DEF FirstAt, Alike
<1>4. ASSUME NEW x, FirstAt(a, b, x), NEW y, FirstAt(a, b, y)
      PROVE  x = y
  <2>1. x \in Nat \ {0} /\ y \in Nat \ {0}
    BY <1>4 DEF FirstAt
  <2>2. ~(x < y) /\ ~(y < x)
    BY <1>4, <2>1 DEF FirstAt
  <2>. QED  BY <2>1, <2>2
<1>. QED  BY <1>2, <1>3, <1>4

\* Which of two goes before the other.
LEMMA BeforeIs ==
  ASSUME NEW a, NEW b, HasSpecs(a), HasSpecs(b)
  PROVE  /\ Alike(a, b) => (Before(a, b) <=> Len(a.spec) >= Len(b.spec))
         /\ \A x : FirstAt(a, b, x) => (Before(a, b) <=> <<b.spec[x], a.spec[x]>> \in Matches)
         /\ Alike(a, b) \/ \E x : FirstAt(a, b, x)
<1>1. Alike(a, b) \/ \E x : FirstAt(a, b, x)
  BY DifferIs
<1>2. Alike(a, b) => (Before(a, b) <=> Len(a.spec) >= Len(b.spec))
  BY DifferUnique DEF Before
<1>3. ASSUME NEW x, FirstAt(a, b, x)
      PROVE  Before(a, b) <=> <<b.spec[x], a.spec[x]>> \in Matches
  <2>1. Differ(a, b) = x /\ x # 0
    BY <1>3, DifferUnique DEF FirstAt
  <2>. QED  BY <2>1 DEF Before
<1>. QED  BY <1>1, <1>2, <1>3

\* Methods whose specializers of argument x are in line[x].
Lined(some, line) ==
  \A m \in some : HasSpecs(m) /\ \A x \in 1..Len(m.spec) : m.spec[x] \in line[x] /\ InLine(line[x])

LEMMA BeforeTotal ==
  ASSUME NEW some, NEW line, Lined(some, line), NEW a \in some, NEW b \in some
  PROVE  Before(a, b) \/ Before(b, a)
<1>1. HasSpecs(a) /\ HasSpecs(b) /\ Len(a.spec) \in Nat /\ Len(b.spec) \in Nat
  BY SpecIs DEF Lined
<1>2. CASE Alike(a, b)
  <2>1. Alike(b, a)
    BY <1>2 DEF Alike
  <2>. QED  BY <1>1, <1>2, <2>1, BeforeIs
<1>3. ASSUME NEW x, FirstAt(a, b, x)
      PROVE  Before(a, b) \/ Before(b, a)
  <2>1. FirstAt(b, a, x)
    BY <1>3 DEF FirstAt
  <2>2. a.spec[x] \in line[x] /\ b.spec[x] \in line[x] /\ InLine(line[x])
    BY <1>3 DEF FirstAt, Lined
  <2>3. <<b.spec[x], a.spec[x]>> \in Matches \/ <<a.spec[x], b.spec[x]>> \in Matches
    BY <2>2 DEF InLine, Related
  <2>4. Before(a, b) <=> <<b.spec[x], a.spec[x]>> \in Matches
    BY <1>1, <1>3, BeforeIs
  <2>5. Before(b, a) <=> <<a.spec[x], b.spec[x]>> \in Matches
    BY <1>1, <2>1, BeforeIs
  <2>. QED  BY <2>3, <2>4, <2>5
<1>4. Alike(a, b) \/ \E x : FirstAt(a, b, x)
  BY <1>1, BeforeIs
<1>. QED  BY <1>2, <1>3, <1>4

LEMMA BeforeTransitive ==
  ASSUME NEW some, NEW line, Lined(some, line), NEW a \in some, NEW b \in some, NEW c \in some,
         Before(a, b), Before(b, c)
  PROVE  Before(a, c)
<1>1. /\ HasSpecs(a) /\ HasSpecs(b) /\ HasSpecs(c)
      /\ Len(a.spec) \in Nat /\ Len(b.spec) \in Nat /\ Len(c.spec) \in Nat
  BY SpecIs DEF Lined
<1>2. CASE Alike(a, b) /\ Alike(b, c)
  <2>1. Len(a.spec) >= Len(b.spec) /\ Len(b.spec) >= Len(c.spec)
    BY <1>1, <1>2, BeforeIs
  <2>2. Alike(a, c)
    BY <1>1, <1>2, <2>1 DEF Alike
  <2>. QED  BY <1>1, <2>1, <2>2, BeforeIs
<1>3. ASSUME Alike(a, b), NEW y, FirstAt(b, c, y)
      PROVE  Before(a, c)
  <2>1. Len(a.spec) >= Len(b.spec)
    BY <1>1, <1>3, BeforeIs
  <2>2. <<c.spec[y], b.spec[y]>> \in Matches
    BY <1>1, <1>3, BeforeIs
  <2>3. \A i \in 1..Len(b.spec) : i \in 1..Len(a.spec) /\ a.spec[i] = b.spec[i]
    BY <1>1, <1>3, <2>1 DEF Alike
  <2>4. y \in 1..Len(b.spec) /\ \A i \in 1..(y - 1) : i \in 1..Len(b.spec)
    BY <1>1, <1>3 DEF FirstAt
  <2>5. FirstAt(a, c, y) /\ a.spec[y] = b.spec[y]
    BY <1>3, <2>3, <2>4 DEF FirstAt
  <2>. QED  BY <1>1, <2>2, <2>5, BeforeIs
<1>4. ASSUME NEW x, FirstAt(a, b, x), Alike(b, c)
      PROVE  Before(a, c)
  <2>1. Len(b.spec) >= Len(c.spec)
    BY <1>1, <1>4, BeforeIs
  <2>2. <<b.spec[x], a.spec[x]>> \in Matches
    BY <1>1, <1>4, BeforeIs
  <2>3. \A i \in 1..Len(c.spec) : i \in 1..Len(b.spec) /\ b.spec[i] = c.spec[i]
    BY <1>1, <1>4, <2>1 DEF Alike
  <2>4. x \in 1..Len(a.spec) /\ \A i \in 1..(x - 1) : a.spec[i] = b.spec[i]
    BY <1>4 DEF FirstAt
  <2>5. CASE x <= Len(c.spec)
    <3>1. x \in 1..Len(c.spec) /\ \A i \in 1..(x - 1) : i \in 1..Len(c.spec)
      BY <1>1, <2>4, <2>5
    <3>2. FirstAt(a, c, x) /\ b.spec[x] = c.spec[x]
      BY <1>4, <2>3, <2>4, <3>1 DEF FirstAt
    <3>. QED  BY <1>1, <2>2, <3>2, BeforeIs
  <2>6. CASE Len(c.spec) < x
    <3>1. \A i \in 1..Len(c.spec) : i \in 1..(x - 1)
      BY <1>1, <2>4, <2>6
    <3>2. Alike(a, c)
      BY <2>3, <2>4, <3>1 DEF Alike
    <3>3. Len(a.spec) >= Len(c.spec)
      BY <1>1, <2>4, <2>6
    <3>. QED  BY <1>1, <3>2, <3>3, BeforeIs
  <2>. QED  BY <1>1, <2>4, <2>5, <2>6
<1>5. ASSUME NEW x, FirstAt(a, b, x), NEW y, FirstAt(b, c, y)
      PROVE  Before(a, c)
  <2>1. <<b.spec[x], a.spec[x]>> \in Matches /\ <<c.spec[y], b.spec[y]>> \in Matches
    BY <1>1, <1>5, BeforeIs
  <2>2. /\ x \in 1..Len(a.spec) /\ x \in 1..Len(b.spec) /\ a.spec[x] # b.spec[x]
        /\ y \in 1..Len(b.spec) /\ y \in 1..Len(c.spec) /\ b.spec[y] # c.spec[y]
        /\ \A i \in 1..(x - 1) : a.spec[i] = b.spec[i]
        /\ \A i \in 1..(y - 1) : b.spec[i] = c.spec[i]
    BY <1>5 DEF FirstAt
  <2>3. CASE x < y
    <3>1. x \in 1..(y - 1) /\ x \in 1..Len(c.spec) /\ \A i \in 1..(x - 1) : i \in 1..(y - 1)
      BY <1>1, <2>2, <2>3
    <3>2. FirstAt(a, c, x) /\ b.spec[x] = c.spec[x]
      BY <2>2, <3>1 DEF FirstAt
    <3>. QED  BY <1>1, <2>1, <3>2, BeforeIs
  <2>4. CASE y < x
    <3>1. y \in 1..(x - 1) /\ y \in 1..Len(a.spec) /\ \A i \in 1..(y - 1) : i \in 1..(x - 1)
      BY <1>1, <2>2, <2>4
    <3>2. FirstAt(a, c, y) /\ a.spec[y] = b.spec[y]
      BY <2>2, <3>1 DEF FirstAt
    <3>. QED  BY <1>1, <2>1, <3>2, BeforeIs
  <2>5. CASE x = y
    <3>1. /\ a.spec[x] \in line[x] /\ b.spec[x] \in line[x] /\ c.spec[x] \in line[x]
          /\ InLine(line[x])
      BY <2>2, <2>5 DEF Lined
    <3>2. /\ \A s, t \in line[x] : \A u \in line[x] :
               <<s, t>> \in Matches /\ <<t, u>> \in Matches => <<s, u>> \in Matches
          /\ \A s, t \in line[x] : s # t => <<s, t>> \notin Matches \/ <<t, s>> \notin Matches
      BY <3>1, Zenon DEF InLine
    <3>3. <<b.spec[x], a.spec[x]>> \in Matches /\ <<c.spec[x], b.spec[x]>> \in Matches
      BY <2>1, <2>5
    <3>4. <<c.spec[x], a.spec[x]>> \in Matches
      BY <3>1, <3>2, <3>3
    <3>5. a.spec[x] # c.spec[x]
      BY <2>2, <3>1, <3>2, <3>3
    <3>6. FirstAt(a, c, x)
      BY <2>2, <2>5, <3>5 DEF FirstAt
    <3>. QED  BY <1>1, <3>4, <3>6, BeforeIs
  <2>6. x \in Nat /\ y \in Nat
    BY <2>2
  <2>. QED  BY <2>3, <2>4, <2>5, <2>6
<1>6. /\ Alike(a, b) \/ \E x : FirstAt(a, b, x)
      /\ Alike(b, c) \/ \E y : FirstAt(b, c, y)
  BY <1>1, BeforeIs
<1>. QED  BY <1>2, <1>3, <1>4, <1>5, <1>6

\* A method that goes before another is not less special.
LEMMA NotSpecial ==
  ASSUME NEW a, NEW b, HasSpecs(a), HasSpecs(b), Before(a, b)
  PROVE  ~Special(b, a)
<1>. DEFINE common == {n \in 0..Len(b.spec) : n <= Len(a.spec)
                                              /\ \A i \in 1..n : b.spec[i] = a.spec[i]}
            most == CHOOSE n \in common : \A m \in common : m <= n
<1>1. Len(a.spec) \in Nat /\ Len(b.spec) \in Nat
  BY SpecIs
<1>2. Special(b, a) <=> IF 1 + most > Len(b.spec) \/ 1 + most > Len(a.spec)
                        THEN Len(b.spec) > Len(a.spec)
                        ELSE Narrower(b.spec[1 + most], a.spec[1 + most])
  BY DEF Special
<1>3. \A n \in common : (\A m \in common : m <= n) => most = n
  <2>1. \A n, m \in common : n <= m /\ m <= n => n = m
    BY <1>1
  <2>. HIDE DEF common
  <2>. QED  BY <2>1
<1>4. CASE Alike(a, b)
  <2>1. Len(a.spec) >= Len(b.spec)
    BY <1>4, BeforeIs
  <2>2. Len(b.spec) \in common /\ \A m \in common : m <= Len(b.spec)
    BY <1>1, <1>4, <2>1 DEF Alike
  <2>3. most = Len(b.spec)
    <3>. HIDE DEF common, most
    <3>. QED  BY <1>3, <2>2
  <2>. HIDE DEF most
  <2>. QED  BY <1>1, <1>2, <2>1, <2>3
<1>5. ASSUME NEW x, FirstAt(a, b, x)
      PROVE  ~Special(b, a)
  <2>1. /\ x \in 1..Len(a.spec) /\ x \in 1..Len(b.spec) /\ a.spec[x] # b.spec[x]
        /\ \A y \in 1..(x - 1) : a.spec[y] = b.spec[y]
    BY <1>5 DEF FirstAt
  <2>2. x - 1 \in common /\ \A m \in common : m <= x - 1
    <3>1. x - 1 \in common
      BY <1>1, <2>1
    <3>2. ASSUME NEW m \in common, ~(m <= x - 1)
          PROVE  FALSE
      <4>1. x \in 1..m /\ \A i \in 1..m : b.spec[i] = a.spec[i]
        BY <1>1, <2>1, <3>2
      <4>. QED  BY <2>1, <4>1
    <3>. QED  BY <3>1, <3>2
  <2>3. most = x - 1
    <3>. HIDE DEF common, most
    <3>. QED  BY <1>3, <2>2
  <2>. HIDE DEF most
  <2>4. 1 + most = x
    BY <1>1, <2>1, <2>3
  <2>5. <<b.spec[x], a.spec[x]>> \in Matches
    BY <1>5, BeforeIs
  <2>6. ~Narrower(b.spec[x], a.spec[x])
    BY <2>5 DEF Narrower
  <2>. QED  BY <1>1, <1>2, <2>1, <2>4, <2>6
<1>6. Alike(a, b) \/ \E x : FirstAt(a, b, x)
  BY BeforeIs
<1>. QED  BY <1>4, <1>5, <1>6

-----------------------------------------------------------------------------
(* The methods that apply.                                                 *)

LEMMA ConsedIs ==
  ASSUME NEW T, NEW list, Len(list) \in Nat, NEW places,
         \A n \in 1..Len(list) : n \in places => list[n] \in T
  PROVE  Consed(list, places) \in Seq(T)
<1>. DEFINE N == Len(list)
            After(n, out) == IF n \in places THEN <<list[n]>> \o out ELSE out
            step == [x \in (1..N) \X Seq(T) |-> After(x[1], x[2])]
            IsRun(f) == f = [n \in 0..N |-> IF n = 0 THEN <<>> ELSE After(n, f[n - 1])]
            run == CHOOSE f : IsRun(f)
<1>1. Consed(list, places) = run[N]
  BY DEF Consed
<1>2. N \in Nat /\ <<>> \in Seq(T)
  OBVIOUS
<1>3. ASSUME NEW n \in 1..N, NEW out \in Seq(T)
      PROVE  After(n, out) \in Seq(T)
  <2>1. CASE n \in places
    <3>1. <<list[n]>> \in Seq(T)
      BY <2>1
    <3>. QED  BY <2>1, <3>1
  <2>. QED  BY <2>1
<1>4. step \in [(1..N) \X Seq(T) -> Seq(T)]
  <2>. HIDE DEF After, N
  <2>. QED  BY <1>3
<1>5. \E f : IsRun(f)
  <2>. HIDE DEF step, N
  <2>1. PICK f \in [0..N -> Seq(T)] : Follows(f, N, <<>>, step)
    BY <1>2, <1>4, Recursion
  <2>2. ASSUME NEW n \in 1..N
        PROVE  f[n] = After(n, f[n - 1])
    <3>1. n - 1 \in 0..N
      BY <1>2
    <3>2. f[n - 1] \in Seq(T)
      BY <3>1
    <3>. HIDE DEF After
    <3>. QED  BY <2>1, <3>2 DEF step, Follows
  <2>3. \A n \in 0..N : f[n] = IF n = 0 THEN <<>> ELSE After(n, f[n - 1])
    <3>. HIDE DEF After
    <3>1. \A n \in 0..N : n # 0 => n \in 1..N
      BY <1>2
    <3>. QED  BY <2>1, <2>2, <3>1 DEF Follows
  <2>4. f = [n \in 0..N |-> IF n = 0 THEN <<>> ELSE After(n, f[n - 1])]
    <3>. HIDE DEF After
    <3>. QED  BY <2>3
  <2>. QED  BY <2>4
<1>6. IsRun(run)
  <2>. HIDE DEF IsRun
  <2>. QED  BY <1>5
<1>7. run[0] = <<>> /\ \A n \in 1..N : run[n] = After(n, run[n - 1])
  <2>. HIDE DEF run, After, N
  <2>1. 0 \in 0..N /\ \A n \in 1..N : n \in 0..N /\ n # 0
    BY <1>2
  <2>. QED  BY <1>6, <2>1
<1>. DEFINE some == {n \in 0..N : run[n] \in Seq(T)}
<1>8. 0 \in some
  <2>. HIDE DEF run, N
  <2>1. run[0] \in Seq(T) /\ 0 \in 0..N
    BY <1>2, <1>7
  <2>. QED  BY <2>1
<1>9. ASSUME NEW n \in 0..(N - 1), n \in some
      PROVE  n + 1 \in some
  <2>1. n + 1 \in 1..N /\ (n + 1) - 1 = n /\ n + 1 \in 0..N /\ run[n] \in Seq(T)
    BY <1>2, <1>9
  <2>. HIDE DEF run, N, After
  <2>2. run[n + 1] = After(n + 1, run[n])
    BY <1>7, <2>1
  <2>. QED  BY <1>3, <2>1, <2>2
<1>10. N \in some
  <2>. HIDE DEF some, N
  <2>1. \A n \in 0..N : n \in some
    BY <1>2, <1>8, <1>9, Upward
  <2>. QED  BY <1>2, <2>1
<1>. QED  BY <1>1, <1>10

\* The methods that apply to some arguments are sorted from the most special to the
\* least, if their specializers are in a line in each argument.
LEMMA ApplicableSorted ==
  ASSUME DispatchAssumption, NEW list \in Seq(Method), NEW types \in Arguments,
         NEW r, r = ApplicableMethods(list, types),
         \A k \in DOMAIN types : InLine(Specializers(r, k))
  PROVE  \A i, j \in DOMAIN r : i < j => ~Special(r[j], r[i])
<1>. DEFINE T == {m \in Method : Applicable(m, types)}
            places == {i \in DOMAIN list : Applicable(list[i], types)}
            c == Consed(list, places)
<1>1. c \in Seq(T)
  <2>1. Len(list) \in Nat /\ \A n \in 1..Len(list) : n \in places => list[n] \in T
    OBVIOUS
  <2>. HIDE DEF T, places
  <2>. QED  BY <2>1, ConsedIs
<1>2. r = SortMethods(c)
  BY DEF ApplicableMethods
<1>. HIDE DEF c
<1>. DEFINE E == {c[i] : i \in 1..Len(c)}
            line == [k \in DOMAIN types |-> Specializers(r, k)]
<1>. HIDE DEF T
<1>3. c \in Seq(E) /\ Len(c) \in Nat /\ E \subseteq T
  <2>1. Len(c) \in Nat /\ c \in [1..Len(c) -> T]
    BY <1>1
  <2>2. \A i \in 1..Len(c) : c[i] \in E
    OBVIOUS
  <2>3. E \subseteq T
    BY <2>1
  <2>. HIDE DEF E
  <2>4. c \in [1..Len(c) -> E]
    BY <2>1, <2>2
  <2>. QED  BY <2>1, <2>3, <2>4
<1>4. \A m \in E : \E i \in 1..Len(c) : m = c[i]
  OBVIOUS
<1>. HIDE DEF E, line, places
<1>5. /\ r \in Seq(E) /\ Len(r) = Len(c) /\ Len(r) \in Nat /\ DOMAIN r = 1..Len(r)
      /\ \A m \in E : \E j \in 1..Len(r) : m = r[j]
      /\ Ranked(E) => Sorted(r)
  <2>1. r \in Seq(E) /\ Len(r) = Len(c)
    BY <1>2, <1>3, SortIs
  <2>2. ASSUME NEW i \in 1..Len(c)
        PROVE  \E j \in 1..Len(c) : c[i] = r[j]
    <3>1. \A n \in 1..Len(c) : \E j \in 1..Len(c) : c[n] = SortMethods(c)[j]
      BY <1>3, SortIs
    <3>2. PICK j \in 1..Len(c) : c[i] = SortMethods(c)[j]
      BY <3>1
    <3>. QED  BY <1>2, <3>2
  <2>3. Ranked(E) => Sorted(r)
    BY <1>2, <1>3, SortIs
  <2>4. ASSUME NEW m \in E
        PROVE  \E j \in 1..Len(r) : m = r[j]
    <3>1. PICK i \in 1..Len(c) : m = c[i]
      BY <1>4
    <3>2. PICK j \in 1..Len(c) : c[i] = r[j]
      BY <2>2
    <3>. QED  BY <2>1, <3>1, <3>2
  <2>. QED  BY <1>3, <2>1, <2>3, <2>4
<1>6. ASSUME NEW m \in E
      PROVE  HasSpecs(m) /\ \A x \in 1..Len(m.spec) : m.spec[x] \in line[x] /\ InLine(line[x])
  <2>1. HasSpecs(m) /\ Len(m.spec) <= Len(types) /\ types \in Seq(Range(types))
    BY <1>3 DEF T, Applicable, DispatchAssumption, HasSpecs
  <2>2. ASSUME NEW x \in 1..Len(m.spec)
        PROVE  x \in DOMAIN types /\ m.spec[x] \in Specializers(r, x)
    <3>1. Len(m.spec) \in Nat /\ Len(types) \in Nat /\ DOMAIN types = 1..Len(types)
      BY <2>1, SpecIs
    <3>2. PICK j \in 1..Len(r) : m = r[j]
      BY <1>5
    <3>3. j \in {k \in DOMAIN r : x <= Len(r[k].spec)} /\ m.spec[x] = r[j].spec[x]
      BY <1>5, <3>1, <3>2
    <3>4. m.spec[x] \in Specializers(r, x)
      BY <3>3, Zenon DEF Specializers
    <3>5. x \in DOMAIN types
      BY <2>1, <3>1
    <3>. QED  BY <3>4, <3>5
  <2>. QED  BY <2>1, <2>2 DEF line
<1>7. Lined(E, line)
  BY <1>6 DEF Lined
<1>8. Ranked(E)
  BY <1>7, BeforeTotal, BeforeTransitive DEF Ranked
<1>9. ASSUME NEW i \in 1..Len(r), NEW j \in 1..Len(r), i < j
      PROVE  ~Special(r[j], r[i])
  <2>1. Before(r[i], r[j])
    BY <1>5, <1>8, <1>9 DEF Sorted
  <2>2. HasSpecs(r[i]) /\ HasSpecs(r[j])
    BY <1>5, <1>6
  <2>. QED  BY <2>1, <2>2, NotSpecial
<1>. QED  BY <1>5, <1>9

-----------------------------------------------------------------------------
(* Dispatch: the inductive invariant.                                      *)

\* What dispatch computes for arguments.
Answer(list, types) == EffectiveMethod(ApplicableMethods(list, types))

\* No change of the methods has yet to reset the cache.
Settled == \A h \in Changer : change[h].pc # "reset"

Asking == [pc : {"fill", "lookup", "compute"}, types : Arguments, size : Nat]
Storing(r) ==
  r \in [pc : {"store"}, types : Arguments, size : Nat, em : {r.em}, late : BOOLEAN]

\* Methods that need no more keys than n.
Short(n) == {m \in Method : Len(m.spec) <= n}

DispatchTypes ==
  /\ longest_spec_list \in Nat /\ arity \in Nat
  /\ methods \in Seq(Short(longest_spec_list))
  /\ call = [c \in Caller |-> call[c]] /\ change = [h \in Changer |-> change[h]]
  /\ \A c \in Caller :
       \/ call[c].pc \in {"idle", "overrun", "apply"}
       \/ call[c] \in Asking \/ Storing(call[c])
  /\ \A h \in Changer : change[h].pc = "add" => change[h].method \in Short(longest_spec_list)

\* The cache has as many keys as any method needs.
Fits == Settled => methods \in Seq(Short(arity))

\* A call that no change has overtaken is to store what dispatch computes.
Computed ==
  \A c \in Caller :
    call[c].pc = "store" /\ ~call[c].late => call[c].em = Answer(methods, call[c].types)

DispatchInv == DispatchTypes /\ Fits /\ Computed /\ CacheAgrees

-----------------------------------------------------------------------------
(* Dispatch.                                                               *)

\* A method does not tell apart arguments that have the same keys, if it needs
\* no more keys.
LEMMA KeysTell ==
  ASSUME DispatchAssumption, NEW n \in Nat, NEW m \in Short(n),
         NEW s \in Arguments, NEW t \in Arguments, Keys(s, n) = Keys(t, n), Applicable(m, s)
  PROVE  Applicable(m, t)
<1>1. /\ Len(m.spec) \in Nat /\ DOMAIN m.spec = 1..Len(m.spec) /\ Len(m.spec) <= n
      /\ Len(m.spec) <= Len(s) /\ \A i \in DOMAIN m.spec : <<m.spec[i], s[i]>> \in Matches
  BY DEF DispatchAssumption, Short, Applicable
<1>2. /\ Len(s) \in Nat /\ Len(t) \in Nat
      /\ \A i \in 1..Len(s) : s[i] # INVALID
  <2>1. s \in Seq(Range(s)) /\ t \in Seq(Range(t)) /\ INVALID \notin Range(s)
    BY DEF DispatchAssumption
  <2>. QED  BY <2>1 DEF Range
<1>3. ASSUME NEW i \in 1..Len(m.spec)
      PROVE  i <= Len(t) /\ t[i] = s[i]
  <2>1. i \in 1..n /\ i \in 1..Len(s)
    BY <1>1, <1>2
  <2>2. Keys(s, n)[i] = s[i] /\ Keys(t, n)[i] = IF i <= Len(t) THEN t[i] ELSE INVALID
    BY <1>2, <2>1 DEF Keys
  <2>. QED  BY <1>2, <2>1, <2>2
<1>4. Len(m.spec) <= Len(t)
  <2>1. CASE Len(m.spec) = 0
    BY <1>2, <2>1
  <2>2. CASE Len(m.spec) # 0
    BY <1>1, <1>3, <2>2
  <2>. QED  BY <2>1, <2>2
<1>. QED  BY <1>1, <1>3, <1>4 DEF Applicable

LEMMA SameAnswer ==
  ASSUME DispatchAssumption, NEW n \in Nat, NEW list \in Seq(Short(n)),
         NEW s \in Arguments, NEW t \in Arguments, Keys(s, n) = Keys(t, n)
  PROVE  Answer(list, s) = Answer(list, t)
<1>1. \A i \in DOMAIN list : list[i] \in Short(n)
  OBVIOUS
<1>2. \A i \in DOMAIN list : Applicable(list[i], s) <=> Applicable(list[i], t)
  BY <1>1, KeysTell
<1>3. {i \in DOMAIN list : Applicable(list[i], s)} = {i \in DOMAIN list : Applicable(list[i], t)}
  BY <1>2
<1>. QED  BY <1>3, Zenon DEF Answer, ApplicableMethods

-----------------------------------------------------------------------------
(* Calls.                                                                  *)

\* Steps that leave the methods and the cache as they are, in which no call
\* comes to store what it has computed.
LEMMA CallMoves ==
  ASSUME DispatchInv, NEW c \in Caller, NEW r, call' = [call EXCEPT ![c] = r],
         UNCHANGED <<methods, longest_spec_list, arity, cache, change>>,
         r.pc \in {"idle", "overrun", "apply"} \/ r \in Asking
  PROVE  DispatchInv'
<1>1. call'[c] = r /\ \A d \in Caller \ {c} : call'[d] = call[d]
  BY DEF DispatchInv, DispatchTypes
<1>2. r.pc # "store"
  BY DEF Asking
<1>3. DispatchTypes'
  <2>1. call' = [d \in Caller |-> call'[d]]
    BY DEF DispatchInv, DispatchTypes
  <2>2. \A d \in Caller : \/ call'[d].pc \in {"idle", "overrun", "apply"}
                          \/ call'[d] \in Asking \/ Storing(call'[d])
    BY <1>1 DEF DispatchInv, DispatchTypes
  <2>. QED  BY <2>1, <2>2 DEF DispatchInv, DispatchTypes
<1>4. Fits'
  BY DEF DispatchInv, Fits, Settled
<1>5. Computed'
  BY <1>1, <1>2 DEF DispatchInv, Computed
<1>6. CacheAgrees'
  BY DEF DispatchInv, CacheAgrees, Having
<1>. QED  BY <1>3, <1>4, <1>5, <1>6 DEF DispatchInv

LEMMA BeginCallKeeps ==
  ASSUME DispatchInv, NEW c \in Caller, BeginCall(c)
  PROVE  DispatchInv'
<1>1. PICK types \in Arguments :
        call' = [call EXCEPT ![c] = [pc |-> "fill", types |-> types, size |-> longest_spec_list]]
  BY DEF BeginCall
<1>2. PICK r : r = [pc |-> "fill", types |-> types, size |-> longest_spec_list]
  OBVIOUS
<1>3. r \in Asking
  BY <1>2 DEF Asking, DispatchInv, DispatchTypes
<1>. QED  BY <1>1, <1>2, <1>3, CallMoves DEF BeginCall

\* What a call that asks is to go on with.
LEMMA Asks ==
  ASSUME DispatchInv, NEW c \in Caller, call[c].pc \in {"fill", "lookup", "compute"}
  PROVE  call[c] \in Asking
BY DEF DispatchInv, DispatchTypes, Storing

LEMMA FillKeysKeeps ==
  ASSUME DispatchInv, NEW c \in Caller, FillKeys(c)
  PROVE  DispatchInv'
<1>1. call[c] \in Asking
  BY Asks DEF FillKeys
<1>2. PICK r : r = IF longest_spec_list > call[c].size THEN [pc |-> "overrun"]
                   ELSE [pc |-> "lookup", types |-> call[c].types, size |-> longest_spec_list]
  OBVIOUS
<1>3. r.pc = "overrun" \/ r \in Asking
  BY <1>1, <1>2 DEF Asking, DispatchInv, DispatchTypes
<1>4. call' = [call EXCEPT ![c] = r]
  BY <1>2 DEF FillKeys
<1>. QED  BY <1>3, <1>4, CallMoves DEF FillKeys

LEMMA LookupKeeps ==
  ASSUME DispatchInv, NEW c \in Caller, Lookup(c)
  PROVE  DispatchInv'
<1>1. call[c] \in Asking
  BY Asks DEF Lookup
<1>2. PICK keys : keys = Keys(call[c].types, arity)
  OBVIOUS
<1>3. PICK r : r = IF arity > call[c].size THEN [pc |-> "overrun"]
                   ELSE IF keys \in DOMAIN cache THEN [pc |-> "apply", em |-> cache[keys].em]
                   ELSE [call[c] EXCEPT !.pc = "compute"]
  OBVIOUS
<1>4. r.pc \in {"idle", "overrun", "apply"} \/ r \in Asking
  BY <1>1, <1>3 DEF Asking
<1>5. call' = [call EXCEPT ![c] = r] /\ UNCHANGED <<methods, longest_spec_list, arity, cache, change>>
  BY <1>2, <1>3 DEF Lookup
<1>. QED  BY <1>4, <1>5, CallMoves

LEMMA ApplyKeeps ==
  ASSUME DispatchInv, NEW c \in Caller, Apply(c)
  PROVE  DispatchInv'
<1>1. NoCall.pc = "idle"
  BY DEF NoCall
<1>. QED  BY <1>1, CallMoves DEF Apply

LEMMA ComputeKeeps ==
  ASSUME DispatchInv, NEW c \in Caller, Compute(c)
  PROVE  DispatchInv'
<1>1. call[c] \in Asking
  BY Asks DEF Compute
<1>2. PICK list : list = ApplicableMethods(methods, call[c].types)
  OBVIOUS
<1>3. CASE list = <<>>
  <2>1. call' = [call EXCEPT ![c] = NoCall] /\ NoCall.pc = "idle"
    BY <1>2, <1>3 DEF Compute, NoCall
  <2>. QED  BY <2>1, CallMoves DEF Compute
<1>4. CASE list # <<>>
  <2>1. PICK r : r = [pc |-> "store", types |-> call[c].types, size |-> call[c].size,
                      em |-> EffectiveMethod(list), late |-> FALSE]
    OBVIOUS
  <2>2. call' = [call EXCEPT ![c] = r]
    BY <1>2, <1>4, <2>1 DEF Compute
  <2>3. call'[c] = r /\ \A d \in Caller \ {c} : call'[d] = call[d]
    BY <2>2 DEF DispatchInv, DispatchTypes
  <2>4. Storing(r) /\ r.em = EffectiveMethod(list) /\ r.types = call[c].types
    BY <1>1, <2>1 DEF Storing, Asking
  <2>5. UNCHANGED <<methods, longest_spec_list, arity, cache, change>>
    BY DEF Compute
  <2>6. DispatchTypes'
    <3>1. call' = [d \in Caller |-> call'[d]]
      BY <2>2 DEF DispatchInv, DispatchTypes
    <3>2. \A d \in Caller : \/ call'[d].pc \in {"idle", "overrun", "apply"}
                            \/ call'[d] \in Asking \/ Storing(call'[d])
      BY <2>3, <2>4 DEF DispatchInv, DispatchTypes
    <3>. QED  BY <2>5, <3>1, <3>2 DEF DispatchInv, DispatchTypes
  <2>7. Fits' /\ CacheAgrees'
    BY <2>5 DEF DispatchInv, Fits, Settled, CacheAgrees, Having
  <2>8. r.em = Answer(methods, r.types)
    BY <1>2, <2>4 DEF Answer
  <2>9. Computed'
    BY <2>3, <2>5, <2>8 DEF DispatchInv, Computed
  <2>. QED  BY <2>6, <2>7, <2>9 DEF DispatchInv
<1>. QED  BY <1>3, <1>4

\* What is stored answers for all arguments that have its keys: no method needs
\* more keys than the cache has.
LEMMA StoreKeeps ==
  ASSUME DispatchAssumption, DispatchInv, NEW c \in Caller, Store(c)
  PROVE  DispatchInv'
<1>1. CASE arity > call[c].size
  <2>1. PICK r : r = [pc |-> "overrun"]
    OBVIOUS
  <2>2. call' = [call EXCEPT ![c] = r] /\ UNCHANGED <<methods, longest_spec_list, arity, cache, change>>
    BY <1>1, <2>1 DEF Store
  <2>3. r.pc \in {"idle", "overrun", "apply"}
    BY <2>1
  <2>. QED  BY <2>2, <2>3, CallMoves
<1>2. CASE ~(arity > call[c].size)
  <2>1. call[c].types \in Arguments /\ call[c].late \in BOOLEAN /\ call[c].pc = "store"
    BY DEF Store, DispatchInv, DispatchTypes, Storing, Asking
  <2>2. PICK keys : keys = Keys(call[c].types, arity)
    OBVIOUS
  <2>3. PICK r : r = [pc |-> "apply", em |-> call[c].em]
    OBVIOUS
  <2>4. PICK e : e = [em |-> call[c].em, late |-> call[c].late]
    OBVIOUS
  <2>5. /\ cache' = [k \in DOMAIN cache \union {keys} |-> IF k = keys THEN e ELSE cache[k]]
        /\ call' = [call EXCEPT ![c] = r]
        /\ UNCHANGED <<methods, longest_spec_list, arity, change>>
    BY <1>2, <2>2, <2>3, <2>4 DEF Store
  <2>6. call'[c] = r /\ \A d \in Caller \ {c} : call'[d] = call[d]
    BY <2>5 DEF DispatchInv, DispatchTypes
  <2>7. DispatchTypes'
    <3>1. call' = [d \in Caller |-> call'[d]]
      BY <2>5 DEF DispatchInv, DispatchTypes
    <3>2. \A d \in Caller : \/ call'[d].pc \in {"idle", "overrun", "apply"}
                            \/ call'[d] \in Asking \/ Storing(call'[d])
      BY <2>3, <2>6 DEF DispatchInv, DispatchTypes
    <3>. QED  BY <2>5, <3>1, <3>2 DEF DispatchInv, DispatchTypes
  <2>8. Fits'
    BY <2>5 DEF DispatchInv, Fits, Settled
  <2>9. Computed'
    BY <2>3, <2>5, <2>6 DEF DispatchInv, Computed
  <2>10. CacheAgrees'
    <3>. SUFFICES ASSUME Settled, NEW k \in DOMAIN cache', ~cache'[k].late,
                         NEW types \in Arguments, Keys(types, arity) = k
                  PROVE  cache'[k].em = Answer(methods, types)
      BY <2>5 DEF CacheAgrees, Settled, Having, Answer
    <3>1. CASE k = keys
      <4>1. e.em = Answer(methods, call[c].types)
        BY <2>1, <2>4, <2>5, <3>1 DEF DispatchInv, Computed
      <4>2. methods \in Seq(Short(arity)) /\ arity \in Nat
        BY DEF DispatchInv, Fits, DispatchTypes
      <4>3. Answer(methods, call[c].types) = Answer(methods, types)
        BY <2>1, <2>2, <3>1, <4>2, SameAnswer
      <4>. QED  BY <2>5, <3>1, <4>1, <4>3
    <3>2. CASE k # keys
      BY <2>5, <3>2 DEF DispatchInv, CacheAgrees, Settled, Having, Answer
    <3>. QED  BY <3>1, <3>2
  <2>. QED  BY <2>7, <2>8, <2>9, <2>10 DEF DispatchInv
<1>. QED  BY <1>1, <1>2

-----------------------------------------------------------------------------
(* Changes.                                                                *)

LEMMA BeginAddKeeps ==
  ASSUME DispatchAssumption, DispatchInv, NEW h \in Changer, BeginAdd(h)
  PROVE  DispatchInv'
<1>1. PICK m \in Method :
        /\ Going(h, "add", m)
        /\ longest_spec_list' = IF Len(m.spec) > longest_spec_list THEN Len(m.spec)
                                ELSE longest_spec_list
  BY DEF BeginAdd
<1>2. UNCHANGED <<methods, arity, cache, call>> /\ change[h].pc = "idle"
  BY DEF BeginAdd
<1>3. Len(m.spec) \in Nat /\ \A p \in Method : Len(p.spec) \in Nat
  BY DEF DispatchAssumption
<1>4. /\ longest_spec_list \in Nat /\ longest_spec_list' \in Nat
      /\ longest_spec_list <= longest_spec_list' /\ Len(m.spec) <= longest_spec_list'
  BY <1>1, <1>3 DEF DispatchInv, DispatchTypes
<1>5. Short(longest_spec_list) \subseteq Short(longest_spec_list')
  BY <1>3, <1>4 DEF Short
<1>6. PICK s : s = [pc |-> "add", method |-> m]
  OBVIOUS
<1>7. /\ change' = [change EXCEPT ![h] = s]
      /\ change'[h] = s /\ \A g \in Changer \ {h} : change'[g] = change[g]
      /\ change' = [g \in Changer |-> change'[g]]
  BY <1>1, <1>6 DEF Going, DispatchInv, DispatchTypes
<1>8. DispatchTypes'
  <2>1. methods' \in Seq(Short(longest_spec_list'))
    <3>1. methods \in Seq(Short(longest_spec_list)) /\ methods' = methods
      BY <1>2 DEF DispatchInv, DispatchTypes
    <3>. QED  BY <1>5, <3>1
  <2>2. \A g \in Changer : change'[g].pc = "add" => change'[g].method \in Short(longest_spec_list')
    <3>1. s.method \in Short(longest_spec_list')
      BY <1>4, <1>6 DEF Short
    <3>. QED  BY <1>5, <1>7, <3>1 DEF DispatchInv, DispatchTypes
  <2>. QED  BY <1>2, <1>4, <1>7, <2>1, <2>2 DEF DispatchInv, DispatchTypes
<1>9. Settled' <=> Settled
  BY <1>2, <1>6, <1>7 DEF Settled
<1>10. Fits' /\ Computed'
  BY <1>2, <1>9 DEF DispatchInv, Fits, Computed
<1>11. CacheAgrees'
  BY <1>2, <1>9 DEF DispatchInv, CacheAgrees, Settled, Having
<1>. QED  BY <1>8, <1>10, <1>11 DEF DispatchInv

\* The methods change: what calls have computed is late, and the cache is to be
\* reset.
LEMMA ChangeKeeps ==
  ASSUME DispatchInv, NEW h \in Changer, NEW m, Going(h, "reset", m), Changed,
         methods' \in Seq(Short(longest_spec_list)),
         UNCHANGED <<longest_spec_list, arity, cache>>
  PROVE  DispatchInv'
<1>1. PICK s : s = [pc |-> "reset", method |-> m]
  OBVIOUS
<1>2. /\ change'[h] = s /\ \A g \in Changer \ {h} : change'[g] = change[g]
      /\ change' = [g \in Changer |-> change'[g]]
  BY <1>1 DEF Going, DispatchInv, DispatchTypes
<1>3. ASSUME NEW c \in Caller
      PROVE  /\ call[c].pc = "store" => Storing(call'[c]) /\ call'[c].late = TRUE
             /\ call[c].pc # "store" => call'[c] = call[c]
  <2>1. call'[c] = IF call[c].pc = "store" THEN [call[c] EXCEPT !.late = TRUE] ELSE call[c]
    BY DEF Changed
  <2>2. CASE call[c].pc = "store"
    <3>1. Storing(call[c])
      BY <2>2 DEF DispatchInv, DispatchTypes, Asking
    <3>2. PICK r : r = [call[c] EXCEPT !.late = TRUE]
      OBVIOUS
    <3>3. PICK E : E = {call[c].em}
      OBVIOUS
    <3>4. call[c] \in [pc : {"store"}, types : Arguments, size : Nat, em : E, late : BOOLEAN]
      BY <3>1, <3>3 DEF Storing
    <3>5. /\ r \in [pc : {"store"}, types : Arguments, size : Nat, em : E, late : BOOLEAN]
          /\ r.late = TRUE /\ r.em = call[c].em
      BY <3>2, <3>4
    <3>6. Storing(r) /\ r.late = TRUE
      BY <3>3, <3>5 DEF Storing
    <3>. QED  BY <2>1, <2>2, <3>2, <3>6
  <2>. QED  BY <2>1, <2>2
<1>4. DispatchTypes'
  <2>1. call' = [c \in Caller |-> call'[c]]
    BY DEF Changed
  <2>2. \A c \in Caller : \/ call'[c].pc \in {"idle", "overrun", "apply"}
                          \/ call'[c] \in Asking \/ Storing(call'[c])
    BY <1>3 DEF DispatchInv, DispatchTypes
  <2>3. \A g \in Changer : change'[g].pc = "add" => change'[g].method \in Short(longest_spec_list)
    BY <1>1, <1>2 DEF DispatchInv, DispatchTypes
  <2>. QED  BY <1>2, <2>1, <2>2, <2>3 DEF DispatchInv, DispatchTypes
<1>5. ~Settled'
  BY <1>1, <1>2 DEF Settled
<1>6. Fits' /\ CacheAgrees'
  BY <1>5 DEF Fits, CacheAgrees, Settled
<1>7. Computed'
  BY <1>3 DEF Computed
<1>. QED  BY <1>4, <1>6, <1>7 DEF DispatchInv

LEMMA AddMethodKeeps ==
  ASSUME DispatchInv, NEW h \in Changer, AddMethod(h)
  PROVE  DispatchInv'
<1>1. PICK m : m = change[h].method
  OBVIOUS
<1>2. /\ methods' = IF Replaced(m) = {} THEN <<m>> \o methods
                    ELSE [i \in DOMAIN methods |-> IF i \in Replaced(m) THEN m ELSE methods[i]]
      /\ Going(h, "reset", m) /\ Changed /\ UNCHANGED <<longest_spec_list, arity, cache>>
  BY <1>1 DEF AddMethod
<1>3. PICK S : S = Short(longest_spec_list)
  OBVIOUS
<1>4. m \in S /\ methods \in Seq(S)
  BY <1>1, <1>3 DEF AddMethod, DispatchInv, DispatchTypes
<1>5. methods' \in Seq(S)
  BY <1>2, <1>4
<1>. QED  BY <1>2, <1>3, <1>5, ChangeKeeps

LEMMA RemoveMethodKeeps ==
  ASSUME DispatchInv, NEW h \in Changer, RemoveMethod(h)
  PROVE  DispatchInv'
<1>1. PICK i \in DOMAIN methods : methods' = RemoveAt(methods, i) /\ Going(h, "reset", methods[i])
  BY DEF RemoveMethod
<1>2. PICK S : S = Short(longest_spec_list)
  OBVIOUS
<1>3. methods \in Seq(S)
  BY <1>2 DEF DispatchInv, DispatchTypes
<1>4. methods' \in Seq(S)
  <2>1. Len(methods) \in Nat /\ i \in 1..Len(methods)
    BY <1>3
  <2>2. SubSeq(methods, 1, i - 1) \in Seq(S) /\ SubSeq(methods, i + 1, Len(methods)) \in Seq(S)
    BY <1>3, <2>1
  <2>. QED  BY <1>1, <2>2 DEF RemoveAt
<1>5. Changed /\ UNCHANGED <<longest_spec_list, arity, cache>>
  BY DEF RemoveMethod
<1>. QED  BY <1>1, <1>2, <1>4, <1>5, ChangeKeeps

\* The cache is emptied, and has room for the keys of every method.
LEMMA ResetCacheKeeps ==
  ASSUME DispatchInv, NEW h \in Changer, ResetCache(h)
  PROVE  DispatchInv'
<1>1. /\ arity' = longest_spec_list /\ DOMAIN cache' = {}
      /\ change' = [change EXCEPT ![h] = NoChange]
      /\ UNCHANGED <<methods, longest_spec_list, call>>
  BY DEF ResetCache
<1>2. /\ change'[h] = NoChange /\ \A g \in Changer \ {h} : change'[g] = change[g]
      /\ change' = [g \in Changer |-> change'[g]]
  BY <1>1 DEF DispatchInv, DispatchTypes
<1>3. DispatchTypes'
  BY <1>1, <1>2 DEF DispatchInv, DispatchTypes, NoChange
<1>4. Fits' /\ Computed' /\ CacheAgrees'
  BY <1>1 DEF DispatchInv, DispatchTypes, Fits, Computed, CacheAgrees
<1>. QED  BY <1>3, <1>4 DEF DispatchInv

-----------------------------------------------------------------------------
(* Every behaviour.                                                        *)

LEMMA InitInvariant ==
  ASSUME GenericInit
  PROVE  DispatchInv
<1>1. /\ methods = <<>> /\ longest_spec_list = 0 /\ arity = 0 /\ DOMAIN cache = {}
      /\ call = [c \in Caller |-> NoCall] /\ change = [h \in Changer |-> NoChange]
  BY DEF GenericInit
<1>2. DispatchTypes
  BY <1>1 DEF DispatchTypes, NoCall, NoChange
<1>3. Fits /\ Computed /\ CacheAgrees
  BY <1>1 DEF Fits, Computed, CacheAgrees, NoCall
<1>. QED  BY <1>2, <1>3 DEF DispatchInv

LEMMA NextInvariant ==
  ASSUME DispatchAssumption, DispatchInv, [GenericNext]_genericVars
  PROVE  DispatchInv'
<1>1. CASE UNCHANGED genericVars
  BY <1>1 DEF genericVars, DispatchInv, DispatchTypes, Fits, Settled, Computed, CacheAgrees, Having
<1>2. ASSUME NEW c \in Caller,
             BeginCall(c) \/ FillKeys(c) \/ Lookup(c) \/ Compute(c) \/ Store(c) \/ Apply(c)
      PROVE  DispatchInv'
  BY <1>2, BeginCallKeeps, FillKeysKeeps, LookupKeeps, ComputeKeeps, StoreKeeps, ApplyKeeps
<1>3. ASSUME NEW h \in Changer, BeginAdd(h) \/ AddMethod(h) \/ RemoveMethod(h) \/ ResetCache(h)
      PROVE  DispatchInv'
  BY <1>3, BeginAddKeeps, AddMethodKeeps, RemoveMethodKeeps, ResetCacheKeeps
<1>. QED  BY <1>1, <1>2, <1>3 DEF GenericNext

\* Unless a change has yet to reset it, the cache answers what dispatch computes
\* for all arguments that have the keys it is asked with, but for what a call
\* stored that a change had overtaken (apply_standard_generic_function and
\* standard_generic_function_add_method, src/src/generic.c).
THEOREM DispatchAgrees ==
  ASSUME DispatchAssumption
  PROVE  GenericSpec => []CacheAgrees
<1>1. GenericInit => DispatchInv
  BY InitInvariant
<1>2. DispatchInv /\ [GenericNext]_genericVars => DispatchInv'
  BY NextInvariant
<1>3. DispatchInv => CacheAgrees
  BY DEF DispatchInv
<1>. QED  BY <1>1, <1>2, <1>3, PTL DEF GenericSpec

\* The methods that apply to some arguments are sorted from the most special one
\* to the least, however many they are and in whatever order they were added, if
\* the specializers of each argument are in a line (sort_methods and
\* more_specific_method_p, src/src/generic.c).
THEOREM SortedBySpeciality ==
  ASSUME DispatchAssumption
  PROVE  GenericSpec => []MostSpecialFirst
<1>1. GenericInit => DispatchInv
  BY InitInvariant
<1>2. DispatchInv /\ [GenericNext]_genericVars => DispatchInv'
  BY NextInvariant
<1>3. ASSUME DispatchInv
      PROVE  MostSpecialFirst
  <2>1. methods \in Seq(Method)
    <3>1. methods \in Seq(Short(longest_spec_list)) /\ Short(longest_spec_list) \subseteq Method
      BY <1>3 DEF DispatchInv, DispatchTypes, Short
    <3>. QED  BY <3>1
  <2>. SUFFICES ASSUME NEW types \in Arguments, NEW list,
                       list = ApplicableMethods(methods, types),
                       \A k \in DOMAIN types : InLine(Specializers(list, k))
                PROVE  \A i, j \in DOMAIN list : i < j => ~Special(list[j], list[i])
    BY Zenon DEF MostSpecialFirst
  <2>. QED  BY <2>1, ApplicableSorted
<1>. QED  BY <1>1, <1>2, <1>3, PTL DEF GenericSpec

-----------------------------------------------------------------------------
(* The priority queue.                                                     *)

\* The nodes U with all that links lead to, but for the next ones of loose nodes L,
\* some of the roots R.
Linked(nx, ch, R, L, U) ==
  /\ L \subseteq R /\ R \subseteq U /\ NoNode \notin U
  /\ \A x \in U : ch[x] \in U \union {NoNode} /\ (x \in L \/ nx[x] \in U \union {NoNode})

\* There is no other node that is led to.
Covers(nx, ch, R, L, U) == \A S \in SUBSET Node : Linked(nx, ch, R, L, S) => U \subseteq S

\* up is the parent of each: lists are of nodes with one parent, and one link leads
\* to each node but to those of R.
Upwards(nx, ch, R, L, U, up) ==
  /\ \A x \in U : up[x] \in U \union {NoNode}
  /\ \A r \in R : up[r] = NoNode
  /\ \A x \in U : ch[x] # NoNode => up[ch[x]] = x
  /\ \A x \in U \ L : nx[x] # NoNode =>
       up[nx[x]] = up[x] /\ nx[x] \notin R /\ \A y \in U : ch[y] # nx[x]
  /\ \A x, y \in U \ L : nx[x] = nx[y] /\ nx[x] # NoNode => x = y

\* Sub has the tree of each.
Subtrees(U, up, Sub) ==
  /\ \A x, r \in U : x \in Sub[r] <=> x = r \/ (up[x] # NoNode /\ up[x] \in Sub[r])
  /\ \A x, y \in U : y \in Sub[x] => Sub[y] \subseteq Sub[x]
  /\ \A x, y \in U : x # y /\ up[x] = up[y] => Sub[x] \intersect Sub[y] = {}
Sizes(dg, U, Sub, P) ==
  \A x \in U : dg[x] \in Degree /\ Sub[x] \in SUBSET P /\ Cardinality(Sub[x]) = 2^dg[x]

\* An object is not before the one above it.
Ordered(U, up) == \A x \in U : up[x] # NoNode => ~Lt(x, up[x])

-----------------------------------------------------------------------------
(* Joining trees.                                                          *)

\* cn becomes the first child of pn: one of the two is at i, the other loose.
Pair(i, q, pn, cn) == (pn = i /\ cn = q) \/ (pn = q /\ cn = i)
Relinked(nx, ch, X, i, pn, cn, f, g) ==
  /\ f[cn] = ch[pn] /\ f[pn] = nx[i] /\ \A x \in X \ {pn, cn} : f[x] = nx[x]
  /\ g[pn] = cn /\ \A x \in X \ {pn} : g[x] = ch[x]
Altered(F, X, n, v, G) == G[n] = v /\ \A x \in X \ {n} : G[x] = F[x]

LEMMA JoinedLinks ==
  ASSUME NEW U, NEW R, NEW L, NEW nx, NEW ch, NEW up,
         Linked(nx, ch, R, L, U), Upwards(nx, ch, R, L, U, up),
         NEW i \in R \ L, NEW q \in L, NEW pn, NEW cn, Pair(i, q, pn, cn),
         NEW f, NEW g, Relinked(nx, ch, U, i, pn, cn, f, g), NEW w, Altered(up, U, cn, pn, w)
  PROVE  /\ Linked(f, g, R \ {cn}, L \ {q}, U)
         /\ Upwards(f, g, R \ {cn}, L \ {q}, U, w)
<1>. USE DEF Pair, Relinked, Altered
<1>1. pn \in U /\ cn \in U /\ pn # cn /\ pn \in R /\ cn \in R /\ i \in U /\ q \in U
  BY DEF Linked
<1>2. up[pn] = NoNode /\ up[cn] = NoNode /\ NoNode \notin U
  BY <1>1 DEF Linked, Upwards
<1>3. ch[pn] \in U \union {NoNode} /\ nx[i] \in U \union {NoNode}
  BY <1>1 DEF Linked
<1>4. \A x \in U : ch[x] \in U \union {NoNode} /\ (x \in L \/ nx[x] \in U \union {NoNode})
  BY DEF Linked
<1>5. \A x \in U : ch[x] # NoNode => up[ch[x]] = x
  BY DEF Upwards
<1>6. \A x \in U \ L : nx[x] # NoNode =>
        up[nx[x]] = up[x] /\ nx[x] \notin R /\ \A y \in U : ch[y] # nx[x]
  BY DEF Upwards
<1>7. Linked(f, g, R \ {cn}, L \ {q}, U)
  <2>1. \A x \in U : g[x] \in U \union {NoNode}
    BY <1>1, <1>4
  <2>2. \A x \in U : x \in L \ {q} \/ f[x] \in U \union {NoNode}
    BY <1>1, <1>3, <1>4
  <2>. QED  BY <1>1, <2>1, <2>2 DEF Linked
<1>8. \A x \in U : w[x] \in U \union {NoNode}
  BY <1>1 DEF Upwards
<1>9. \A r \in R \ {cn} : w[r] = NoNode
  BY DEF Upwards, Linked
<1>10. \A x \in U : g[x] # NoNode => w[g[x]] = x
  BY <1>1, <1>2, <1>4, <1>5
<1>11. nx[i] # NoNode => up[nx[i]] = NoNode /\ nx[i] \notin R /\ \A y \in U : ch[y] # nx[i]
  BY <1>1, <1>6 DEF Upwards
<1>12. ch[pn] # NoNode => ch[pn] # cn /\ up[ch[pn]] = pn /\ ch[pn] \notin R
  BY <1>1, <1>2, <1>5 DEF Upwards
<1>13. ASSUME NEW x \in U \ (L \ {q}), f[x] # NoNode
       PROVE  w[f[x]] = w[x] /\ f[x] \notin R \ {cn} /\ \A y \in U : g[y] # f[x]
  <2>1. CASE x = pn
    BY <1>1, <1>2, <1>3, <1>11, <1>13, <2>1
  <2>2. CASE x = cn
    <3>1. f[x] = ch[pn] /\ w[x] = pn
      BY <2>2
    <3>2. w[f[x]] = pn /\ f[x] \notin R
      BY <1>3, <1>12, <1>13, <3>1
    <3>3. \A y \in U : g[y] # ch[pn]
      BY <1>1, <1>2, <1>5, <1>12, <1>13, <3>1
    <3>. QED  BY <3>1, <3>2, <3>3
  <2>3. CASE x # pn /\ x # cn
    <3>1. f[x] = nx[x] /\ w[x] = up[x] /\ x \in U \ L
      BY <2>3
    <3>2. nx[x] \notin R /\ up[nx[x]] = up[x] /\ (\A y \in U : ch[y] # nx[x]) /\ nx[x] \in U
      BY <1>4, <1>6, <1>13, <3>1
    <3>3. nx[x] # cn
      BY <1>1, <3>2
    <3>. QED  BY <1>1, <3>1, <3>2, <3>3
  <2>. QED  BY <2>1, <2>2, <2>3
<1>14. ASSUME NEW x \in U \ (L \ {q}), NEW y \in U \ (L \ {q}), f[x] = f[y], f[x] # NoNode
       PROVE  x = y
  <2>1. \A z \in U \ L : nx[z] # NoNode => ch[pn] # nx[z]
    BY <1>1, <1>6
  <2>2. \A z \in U \ L : nx[z] = nx[i] /\ nx[i] # NoNode => z = i
    BY <1>1 DEF Upwards
  <2>3. \A z, v \in U \ L : nx[z] = nx[v] /\ nx[z] # NoNode => z = v
    BY DEF Upwards
  <2>. QED  BY <1>1, <1>14, <2>1, <2>2, <2>3
<1>15. Upwards(f, g, R \ {cn}, L \ {q}, U, w)
  BY <1>8, <1>9, <1>10, <1>13, <1>14 DEF Upwards
<1>. QED  BY <1>7, <1>15

LEMMA JoinedCovers ==
  ASSUME NEW U, NEW R, NEW L, NEW nx, NEW ch, Covers(nx, ch, R, L, U),
         L \subseteq R, NoNode \notin R,
         NEW i \in R \ L, NEW q \in L, NEW pn, NEW cn, Pair(i, q, pn, cn),
         NEW f, NEW g, Relinked(nx, ch, Node, i, pn, cn, f, g)
  PROVE  Covers(f, g, R \ {cn}, L \ {q}, U)
<1>. USE DEF Pair, Relinked
<1>. SUFFICES ASSUME NEW S \in SUBSET Node, Linked(f, g, R \ {cn}, L \ {q}, S)
              PROVE  Linked(nx, ch, R, L, S)
  BY DEF Covers
<1>1. pn \in R /\ cn \in R /\ pn # cn /\ cn # NoNode
  OBVIOUS
<1>2. R \ {cn} \subseteq S /\ NoNode \notin S
  BY DEF Linked
<1>3. pn \in S
  BY <1>1, <1>2
<1>4. cn \in S
  BY <1>1, <1>3 DEF Linked
<1>5. R \subseteq S
  BY <1>2, <1>4
<1>6. \A x \in S : g[x] \in S \union {NoNode} /\ (x \in L \ {q} \/ f[x] \in S \union {NoNode})
  BY DEF Linked
<1>7. f[cn] \in S \union {NoNode} /\ f[pn] \in S \union {NoNode}
  BY <1>3, <1>4, <1>6
<1>8. ASSUME NEW x \in S
      PROVE  ch[x] \in S \union {NoNode} /\ (x \in L \/ nx[x] \in S \union {NoNode})
  <2>1. CASE x = pn
    BY <1>1, <1>6, <1>7, <2>1
  <2>2. CASE x = cn
    BY <1>1, <1>6, <1>7, <2>2
  <2>3. CASE x # pn /\ x # cn
    BY <1>6, <2>3
  <2>. QED  BY <2>1, <2>2, <2>3
<1>. QED  BY <1>2, <1>5, <1>8 DEF Linked

LEMMA JoinedSubtrees ==
  ASSUME NEW U, NEW up, NEW Sub, Subtrees(U, up, Sub), NoNode \notin U,
         NEW pn \in U, NEW cn \in U, pn # cn, up[pn] = NoNode, up[cn] = NoNode,
         NEW w, Altered(up, U, cn, pn, w), NEW T, Altered(Sub, U, pn, Sub[pn] \union Sub[cn], T)
  PROVE  Subtrees(U, w, T)
<1>. USE DEF Altered
<1>1. \A x, r \in U : x \in Sub[r] <=> x = r \/ (up[x] # NoNode /\ up[x] \in Sub[r])
  BY DEF Subtrees
<1>2. \A x, y \in U : y \in Sub[x] => Sub[y] \subseteq Sub[x]
  BY DEF Subtrees
<1>3. \A x, y \in U : x # y /\ up[x] = up[y] => Sub[x] \intersect Sub[y] = {}
  BY DEF Subtrees
<1>4. \A x \in U : x \in Sub[x]
  BY <1>1
<1>5. ASSUME NEW x \in U, NEW r \in U
      PROVE  x \in T[r] <=> x = r \/ (w[x] # NoNode /\ w[x] \in T[r])
  <2>1. CASE r = pn
    <3>1. CASE x = cn
      BY <1>4, <2>1, <3>1
    <3>2. CASE x # cn
      BY <1>1, <2>1, <3>2
    <3>. QED  BY <3>1, <3>2
  <2>2. CASE r # pn
    <3>1. T[r] = Sub[r]
      BY <2>2
    <3>2. CASE x = cn
      BY <1>1, <2>2, <3>1, <3>2
    <3>3. CASE x # cn
      BY <1>1, <3>1, <3>3
    <3>. QED  BY <3>2, <3>3
  <2>. QED  BY <2>1, <2>2
<1>6. ASSUME NEW x \in U, NEW y \in U, y \in T[x]
      PROVE  T[y] \subseteq T[x]
  <2>1. CASE x = pn /\ y = pn
    BY <2>1
  <2>2. CASE x = pn /\ y # pn
    BY <1>2, <1>6, <2>2
  <2>3. CASE x # pn
    <3>1. y # pn
      BY <1>1, <1>6, <2>3
    <3>. QED  BY <1>2, <1>6, <2>3, <3>1
  <2>. QED  BY <2>1, <2>2, <2>3
<1>7. ASSUME NEW x \in U, NEW y \in U, x # y, w[x] = w[y], x # cn, y # cn
      PROVE  T[x] \intersect T[y] = {}
  <2>1. up[x] = up[y] /\ Sub[x] \intersect Sub[y] = {}
    BY <1>3, <1>7
  <2>2. CASE x = pn
    BY <1>3, <1>7, <2>1, <2>2
  <2>3. CASE y = pn
    BY <1>3, <1>7, <2>1, <2>3
  <2>. QED  BY <2>1, <2>2, <2>3
<1>8. ASSUME NEW y \in U, w[y] = pn, y # cn
      PROVE  T[y] \intersect T[cn] = {}
  <2>1. up[y] = pn /\ y # pn
    BY <1>8
  <2>2. Sub[y] \subseteq Sub[pn]
    BY <1>1, <1>2, <1>4, <2>1
  <2>3. Sub[pn] \intersect Sub[cn] = {}
    BY <1>3
  <2>. QED  BY <2>1, <2>2, <2>3
<1>9. ASSUME NEW x \in U, NEW y \in U, x # y, w[x] = w[y]
      PROVE  T[x] \intersect T[y] = {}
  BY <1>7, <1>8, <1>9
<1>. QED  BY <1>5, <1>6, <1>9 DEF Subtrees

\* There is room for the tree of two.
LEMMA JoinedSizes ==
  ASSUME PriorityQueueAssumption, NEW U, NEW up, NEW Sub, Subtrees(U, up, Sub),
         NEW P \in SUBSET Node, NEW dg, Sizes(dg, U, Sub, P),
         NEW pn \in U, NEW cn \in U, pn # cn, up[pn] = up[cn], dg[pn] = dg[cn],
         NEW e, Altered(dg, U, pn, dg[pn] + 1, e),
         NEW T, Altered(Sub, U, pn, Sub[pn] \union Sub[cn], T)
  PROVE  Sizes(e, U, T, P)
<1>. USE DEF Altered
<1>1. Sub[pn] \intersect Sub[cn] = {}
  BY DEF Subtrees
<1>2. dg[pn] \in Degree /\ Sub[pn] \in SUBSET P /\ Cardinality(Sub[pn]) = 2^dg[pn]
  BY DEF Sizes
<1>3. dg[pn] \in Degree /\ Sub[cn] \in SUBSET P /\ Cardinality(Sub[cn]) = 2^dg[pn]
  BY DEF Sizes
<1>4. IsFiniteSet(Node) /\ Cardinality(Node) = MaxNodes
  <2>1. MaxNodes \in Nat
    BY DEF PriorityQueueAssumption
  <2>2. 1 \in Int /\ MaxNodes \in Int /\ MaxNodes - 1 + 1 = MaxNodes
    BY <2>1
  <2>3. IsFiniteSet(1..MaxNodes)
    BY <2>2, FS_Interval
  <2>4. Cardinality(1..MaxNodes) = IF 1 > MaxNodes THEN 0 ELSE MaxNodes - 1 + 1
    BY <2>2, FS_Interval
  <2>. QED  BY <2>1, <2>3, <2>4 DEF Node
<1>5. IsFiniteSet(Sub[pn]) /\ IsFiniteSet(Sub[cn])
  <2>1. Sub[pn] \subseteq Node /\ Sub[cn] \subseteq Node
    BY <1>2, <1>3
  <2>. QED  BY <1>4, <2>1, FS_Subset
<1>6. T[pn] \subseteq Node /\ T[pn] \subseteq P
  BY <1>2, <1>3
<1>7. Cardinality(T[pn]) <= MaxNodes /\ Cardinality(T[pn]) \in Nat
  <2>1. IsFiniteSet(T[pn]) /\ Cardinality(T[pn]) <= Cardinality(Node)
    BY <1>4, <1>6, FS_Subset
  <2>. QED  BY <1>4, <2>1, FS_CardinalityType
<1>8. 2^dg[pn] \in Nat /\ 2^(dg[pn] + 1) = 2 * 2^dg[pn]
  BY <1>2 DEF PriorityQueueAssumption
<1>9. Cardinality(T[pn]) = 2^(dg[pn] + 1)
  <2>1. Cardinality(Sub[pn] \union Sub[cn])
          = Cardinality(Sub[pn]) + Cardinality(Sub[cn]) - Cardinality(Sub[pn] \intersect Sub[cn])
    BY <1>5, FS_Union
  <2>2. Cardinality(Sub[pn] \intersect Sub[cn]) = 0
    BY <1>1, FS_EmptySet
  <2>3. Cardinality(T[pn]) = Cardinality(Sub[pn] \union Sub[cn])
    OBVIOUS
  <2>4. Cardinality(T[pn]) = 2^dg[pn] + 2^dg[pn] - 0
    BY <1>2, <1>3, <2>1, <2>2, <2>3
  <2>. QED  BY <1>8, <2>4
<1>10. dg[pn] + 1 \in Degree
  <2>1. MAX_DEGREE \in Nat /\ MaxNodes \in Nat /\ MaxNodes < 2^MAX_DEGREE
    BY DEF PriorityQueueAssumption
  <2>2. dg[pn] + 1 # MAX_DEGREE
    <3>1. SUFFICES ASSUME dg[pn] + 1 = MAX_DEGREE PROVE FALSE
      OBVIOUS
    <3>2. Cardinality(T[pn]) = 2^MAX_DEGREE
      BY <1>9, <3>1
    <3>. QED  BY <1>7, <2>1, <3>2
  <2>. QED  BY <1>2, <2>1, <2>2 DEF Degree
<1>. QED  BY <1>6, <1>9, <1>10 DEF Sizes

-----------------------------------------------------------------------------
(* What a throw leaves.  The nodes c[1] to c[n] are the list from the head, as *)
(* long as it is of loose nodes.                                               *)

RootList(nx, L, h, c, n) ==
  /\ n \in Nat /\ c[1] = h
  /\ \A k \in 1..n :
       /\ c[k] \in L /\ c[k + 1] = nx[c[k]]
       /\ \A j \in 1..n : c[j] = c[k] => j = k

\* The list goes on among the children of p, a node off it: with D, all of them from
\* c[n + 1] on and the nodes below them.
Astray(nx, ch, U, up, Sub, c, n, p, D) ==
  /\ p \in U /\ D \subseteq U /\ c[n + 1] \in D /\ up[c[n + 1]] = p
  /\ \A d \in D :
       /\ ch[d] \in D \union {NoNode} /\ nx[d] \in D \union {NoNode} /\ nx[d] # c[n + 1]
       /\ up[d] = p \/ up[d] \in D
       /\ p \notin Sub[d]
       /\ \A k \in 1..n : Sub[d] \intersect Sub[c[k]] = {}
  /\ \A k \in 1..n : p \notin Sub[c[k]]

\* The trees of the loose nodes X are lost.
Without(U, Sub, X, V) == V = {x \in U : \A r \in X : x \notin Sub[r]}
LEMMA Dropped ==
  ASSUME NEW nx, NEW ch, NEW R, NEW L, NEW U, NEW up, NEW Sub,
         Linked(nx, ch, R, L, U), Upwards(nx, ch, R, L, U, up), Subtrees(U, up, Sub),
         NEW X \in SUBSET L, NEW V, Without(U, Sub, X, V)
  PROVE  /\ Linked(nx, ch, R \ X, L \ X, V) /\ Upwards(nx, ch, R \ X, L \ X, V, up)
         /\ Subtrees(V, up, Sub)
<1>1. X \subseteq U /\ NoNode \notin U /\ \A r \in X : up[r] = NoNode /\ r \in R
  BY DEF Linked, Upwards
<1>2. \A x, r \in U : x \in Sub[r] <=> x = r \/ (up[x] # NoNode /\ up[x] \in Sub[r])
  BY DEF Subtrees
<1>3. \A x : x \in V <=> x \in U /\ \A r \in X : x \notin Sub[r]
  BY DEF Without
<1>4. V \subseteq U /\ V \intersect X = {}
  BY <1>1, <1>2, <1>3
<1>5. R \ X \subseteq V
  <2>1. ASSUME NEW x \in R \ X, NEW r \in X PROVE x \notin Sub[r]
    <3>1. x \in U /\ up[x] = NoNode /\ x # r
      BY DEF Linked, Upwards
    <3>. QED  BY <1>1, <1>2, <3>1
  <2>2. R \subseteq U
    BY DEF Linked
  <2>. QED  BY <1>3, <2>1, <2>2
<1>6. ASSUME NEW x \in V, up[x] # NoNode PROVE up[x] \in V
  <2>1. up[x] \in U
    BY <1>4, <1>6 DEF Upwards
  <2>2. \A r \in X : up[x] \notin Sub[r]
    BY <1>1, <1>2, <1>4, <1>6, <1>3
  <2>. QED  BY <1>3, <2>1, <2>2
<1>7. ASSUME NEW x \in V, NEW y \in U, y \notin R, up[y] = NoNode \/ up[y] \in V
      PROVE  y \in V
  <2>1. \A r \in X : y # r
    BY <1>1, <1>7
  <2>2. \A r \in X : y \notin Sub[r]
    BY <1>1, <1>2, <1>4, <1>7, <1>3, <2>1
  <2>. QED  BY <1>7, <1>3, <2>2
<1>8. ASSUME NEW x \in V, ch[x] # NoNode PROVE ch[x] \in V
  <2>1. x \in U /\ x # NoNode /\ ch[x] \in U /\ up[ch[x]] = x
    BY <1>1, <1>4, <1>8 DEF Linked, Upwards
  <2>2. ch[x] \notin R
    BY <2>1 DEF Upwards
  <2>. QED  BY <1>7, <2>1, <2>2
<1>9. ASSUME NEW x \in V, x \notin L \ X, nx[x] # NoNode PROVE nx[x] \in V
  <2>1. x \in U \ L
    BY <1>4, <1>9
  <2>2. nx[x] \in U /\ nx[x] \notin R /\ up[nx[x]] = up[x]
    BY <1>9, <2>1 DEF Linked, Upwards
  <2>. QED  BY <1>6, <1>7, <2>2
<1>10. Linked(nx, ch, R \ X, L \ X, V)
  <2>1. L \ X \subseteq R \ X
    BY DEF Linked
  <2>. QED  BY <1>1, <1>4, <1>5, <1>8, <1>9, <2>1 DEF Linked
<1>11. Upwards(nx, ch, R \ X, L \ X, V, up)
  <2>1. V \ (L \ X) \subseteq U \ L
    BY <1>4
  <2>2. \A r \in R \ X : up[r] = NoNode
    BY DEF Upwards
  <2>3. \A x \in V : ch[x] # NoNode => up[ch[x]] = x
    BY <1>4 DEF Upwards
  <2>4. \A x \in U \ L : nx[x] # NoNode =>
          up[nx[x]] = up[x] /\ nx[x] \notin R /\ \A y \in U : ch[y] # nx[x]
    BY DEF Upwards
  <2>5. \A x, y \in U \ L : nx[x] = nx[y] /\ nx[x] # NoNode => x = y
    BY DEF Upwards
  <2>6. \A x \in V \ (L \ X) : nx[x] # NoNode =>
          up[nx[x]] = up[x] /\ nx[x] \notin R \ X /\ \A y \in V : ch[y] # nx[x]
    BY <1>4, <2>1, <2>4
  <2>7. \A x, y \in V \ (L \ X) : nx[x] = nx[y] /\ nx[x] # NoNode => x = y
    BY <2>1, <2>5
  <2>. QED  BY <1>6, <2>2, <2>3, <2>6, <2>7 DEF Upwards
<1>12. Subtrees(V, up, Sub)
  <2>1. \A x, y \in U : y \in Sub[x] => Sub[y] \subseteq Sub[x]
    BY DEF Subtrees
  <2>2. \A x, y \in U : x # y /\ up[x] = up[y] => Sub[x] \intersect Sub[y] = {}
    BY DEF Subtrees
  <2>. QED  BY <1>2, <1>4, <2>1, <2>2 DEF Subtrees
<1>. QED  BY <1>10, <1>11, <1>12

\* The loose nodes are a list that the other root ends.
LEMMA Threaded ==
  ASSUME NEW nx, NEW ch, NEW R, NEW L, NEW U, NEW up, NEW h, NEW c, NEW n,
         Linked(nx, ch, R, L, U), Upwards(nx, ch, R, L, U, up),
         RootList(nx, L, h, c, n), L = {c[k] : k \in 1..n}, c[n + 1] \notin L,
         R = L \union ({c[n + 1]} \ {NoNode})
  PROVE  /\ Linked(nx, ch, {h} \ {NoNode}, {}, U)
         /\ Upwards(nx, ch, {h} \ {NoNode}, {}, U, up)
<1>1. n \in Nat /\ c[1] = h
  BY DEF RootList
<1>2. \A k \in 1..n : c[k] \in L /\ c[k + 1] = nx[c[k]] /\ \A j \in 1..n : c[j] = c[k] => j = k
  BY DEF RootList
<1>3. \A k \in 1..(n + 1) : c[k] # NoNode => c[k] \in R
  <2>1. ASSUME NEW k \in 1..(n + 1) PROVE k \in 1..n \/ k = n + 1
    BY <1>1
  <2>. QED  BY <1>2, <2>1
<1>4. h # NoNode => h \in R
  BY <1>1, <1>3
<1>5. R \subseteq U /\ NoNode \notin U /\ \A r \in R : up[r] = NoNode
  BY DEF Linked, Upwards
<1>6. \A k \in 1..n : nx[c[k]] # NoNode => nx[c[k]] \in R /\ nx[c[k]] # h
  <2>1. SUFFICES ASSUME NEW k \in 1..n, nx[c[k]] # NoNode
                 PROVE  nx[c[k]] \in R /\ nx[c[k]] # h
    OBVIOUS
  <2>2. k + 1 \in 1..(n + 1) /\ nx[c[k]] = c[k + 1] /\ 1 \in 1..n /\ k + 1 # 1
    BY <1>1, <1>2
  <2>3. CASE k + 1 \in 1..n
    BY <1>1, <1>2, <1>3, <2>1, <2>2, <2>3
  <2>4. CASE k + 1 \notin 1..n
    <3>1. k + 1 = n + 1
      BY <1>1, <2>4
    <3>. QED  BY <1>1, <1>2, <1>3, <2>1, <2>2, <3>1
  <2>. QED  BY <2>3, <2>4
<1>7. \A j, k \in 1..n : nx[c[j]] = nx[c[k]] => j = k
  <2>1. SUFFICES ASSUME NEW j \in 1..n, NEW k \in 1..n, c[j + 1] = c[k + 1]
                 PROVE  j = k
    BY <1>2
  <2>2. (j + 1 \in 1..n \/ j + 1 = n + 1) /\ (k + 1 \in 1..n \/ k + 1 = n + 1)
    BY <1>1
  <2>3. j + 1 = k + 1
    BY <1>2, <2>1, <2>2
  <2>. QED  BY <2>3
<1>8. \A x \in U : ch[x] # NoNode => up[ch[x]] = x /\ x # NoNode
  BY <1>5 DEF Upwards
<1>9. \A x \in U \ L : nx[x] # NoNode =>
        up[nx[x]] = up[x] /\ nx[x] \notin R /\ \A y \in U : ch[y] # nx[x]
  BY DEF Upwards
<1>10. Linked(nx, ch, {h} \ {NoNode}, {}, U)
  <2>1. \A x \in U : ch[x] \in U \union {NoNode} /\ (x \in L \/ nx[x] \in U \union {NoNode})
    BY DEF Linked
  <2>2. \A x \in L : nx[x] \in U \union {NoNode}
    BY <1>5, <1>6
  <2>. QED  BY <1>4, <1>5, <2>1, <2>2 DEF Linked
<1>11. \A x \in U : nx[x] # NoNode =>
         up[nx[x]] = up[x] /\ nx[x] # h /\ \A y \in U : ch[y] # nx[x]
  <2>1. ASSUME NEW x \in L, nx[x] # NoNode
        PROVE  up[nx[x]] = up[x] /\ nx[x] # h /\ \A y \in U : ch[y] # nx[x]
    <3>1. nx[x] \in R /\ nx[x] # h /\ x \in R
      BY <1>6, <2>1
    <3>. QED  BY <1>5, <1>8, <2>1, <3>1
  <2>2. ASSUME NEW x \in U \ L, nx[x] # NoNode
        PROVE  up[nx[x]] = up[x] /\ nx[x] # h /\ \A y \in U : ch[y] # nx[x]
    BY <1>4, <1>9, <2>2
  <2>. QED  BY <2>1, <2>2
<1>12. \A x, y \in U : nx[x] = nx[y] /\ nx[x] # NoNode => x = y
  <2>1. \A x, y \in U \ L : nx[x] = nx[y] /\ nx[x] # NoNode => x = y
    BY DEF Upwards
  <2>2. \A x, y \in L : nx[x] = nx[y] => x = y
    BY <1>7
  <2>3. \A x \in L, y \in U \ L : nx[x] # NoNode => nx[x] # nx[y]
    BY <1>6, <1>9
  <2>. QED  BY <2>1, <2>2, <2>3
<1>13. \A x \in U : up[x] \in U \union {NoNode}
  BY DEF Upwards
<1>14. Upwards(nx, ch, {h} \ {NoNode}, {}, U, up)
  BY <1>4, <1>5, <1>8, <1>11, <1>12, <1>13 DEF Upwards
<1>. QED  BY <1>10, <1>14

\* The list from the head goes astray: it and D are what remains.
Remains(U, Sub, c, n, D, V) == V = {x \in U : x \in D \/ \E k \in 1..n : x \in Sub[c[k]]}
Lifted(U, up, p, w) == \A x \in U : w[x] = IF up[x] = p THEN NoNode ELSE up[x]

LEMMA Strayed ==
  ASSUME NEW nx, NEW ch, NEW R, NEW L, NEW U, NEW up, NEW Sub, NEW h, NEW c, NEW n, NEW p, NEW D,
         Linked(nx, ch, R, L, U), Upwards(nx, ch, R, L, U, up), Subtrees(U, up, Sub),
         RootList(nx, L, h, c, n), Astray(nx, ch, U, up, Sub, c, n, p, D),
         NEW V, Remains(U, Sub, c, n, D, V), NEW w, Lifted(U, up, p, w)
  PROVE  /\ Linked(nx, ch, {h} \ {NoNode}, {}, V) /\ Upwards(nx, ch, {h} \ {NoNode}, {}, V, w)
         /\ Subtrees(V, w, Sub)
<1>. DEFINE y == c[n + 1]
<1>. USE DEF Remains, Lifted
<1>1. n \in Nat /\ c[1] = h
  BY DEF RootList
<1>2. \A k \in 1..n : c[k] \in L /\ c[k + 1] = nx[c[k]] /\ \A j \in 1..n : c[j] = c[k] => j = k
  BY DEF RootList
<1>3. p \in U /\ D \subseteq U /\ y \in D /\ up[y] = p /\ \A k \in 1..n : p \notin Sub[c[k]]
  BY DEF Astray
<1>4. \A d \in D : /\ ch[d] \in D \union {NoNode} /\ nx[d] \in D \union {NoNode} /\ nx[d] # y
                   /\ up[d] = p \/ up[d] \in D
                   /\ p \notin Sub[d]
                   /\ \A k \in 1..n : Sub[d] \intersect Sub[c[k]] = {}
  BY DEF Astray
<1>5. R \subseteq U /\ NoNode \notin U /\ L \subseteq R /\ \A r \in R : up[r] = NoNode
  BY DEF Linked, Upwards
<1>6. \A x, r \in U : x \in Sub[r] <=> x = r \/ (up[x] # NoNode /\ up[x] \in Sub[r])
  BY DEF Subtrees
<1>7. \A x, r \in U : r \in Sub[x] => Sub[r] \subseteq Sub[x]
  BY DEF Subtrees
<1>8. \A x \in U : x \in Sub[x]
  BY <1>6
<1>9. V \subseteq U /\ D \subseteq V /\ p \notin V /\ NoNode \notin V
  <2>1. p \notin D
    BY <1>3, <1>4, <1>8
  <2>. QED  BY <1>3, <1>5, <2>1
<1>10. \A k \in 1..n : c[k] \in V /\ c[k] \in L /\ c[k] \in R /\ up[c[k]] = NoNode
  BY <1>2, <1>5, <1>8
<1>11. \A d \in D : up[d] # NoNode /\ d \notin R
  BY <1>3, <1>4, <1>5
<1>12. \A x \in V : \/ x \in D
                    \/ \E k \in 1..n : x = c[k]
                    \/ x \notin L /\ x \in U /\ \E k \in 1..n : x \in Sub[c[k]] /\ up[x] # NoNode /\ up[x] \in Sub[c[k]]
  BY <1>2, <1>5, <1>6
<1>13. \A x \in V : up[x] = p => x \in D
  <2>1. SUFFICES ASSUME NEW x \in V, up[x] = p, x \notin D PROVE FALSE
    OBVIOUS
  <2>2. PICK k \in 1..n : x \in Sub[c[k]]
    BY <2>1
  <2>3. x # c[k] /\ up[x] \in Sub[c[k]]
    BY <1>3, <1>5, <1>6, <1>9, <1>10, <2>1, <2>2
  <2>. QED  BY <1>3, <2>1, <2>3
<1>14. \A k \in 1..n : c[k + 1] \in V
  <2>1. SUFFICES ASSUME NEW k \in 1..n PROVE c[k + 1] \in V
    OBVIOUS
  <2>2. k + 1 \in 1..n \/ k + 1 = n + 1
    BY <1>1
  <2>. QED  BY <1>3, <1>9, <1>10, <2>2
<1>15. \A k \in 1..n : c[k + 1] # h
  <2>1. SUFFICES ASSUME NEW k \in 1..n PROVE c[k + 1] # c[1]
    BY <1>1
  <2>2. (k + 1 \in 1..n \/ k + 1 = n + 1) /\ 1 \in 1..n /\ k + 1 # 1
    BY <1>1
  <2>. QED  BY <1>2, <1>3, <1>10, <1>11, <2>2
<1>16. h \in V
  <2>1. CASE n = 0
    BY <1>1, <1>3, <1>9, <2>1
  <2>2. CASE n # 0
    <3>1. 1 \in 1..n
      BY <1>1, <2>2
    <3>. QED  BY <1>1, <1>10, <3>1
  <2>. QED  BY <2>1, <2>2
<1>17. h = c[1] /\ w[h] = NoNode /\ (h \in R \/ h = y)
  <2>1. CASE n = 0
    BY <1>1, <1>3, <2>1
  <2>2. CASE n # 0
    <3>1. 1 \in 1..n
      BY <1>1, <2>2
    <3>. QED  BY <1>1, <1>5, <1>10, <3>1
  <2>. QED  BY <2>1, <2>2
<1>18. ASSUME NEW x \in V
       PROVE  /\ ch[x] # NoNode => ch[x] \in V /\ up[ch[x]] = x /\ ch[x] # h
              /\ nx[x] \in V \union {NoNode}
  <2>1. x \in U /\ (ch[x] # NoNode => ch[x] \in U /\ up[ch[x]] = x /\ x # NoNode /\ ch[x] # h)
    BY <1>3, <1>5, <1>9, <1>17 DEF Linked, Upwards
  <2>2. CASE x \in D
    BY <1>4, <1>9, <2>1, <2>2
  <2>3. CASE \E k \in 1..n : x = c[k]
    <3>1. PICK k \in 1..n : x = c[k]
      BY <2>3
    <3>2. nx[x] \in V
      BY <1>2, <1>14, <3>1
    <3>3. ch[x] # NoNode => ch[x] \in Sub[c[k]]
      BY <1>6, <1>8, <2>1, <3>1
    <3>. QED  BY <2>1, <3>2, <3>3
  <2>4. CASE x \notin L /\ \E k \in 1..n : x \in Sub[c[k]] /\ up[x] # NoNode /\ up[x] \in Sub[c[k]]
    <3>1. PICK k \in 1..n : x \in Sub[c[k]] /\ up[x] # NoNode /\ up[x] \in Sub[c[k]]
      BY <2>4
    <3>2. c[k] \in U
      BY <1>9, <1>10
    <3>3. ch[x] # NoNode => ch[x] \in Sub[c[k]]
      BY <1>6, <2>1, <3>1, <3>2
    <3>4. nx[x] # NoNode => nx[x] \in U /\ up[nx[x]] = up[x]
      BY <2>1, <2>4 DEF Linked, Upwards
    <3>5. nx[x] # NoNode => nx[x] \in Sub[c[k]]
      BY <1>6, <3>1, <3>2, <3>4
    <3>. QED  BY <2>1, <3>3, <3>4, <3>5
  <2>. QED  BY <1>12, <2>2, <2>3, <2>4
<1>19. Linked(nx, ch, {h} \ {NoNode}, {}, V)
  BY <1>9, <1>16, <1>18 DEF Linked
<1>20. \A x \in V : w[x] \in V \union {NoNode}
  <2>1. SUFFICES ASSUME NEW x \in V, up[x] # NoNode, up[x] # p PROVE up[x] \in V
    BY <1>9
  <2>2. CASE x \in D
    BY <1>4, <1>9, <2>1, <2>2
  <2>3. CASE x \notin D
    <3>1. PICK k \in 1..n : x \in Sub[c[k]]
      BY <2>3
    <3>2. x # c[k] /\ up[x] \in Sub[c[k]] /\ up[x] \in U
      BY <1>6, <1>9, <1>10, <2>1, <3>1 DEF Upwards
    <3>. QED  BY <3>2
  <2>. QED  BY <2>2, <2>3
<1>21. \A x \in V : ch[x] # NoNode => w[ch[x]] = x
  BY <1>9, <1>18
<1>22. ASSUME NEW x \in V \ L, nx[x] # NoNode
       PROVE  /\ up[nx[x]] = up[x] /\ nx[x] \notin R /\ \A z \in U : ch[z] # nx[x]
              /\ nx[x] # y
  <2>1. up[nx[x]] = up[x] /\ nx[x] \notin R /\ \A z \in U : ch[z] # nx[x]
    BY <1>9, <1>22 DEF Upwards
  <2>2. x \in D => nx[x] # y
    BY <1>4
  <2>3. x \notin D => nx[x] # y
    BY <1>3, <1>13, <2>1
  <2>. QED  BY <2>1, <2>2, <2>3
<1>23. \A x \in V \intersect L : \E k \in 1..n : x = c[k]
  BY <1>5, <1>11, <1>12
<1>24. ASSUME NEW k \in 1..n
       PROVE  w[c[k + 1]] = NoNode /\ w[c[k]] = NoNode /\ \A z \in V : ch[z] # c[k + 1]
  <2>1. k + 1 \in 1..n \/ k + 1 = n + 1
    BY <1>1
  <2>2. w[c[k]] = NoNode
    BY <1>9, <1>10
  <2>3. CASE k + 1 \in 1..n
    BY <1>9, <1>10, <1>18, <2>2, <2>3
  <2>4. CASE k + 1 = n + 1
    BY <1>3, <1>9, <1>18, <2>2, <2>4
  <2>. QED  BY <2>1, <2>3, <2>4
<1>25. ASSUME NEW x \in V, nx[x] # NoNode
       PROVE  w[nx[x]] = w[x] /\ nx[x] # h /\ \A z \in V : ch[z] # nx[x]
  <2>1. CASE x \notin L
    <3>1. up[nx[x]] = up[x] /\ nx[x] \in U /\ x \in U
      BY <1>9, <1>18, <1>22, <1>25, <2>1
    <3>. QED  BY <1>9, <1>17, <1>22, <1>25, <2>1, <3>1
  <2>2. CASE x \in L
    BY <1>2, <1>15, <1>23, <1>24, <2>2
  <2>. QED  BY <2>1, <2>2
<1>26. ASSUME NEW x \in V, NEW z \in V, nx[x] = nx[z], nx[x] # NoNode, x \in L
       PROVE  x = z
  <2>1. PICK k \in 1..n : x = c[k] /\ nx[x] = c[k + 1]
    BY <1>2, <1>23, <1>26
  <2>2. k + 1 \in 1..n \/ k + 1 = n + 1
    BY <1>1
  <2>3. c[k + 1] = y \/ c[k + 1] \in R
    BY <1>10, <2>2
  <2>4. z \in L
    BY <1>22, <1>26, <2>1, <2>3
  <2>5. PICK j \in 1..n : z = c[j] /\ nx[z] = c[j + 1]
    BY <1>2, <1>23, <2>4
  <2>6. j + 1 \in 1..n \/ j + 1 = n + 1
    BY <1>1
  <2>7. c[j + 1] = c[k + 1]
    BY <1>26, <2>1, <2>5
  <2>8. j + 1 = k + 1
    BY <1>2, <1>3, <1>10, <1>11, <2>2, <2>6, <2>7
  <2>. QED  BY <2>1, <2>5, <2>8
<1>27. \A x, z \in V : nx[x] = nx[z] /\ nx[x] # NoNode => x = z
  <2>1. \A x, z \in U \ L : nx[x] = nx[z] /\ nx[x] # NoNode => x = z
    BY DEF Upwards
  <2>. QED  BY <1>9, <1>26, <2>1
<1>28. Upwards(nx, ch, {h} \ {NoNode}, {}, V, w)
  <2>1. \A r \in {h} \ {NoNode} : w[r] = NoNode
    BY <1>17
  <2>2. \A x \in V \ {} : nx[x] # NoNode =>
          w[nx[x]] = w[x] /\ nx[x] \notin {h} \ {NoNode} /\ \A z \in V : ch[z] # nx[x]
    BY <1>25
  <2>. QED  BY <1>20, <1>21, <1>27, <2>1, <2>2 DEF Upwards
<1>29. \A r \in V : p \notin Sub[r]
  BY <1>3, <1>4, <1>7, <1>9, <1>10
<1>30. \A x, r \in V : x \in Sub[r] <=> x = r \/ (w[x] # NoNode /\ w[x] \in Sub[r])
  BY <1>6, <1>9, <1>29
<1>31. ASSUME NEW x \in V, NEW z \in V, x # z, w[x] = w[z], x \in D, up[x] = p
       PROVE  Sub[x] \intersect Sub[z] = {}
  <2>1. CASE z \in D
    <3>1. up[z] = p
      BY <1>3, <1>4, <1>5, <1>9, <1>31, <2>1
    <3>. QED  BY <1>9, <1>31, <3>1 DEF Subtrees
  <2>2. CASE z \notin D
    <3>1. PICK k \in 1..n : z \in Sub[c[k]]
      BY <2>2
    <3>2. Sub[z] \subseteq Sub[c[k]] /\ Sub[x] \intersect Sub[c[k]] = {}
      BY <1>4, <1>7, <1>9, <1>10, <1>31, <3>1
    <3>. QED  BY <3>2
  <2>. QED  BY <2>1, <2>2
<1>32. ASSUME NEW x \in V, NEW z \in V, x # z, w[x] = w[z]
       PROVE  Sub[x] \intersect Sub[z] = {}
  <2>1. CASE up[x] = p
    BY <1>13, <1>31, <1>32, <2>1
  <2>2. CASE up[z] = p
    BY <1>13, <1>31, <1>32, <2>2
  <2>3. CASE up[x] # p /\ up[z] # p
    <3>1. up[x] = up[z]
      BY <1>9, <1>32, <2>3
    <3>. QED  BY <1>9, <1>32, <3>1 DEF Subtrees
  <2>. QED  BY <2>1, <2>2, <2>3
<1>33. Subtrees(V, w, Sub)
  BY <1>7, <1>9, <1>30, <1>32 DEF Subtrees
<1>. QED  BY <1>19, <1>28, <1>33

\* A list is cut.
LEMMA CutThread ==
  ASSUME NEW nx, NEW L, NEW h, NEW c, NEW n, RootList(nx, L, h, c, n), NEW k \in 1..n
  PROVE  RootList(nx, L, h, c, k - 1) /\ \A j \in 1..(k - 1) : c[j] # c[k]
<1>1. n \in Nat /\ k - 1 \in Nat /\ 1..(k - 1) \subseteq 1..n /\ \A j \in 1..(k - 1) : j # k
  BY DEF RootList
<1>. QED  BY <1>1 DEF RootList

\* Joining trees leaves the list alone as far as the loose one is not on it.
LEMMA ThreadJoined ==
  ASSUME NEW U, NEW nx, NEW L \in SUBSET U, NEW h, NEW c, NEW n, RootList(nx, L, h, c, n),
         NEW q, NEW i, i \notin L, \A k \in 1..n : c[k] # q, NEW pn, NEW cn, Pair(i, q, pn, cn),
         NEW ch, NEW f, NEW g, Relinked(nx, ch, U, i, pn, cn, f, g)
  PROVE  RootList(f, L \ {q}, h, c, n)
<1>. USE DEF Pair, Relinked
<1>1. \A k \in 1..n : c[k] \in L /\ c[k] # q /\ c[k] # i /\ c[k] \in U
  BY DEF RootList
<1>2. \A k \in 1..n : f[c[k]] = nx[c[k]]
  BY <1>1
<1>. QED  BY <1>1, <1>2 DEF RootList

\* A list that went astray goes on as before.
LEMMA AstrayJoined ==
  ASSUME NEW nx, NEW ch, NEW U, NEW up, NEW Sub, NEW c, NEW n, NEW p, NEW D,
         Astray(nx, ch, U, up, Sub, c, n, p, D), NoNode \notin U,
         NEW pn \in U, NEW cn \in U, up[pn] = NoNode, up[cn] = NoNode,
         \A k \in 1..n : c[k] \in U /\ c[k] # pn,
         NEW i, NEW f, NEW g, Relinked(nx, ch, U, i, pn, cn, f, g), NEW w, Altered(up, U, cn, pn, w),
         NEW v, NEW T, Altered(Sub, U, pn, v, T)
  PROVE  Astray(f, g, U, w, T, c, n, p, D)
<1>. USE DEF Relinked, Altered
<1>1. p \in U /\ D \subseteq U /\ c[n + 1] \in D /\ up[c[n + 1]] = p /\ \A k \in 1..n : p \notin Sub[c[k]]
  BY DEF Astray
<1>2. \A d \in D : /\ ch[d] \in D \union {NoNode} /\ nx[d] \in D \union {NoNode} /\ nx[d] # c[n + 1]
                   /\ up[d] = p \/ up[d] \in D
                   /\ p \notin Sub[d]
                   /\ \A k \in 1..n : Sub[d] \intersect Sub[c[k]] = {}
  BY DEF Astray
<1>3. \A d \in D : d # pn /\ d # cn
  BY <1>1, <1>2
<1>4. \A d \in D : f[d] = nx[d] /\ g[d] = ch[d] /\ w[d] = up[d] /\ T[d] = Sub[d]
  BY <1>1, <1>3
<1>5. \A k \in 1..n : T[c[k]] = Sub[c[k]]
  OBVIOUS
<1>6. \A k \in 1..n : p \notin T[c[k]]
  BY <1>1, <1>5
<1>7. \A d \in D : \A k \in 1..n : T[d] \intersect T[c[k]] = {}
  BY <1>2, <1>4, <1>5
<1>. QED  BY <1>1, <1>2, <1>4, <1>6, <1>7 DEF Astray

\* The list comes to the node that is made a child: it goes astray.
Under(U, Sub, pn, cn, D) == D = {x \in U \ {pn} : x \in Sub[pn] \/ x \in Sub[cn]}

LEMMA GoesAstray ==
  ASSUME NEW U, NEW R, NEW L, NEW nx, NEW ch, NEW up, NEW Sub,
         Linked(nx, ch, R, L, U), Upwards(nx, ch, R, L, U, up), Subtrees(U, up, Sub),
         NEW pn \in R, NEW cn \in R, pn # cn,
         NEW c, NEW n, c[n + 1] = cn, \A k \in 1..n : c[k] \in R /\ c[k] # pn /\ c[k] # cn,
         NEW i, NEW f, NEW g, Relinked(nx, ch, U, i, pn, cn, f, g), NEW w, Altered(up, U, cn, pn, w),
         NEW v, NEW T, Altered(Sub, U, pn, v, T),
         NEW D, Under(U, Sub, pn, cn, D)
  PROVE  Astray(f, g, U, w, T, c, n, pn, D)
<1>. USE DEF Under, Relinked, Altered
<1>1. R \subseteq U /\ NoNode \notin U /\ \A r \in R : up[r] = NoNode
  BY DEF Linked, Upwards
<1>2. \A x, r \in U : x \in Sub[r] <=> x = r \/ (up[x] # NoNode /\ up[x] \in Sub[r])
  BY DEF Subtrees
<1>3. \A x, r \in U : r \in Sub[x] => Sub[r] \subseteq Sub[x]
  BY DEF Subtrees
<1>4. pn \in U /\ cn \in U /\ cn \in D /\ up[pn] = NoNode /\ up[cn] = NoNode
  BY <1>1, <1>2
<1>5. ASSUME NEW y \in U, NEW x, x = pn \/ x \in D, up[y] = x
      PROVE  y \in D
  <2>1. x \in U /\ x # NoNode /\ (x \in Sub[pn] \/ x \in Sub[cn])
    BY <1>1, <1>2, <1>4, <1>5
  <2>. QED  BY <1>2, <1>4, <1>5, <2>1
<1>6. \A d \in D : d # cn => up[d] # NoNode /\ (up[d] = pn \/ up[d] \in D) /\ d \notin R
  <2>1. SUFFICES ASSUME NEW d \in D, d # cn
                 PROVE  up[d] # NoNode /\ (up[d] = pn \/ up[d] \in D) /\ d \notin R
    OBVIOUS
  <2>2. up[d] # NoNode /\ (up[d] \in Sub[pn] \/ up[d] \in Sub[cn])
    BY <1>2, <1>4, <2>1
  <2>3. up[d] \in U
    BY <2>1, <2>2 DEF Upwards
  <2>. QED  BY <1>1, <2>2, <2>3
<1>7. ASSUME NEW d \in D PROVE g[d] \in D \union {NoNode}
  <2>1. d \in U /\ d # pn
    OBVIOUS
  <2>2. ch[d] # NoNode => ch[d] \in U /\ up[ch[d]] = d
    BY <2>1 DEF Linked, Upwards
  <2>. QED  BY <1>5, <2>1, <2>2
<1>8. ASSUME NEW d \in D PROVE f[d] \in D \union {NoNode} /\ f[d] # cn
  <2>1. CASE d = cn
    <3>1. ch[pn] # NoNode => ch[pn] \in U /\ up[ch[pn]] = pn
      BY <1>4 DEF Linked, Upwards
    <3>. QED  BY <1>1, <1>4, <1>5, <2>1, <3>1
  <2>2. CASE d # cn
    <3>1. d \in U \ L /\ f[d] = nx[d]
      BY <1>6, <2>2 DEF Linked
    <3>2. nx[d] # NoNode => nx[d] \in U /\ up[nx[d]] = up[d] /\ nx[d] \notin R
      BY <3>1 DEF Linked, Upwards
    <3>. QED  BY <1>1, <1>4, <1>5, <1>6, <2>2, <3>1, <3>2
  <2>. QED  BY <2>1, <2>2
<1>9. \A d \in D : w[d] = pn \/ w[d] \in D
  BY <1>6
<1>10. \A d \in D : pn \notin T[d]
  BY <1>2, <1>4
<1>11. \A k \in 1..n : pn \notin T[c[k]] /\ T[c[k]] = Sub[c[k]] /\ c[k] \in U /\ up[c[k]] = NoNode
  BY <1>1, <1>2, <1>4
<1>12. ASSUME NEW d \in D, NEW k \in 1..n PROVE T[d] \intersect T[c[k]] = {}
  <2>1. \A r \in U : r # c[k] /\ up[r] = NoNode => Sub[r] \intersect Sub[c[k]] = {}
    BY <1>11 DEF Subtrees
  <2>2. T[d] = Sub[d] /\ (Sub[d] \subseteq Sub[pn] \/ Sub[d] \subseteq Sub[cn])
    BY <1>3, <1>4
  <2>. QED  BY <1>4, <1>11, <2>1, <2>2
<1>. QED  BY <1>4, <1>7, <1>8, <1>9, <1>10, <1>11, <1>12 DEF Astray

-----------------------------------------------------------------------------
(* Lists of roots.                                                         *)

\* The root h is put behind r, a loose node or the last of a list.
LEMMA Ended ==
  ASSUME NEW U, NEW R, NEW L, NEW nx, NEW ch, NEW up,
         Linked(nx, ch, R, L, U), Upwards(nx, ch, R, L, U, up),
         NEW r \in U, up[r] = NoNode, r \in L \/ nx[r] = NoNode,
         NEW h, h = NoNode \/ h \in R \ L,
         NEW f, f[r] = h, \A x \in U \ {r} : f[x] = nx[x]
  PROVE  /\ Linked(f, ch, R \ {h}, L \ {r}, U)
         /\ Upwards(f, ch, R \ {h}, L \ {r}, U, up)
<1>1. R \subseteq U /\ L \subseteq R /\ NoNode \notin U /\ \A x \in R : up[x] = NoNode
  BY DEF Linked, Upwards
<1>2. \A x \in U : /\ ch[x] # NoNode => up[ch[x]] = x
                   /\ ch[x] \in U \union {NoNode}
  BY DEF Linked, Upwards
<1>3. \A x \in U \ L : /\ nx[x] \in U \union {NoNode}
                       /\ nx[x] # NoNode =>
                            up[nx[x]] = up[x] /\ nx[x] \notin R /\ \A y \in U : ch[y] # nx[x]
  BY DEF Linked, Upwards
<1>4. \A x \in U \ (L \ {r}) : x # r => x \in U \ L /\ f[x] = nx[x]
  OBVIOUS
<1>5. Linked(f, ch, R \ {h}, L \ {r}, U)
  BY <1>1, <1>2, <1>3, <1>4 DEF Linked
<1>6. ASSUME NEW x \in U \ (L \ {r}), f[x] # NoNode
      PROVE  up[f[x]] = up[x] /\ f[x] \notin R \ {h} /\ \A y \in U : ch[y] # f[x]
  <2>1. CASE x = r
    BY <1>1, <1>2, <1>6, <2>1
  <2>2. CASE x # r
    BY <1>3, <1>4, <1>6, <2>2
  <2>. QED  BY <2>1, <2>2
<1>7. ASSUME NEW x \in U \ (L \ {r}), NEW y \in U \ (L \ {r}), f[x] = f[y], f[x] # NoNode
      PROVE  x = y
  <2>1. \A z, v \in U \ L : nx[z] = nx[v] /\ nx[z] # NoNode => z = v
    BY DEF Upwards
  <2>2. \A z \in U \ L : nx[z] # NoNode => nx[z] # h
    BY <1>3
  <2>. QED  BY <1>4, <1>7, <2>1, <2>2
<1>8. Upwards(f, ch, R \ {h}, L \ {r}, U, up)
  BY <1>6, <1>7 DEF Upwards
<1>. QED  BY <1>5, <1>8

LEMMA EndedCovers ==
  ASSUME NEW U, NEW R, NEW L, NEW nx, NEW ch, Covers(nx, ch, R, L, U), L \subseteq R, NoNode \notin R, NEW h,
         NEW r \in Node, r \in L \/ nx[r] = NoNode,
         NEW f, f[r] = h, \A x \in Node \ {r} : f[x] = nx[x],
         \A S \in SUBSET Node : Linked(f, ch, R \ {h}, L \ {r}, S) => r \in S
  PROVE  Covers(f, ch, R \ {h}, L \ {r}, U)
<1>. SUFFICES ASSUME NEW S \in SUBSET Node, Linked(f, ch, R \ {h}, L \ {r}, S)
              PROVE  U \subseteq S
  BY DEF Covers
<1>1. r \in S
  OBVIOUS
<1>2. \A x \in S : ch[x] \in S \union {NoNode} /\ (x \in L \ {r} \/ f[x] \in S \union {NoNode})
  BY DEF Linked
<1>3. h \in S \union {NoNode} /\ R \ {h} \subseteq S /\ NoNode \notin S
  BY <1>1, <1>2 DEF Linked
<1>4. R \subseteq S
  BY <1>3
<1>5. \A x \in S : x \in L \/ nx[x] \in S \union {NoNode}
  BY <1>2
<1>6. Linked(nx, ch, R, L, S)
  BY <1>2, <1>3, <1>4, <1>5 DEF Linked
<1>. QED  BY <1>6 DEF Covers

\* A loose node is put behind the root h.
LEMMA Behind ==
  ASSUME NEW U, NEW R, NEW L, NEW nx, NEW ch, NEW up,
         Linked(nx, ch, R, L, U), Upwards(nx, ch, R, L, U, up),
         NEW r \in L, NEW h \in R \ L,
         NEW f, f[r] = nx[h], f[h] = r, \A x \in U \ {r, h} : f[x] = nx[x]
  PROVE  /\ Linked(f, ch, R \ {r}, L \ {r}, U)
         /\ Upwards(f, ch, R \ {r}, L \ {r}, U, up)
<1>1. R \subseteq U /\ L \subseteq R /\ NoNode \notin U /\ \A x \in R : up[x] = NoNode
  BY DEF Linked, Upwards
<1>2. \A x \in U : /\ ch[x] # NoNode => up[ch[x]] = x
                   /\ ch[x] \in U \union {NoNode}
  BY DEF Linked, Upwards
<1>3. \A x \in U \ L : /\ nx[x] \in U \union {NoNode}
                       /\ nx[x] # NoNode =>
                            up[nx[x]] = up[x] /\ nx[x] \notin R /\ \A y \in U : ch[y] # nx[x]
  BY DEF Linked, Upwards
<1>4. \A x \in U \ (L \ {r}) : x # r /\ x # h => x \in U \ L /\ f[x] = nx[x]
  OBVIOUS
<1>5. h \in U \ L /\ r \in U /\ h # r
  BY <1>1
<1>6. Linked(f, ch, R \ {r}, L \ {r}, U)
  BY <1>1, <1>2, <1>3, <1>4, <1>5 DEF Linked
<1>7. ASSUME NEW x \in U \ (L \ {r}), f[x] # NoNode
      PROVE  up[f[x]] = up[x] /\ f[x] \notin R \ {r} /\ \A y \in U : ch[y] # f[x]
  <2>1. CASE x = r
    BY <1>1, <1>3, <1>5, <1>7, <2>1
  <2>2. CASE x = h
    BY <1>1, <1>2, <1>5, <1>7, <2>2
  <2>3. CASE x # r /\ x # h
    BY <1>3, <1>4, <1>7, <2>3
  <2>. QED  BY <2>1, <2>2, <2>3
<1>8. ASSUME NEW x \in U \ (L \ {r}), NEW y \in U \ (L \ {r}), f[x] = f[y], f[x] # NoNode
      PROVE  x = y
  <2>1. \A z, v \in U \ L : nx[z] = nx[v] /\ nx[z] # NoNode => z = v
    BY DEF Upwards
  <2>2. \A z \in U \ L : nx[z] # NoNode => nx[z] # r
    BY <1>1, <1>3
  <2>3. \A z \in U \ (L \ {r}) : z = r \/ z = h \/ (z \in U \ L /\ f[z] = nx[z])
    BY <1>4
  <2>4. CASE x = h \/ y = h
    BY <1>5, <1>8, <2>2, <2>3, <2>4
  <2>5. CASE x # h /\ y # h
    BY <1>5, <1>8, <2>1, <2>3, <2>5
  <2>. QED  BY <2>4, <2>5
<1>9. Upwards(f, ch, R \ {r}, L \ {r}, U, up)
  BY <1>7, <1>8 DEF Upwards
<1>. QED  BY <1>6, <1>9

LEMMA BehindCovers ==
  ASSUME NEW U, NEW R, NEW L, NEW nx, NEW ch, Covers(nx, ch, R, L, U), L \subseteq R,
         NoNode \notin R, NEW r \in L, NEW h \in R \ L,
         NEW f, f[r] = nx[h], f[h] = r, \A x \in Node \ {r, h} : f[x] = nx[x]
  PROVE  Covers(f, ch, R \ {r}, L \ {r}, U)
<1>. SUFFICES ASSUME NEW S \in SUBSET Node, Linked(f, ch, R \ {r}, L \ {r}, S)
              PROVE  U \subseteq S
  BY DEF Covers
<1>1. R \ {r} \subseteq S /\ NoNode \notin S /\ h \in S
  BY DEF Linked
<1>2. \A x \in S : ch[x] \in S \union {NoNode} /\ (x \in L \ {r} \/ f[x] \in S \union {NoNode})
  BY DEF Linked
<1>3. r \in S /\ R \subseteq S
  BY <1>1, <1>2
<1>4. \A x \in S : x \in L \/ nx[x] \in S \union {NoNode}
  BY <1>2, <1>3
<1>5. Linked(nx, ch, R, L, S)
  BY <1>1, <1>2, <1>3, <1>4 DEF Linked
<1>. QED  BY <1>5 DEF Covers

\* A root is made loose.
LEMMA Kept ==
  ASSUME NEW U, NEW R, NEW L, NEW nx, NEW ch, NEW up,
         Linked(nx, ch, R, L, U), Upwards(nx, ch, R, L, U, up), NEW i \in R \ L
  PROVE  /\ Linked(nx, ch, R \union ({nx[i]} \ {NoNode}), L \union {i}, U)
         /\ Upwards(nx, ch, R \union ({nx[i]} \ {NoNode}), L \union {i}, U, up)
<1>1. i \in U \ L /\ up[i] = NoNode
  BY DEF Linked, Upwards
<1>2. nx[i] # NoNode => nx[i] \in U /\ up[nx[i]] = NoNode /\ nx[i] \notin R
  BY <1>1 DEF Linked, Upwards
<1>3. \A x \in U \ (L \union {i}) : nx[x] # NoNode => nx[x] # nx[i]
  BY <1>1 DEF Upwards
<1>4. Linked(nx, ch, R \union ({nx[i]} \ {NoNode}), L \union {i}, U)
  BY <1>2 DEF Linked
<1>5. Upwards(nx, ch, R \union ({nx[i]} \ {NoNode}), L \union {i}, U, up)
  BY <1>2, <1>3 DEF Upwards
<1>. QED  BY <1>4, <1>5

LEMMA KeptCovers ==
  ASSUME NEW U, NEW R, NEW L, NEW nx, NEW ch, Covers(nx, ch, R, L, U), L \subseteq R,
         NEW i \in R \ L
  PROVE  Covers(nx, ch, R \union ({nx[i]} \ {NoNode}), L \union {i}, U)
<1>. SUFFICES ASSUME NEW S \in SUBSET Node,
                     Linked(nx, ch, R \union ({nx[i]} \ {NoNode}), L \union {i}, S)
              PROVE  Linked(nx, ch, R, L, S)
  BY DEF Covers
<1>. QED  BY DEF Linked

\* The head is taken off.
LEMMA Beheaded ==
  ASSUME NEW U, NEW nx, NEW ch, NEW up, NEW Sub, NEW h,
         Linked(nx, ch, {h}, {}, U), Upwards(nx, ch, {h}, {}, U, up), Subtrees(U, up, Sub),
         NEW w, \A x \in U : w[x] = IF up[x] = h THEN NoNode ELSE up[x]
  PROVE  /\ Linked(nx, ch, {nx[h], ch[h]} \ {NoNode}, {}, U \ {h})
         /\ Upwards(nx, ch, {nx[h], ch[h]} \ {NoNode}, {}, U \ {h}, w)
         /\ Subtrees(U \ {h}, w, Sub)
<1>1. h \in U /\ NoNode \notin U /\ up[h] = NoNode
  BY DEF Linked, Upwards
<1>2. \A x \in U : /\ ch[x] \in U \union {NoNode}
                   /\ ch[x] # NoNode => up[ch[x]] = x /\ ch[x] # h
  BY <1>1 DEF Linked, Upwards
<1>3. \A x \in U : /\ nx[x] \in U \union {NoNode}
                   /\ nx[x] # NoNode => up[nx[x]] = up[x] /\ nx[x] # h /\ \A y \in U : ch[y] # nx[x]
  BY DEF Linked, Upwards
<1>4. Linked(nx, ch, {nx[h], ch[h]} \ {NoNode}, {}, U \ {h})
  BY <1>1, <1>2, <1>3 DEF Linked
<1>5. \A x, y \in U : nx[x] = nx[y] /\ nx[x] # NoNode => x = y
  BY DEF Upwards
<1>6. Upwards(nx, ch, {nx[h], ch[h]} \ {NoNode}, {}, U \ {h}, w)
  <2>1. \A x \in U \ {h} : w[x] \in (U \ {h}) \union {NoNode}
    BY DEF Upwards
  <2>2. \A r \in {nx[h], ch[h]} \ {NoNode} : w[r] = NoNode
    BY <1>1, <1>2, <1>3
  <2>3. \A x \in U \ {h} : ch[x] # NoNode => w[ch[x]] = x
    BY <1>2
  <2>4. \A x \in U \ {h} : nx[x] # NoNode =>
          /\ w[nx[x]] = w[x] /\ nx[x] \notin {nx[h], ch[h]} \ {NoNode}
          /\ \A y \in U \ {h} : ch[y] # nx[x]
    BY <1>1, <1>3, <1>5
  <2>. QED  BY <1>5, <2>1, <2>2, <2>3, <2>4 DEF Upwards
<1>7. \A x, r \in U : x \in Sub[r] <=> x = r \/ (up[x] # NoNode /\ up[x] \in Sub[r])
  BY DEF Subtrees
<1>8. \A x, r \in U \ {h} : x \in Sub[r] <=> x = r \/ (w[x] # NoNode /\ w[x] \in Sub[r])
  BY <1>1, <1>7
<1>9. \A x, y \in U : y \in Sub[x] => Sub[y] \subseteq Sub[x]
  BY DEF Subtrees
<1>10. \A x, y \in U : x # y /\ up[x] = up[y] => Sub[x] \intersect Sub[y] = {}
  BY DEF Subtrees
<1>11. \A x \in U : up[x] = h => Sub[x] \subseteq Sub[h]
  BY <1>1, <1>7, <1>9
<1>12. ASSUME NEW x \in U \ {h}, NEW y \in U \ {h}, x # y, w[x] = w[y]
       PROVE  Sub[x] \intersect Sub[y] = {}
  <2>1. CASE up[x] = up[y]
    BY <1>10, <1>12, <2>1
  <2>2. CASE up[x] = h /\ up[y] = NoNode
    <3>1. Sub[h] \intersect Sub[y] = {}
      BY <1>1, <1>10, <2>2
    <3>. QED  BY <1>11, <2>2, <3>1
  <2>3. CASE up[y] = h /\ up[x] = NoNode
    <3>1. Sub[h] \intersect Sub[x] = {}
      BY <1>1, <1>10, <2>3
    <3>. QED  BY <1>11, <2>3, <3>1
  <2>. QED  BY <1>12, <2>1, <2>2, <2>3
<1>13. Subtrees(U \ {h}, w, Sub)
  BY <1>8, <1>9, <1>12 DEF Subtrees
<1>. QED  BY <1>4, <1>6, <1>13

LEMMA BeheadedCovers ==
  ASSUME NEW U, NEW nx, NEW ch, NEW h \in Node, NoNode \notin Node, Covers(nx, ch, {h}, {}, U)
  PROVE  Covers(nx, ch, {nx[h], ch[h]} \ {NoNode}, {}, U \ {h})
<1>. SUFFICES ASSUME NEW S \in SUBSET Node, Linked(nx, ch, {nx[h], ch[h]} \ {NoNode}, {}, S)
              PROVE  U \subseteq S \union {h}
  BY DEF Covers
<1>1. Linked(nx, ch, {h}, {}, S \union {h})
  BY DEF Linked
<1>. QED  BY <1>1 DEF Covers

\* A new node is a loose one.
Alone(nx, ch, U, Sub, n) ==
  n \notin U /\ n # NoNode /\ nx[n] = NoNode /\ ch[n] = NoNode /\ \A x \in U : n \notin Sub[x]

LEMMA Pushed ==
  ASSUME NEW U, NEW R, NEW nx, NEW ch, NEW up, NEW Sub,
         Linked(nx, ch, R, {}, U), Upwards(nx, ch, R, {}, U, up), Subtrees(U, up, Sub),
         NEW n, Alone(nx, ch, U, Sub, n),
         NEW w, Altered(up, U, n, NoNode, w), NEW T, Altered(Sub, U, n, {n}, T)
  PROVE  /\ Linked(nx, ch, R \union {n}, {n}, U \union {n})
         /\ Upwards(nx, ch, R \union {n}, {n}, U \union {n}, w)
         /\ Subtrees(U \union {n}, w, T)
<1>. USE DEF Alone, Altered
<1>1. \A x \in U : /\ ch[x] \in U \union {NoNode} /\ nx[x] \in U \union {NoNode}
                   /\ up[x] \in U \union {NoNode}
  BY DEF Linked, Upwards
<1>2. Linked(nx, ch, R \union {n}, {n}, U \union {n})
  BY DEF Linked
<1>3. Upwards(nx, ch, R \union {n}, {n}, U \union {n}, w)
  <2>1. (U \union {n}) \ {n} = U
    OBVIOUS
  <2>2. \A x \in U \union {n} : w[x] \in U \union {n} \union {NoNode}
    BY <1>1
  <2>3. \A r \in R \union {n} : w[r] = NoNode
    BY DEF Upwards, Linked
  <2>4. \A x \in U \union {n} : ch[x] # NoNode => w[ch[x]] = x
    BY <1>1 DEF Upwards
  <2>5. \A x \in U : nx[x] # NoNode =>
          w[nx[x]] = w[x] /\ nx[x] \notin R \union {n} /\ \A y \in U \union {n} : ch[y] # nx[x]
    <3>1. SUFFICES ASSUME NEW x \in U, nx[x] # NoNode
                   PROVE  w[nx[x]] = w[x] /\ nx[x] \notin R \union {n} /\ \A y \in U \union {n} : ch[y] # nx[x]
      OBVIOUS
    <3>2. up[nx[x]] = up[x] /\ nx[x] \notin R /\ nx[x] \in U /\ \A y \in U : ch[y] # nx[x]
      BY <1>1, <3>1 DEF Upwards
    <3>. QED  BY <3>1, <3>2
  <2>6. \A x, y \in U : nx[x] = nx[y] /\ nx[x] # NoNode => x = y
    BY DEF Upwards
  <2>. QED  BY <2>1, <2>2, <2>3, <2>4, <2>5, <2>6 DEF Upwards
<1>4. \A x, r \in U : x \in Sub[r] <=> x = r \/ (up[x] # NoNode /\ up[x] \in Sub[r])
  BY DEF Subtrees
<1>5. \A x, r \in U \union {n} : x \in T[r] <=> x = r \/ (w[x] # NoNode /\ w[x] \in T[r])
  BY <1>1, <1>4
<1>6. \A x, y \in U : y \in Sub[x] => Sub[y] \subseteq Sub[x]
  BY DEF Subtrees
<1>7. \A x, y \in U \union {n} : y \in T[x] => T[y] \subseteq T[x]
  BY <1>6
<1>8. \A x, y \in U : x # y /\ up[x] = up[y] => Sub[x] \intersect Sub[y] = {}
  BY DEF Subtrees
<1>9. \A x, y \in U \union {n} : x # y /\ w[x] = w[y] => T[x] \intersect T[y] = {}
  BY <1>8
<1>. QED  BY <1>2, <1>3, <1>5, <1>7, <1>9 DEF Subtrees

LEMMA PushedCovers ==
  ASSUME NEW U, NEW R, NEW nx, NEW ch, NEW n, nx[n] = NoNode, Covers(nx, ch, R, {}, U)
  PROVE  Covers(nx, ch, R \union {n}, {n}, U \union {n})
<1>. SUFFICES ASSUME NEW S \in SUBSET Node, Linked(nx, ch, R \union {n}, {n}, S)
              PROVE  U \union {n} \subseteq S
  BY DEF Covers
<1>1. n \in S /\ Linked(nx, ch, R, {}, S)
  BY DEF Linked
<1>. QED  BY <1>1 DEF Covers

-----------------------------------------------------------------------------
(* The inductive invariant.                                                *)

Links == [Node -> Node \union {NoNode}]
QueueTypes ==
  /\ head \in Node \union {NoNode} /\ next \in Links /\ children \in Links
  /\ degree \in [Node -> Degree]
  /\ pop \in [at : {"none", "last", "join", "put"}, i : Node \union {NoNode},
              map : [Degree -> Node \union {NoNode}], res : Node \union {NoNode}]
  /\ priority \in Seq(Priority) /\ Len(priority) <= MaxNodes
  /\ inside \subseteq 1..Len(priority) /\ popped \in Seq(1..Len(priority)) /\ failed \in BOOLEAN

\* Nodes not pushed yet have no links, and what was popped is gone.
Past ==
  /\ \A n \in Node : n > Len(priority) =>
       next[n] = NoNode /\ children[n] = NoNode /\ degree[n] = 0
  /\ \A k, l \in DOMAIN popped : popped[k] = popped[l] => k = l
  /\ \A k \in DOMAIN popped : popped[k] \notin inside
  /\ pop.at # "none" =>
       /\ pop.res \in 1..Len(priority) /\ pop.res \notin inside
       /\ \A k \in DOMAIN popped : popped[k] # pop.res

\* A loose root is in degree_map at its degree.
Mapped ==
  /\ pop.at = "none" => pop = NoPop
  /\ pop.at = "last" => pop.map = NoRoots
  /\ \A d \in Degree : pop.map[d] # NoNode => degree[pop.map[d]] = d
Loose == {pop.map[d] : d \in Degree} \ {NoNode}
Starts ==
  IF pop.at = "last" THEN {head, children[pop.res]}
  ELSE IF pop.at = "join" THEN {pop.i} ELSE {head}
Roots == (Starts \ {NoNode}) \union Loose

Trees(U, up, Sub) ==
  /\ U \subseteq inside
  /\ Linked(next, children, Roots, Loose, U) /\ Upwards(next, children, Roots, Loose, U, up)
  /\ Subtrees(U, up, Sub) /\ Sizes(degree, U, Sub, 1..Len(priority))

\* The nodes pop.i has been at, before the last child is found.
AtLast(U, up) ==
  pop.at = "last" =>
    /\ children[pop.res] # NoNode /\ head # children[pop.res]
    /\ pop.i \in U /\ up[pop.i] = NoNode
    /\ \A S \in SUBSET Node :
         children[pop.res] \in S /\ (\A x \in S : next[x] \in S \union {NoNode}) => pop.i \in S

\* The list from the head comes to pop.i, or goes astray.
Reaches(U, up, Sub, c, n) ==
  /\ RootList(next, Loose, head, c, n)
  /\ c[n + 1] = pop.i \/ \E p, D : Astray(next, children, U, up, Sub, c, n, p, D)
AtJoin(U, up, Sub) ==
  pop.at = "join" => pop.i \notin Loose /\ \E c, n : Reaches(U, up, Sub, c, n)

AtPut == pop.at = "put" => head \notin Loose /\ (Loose # {} => head # NoNode)

\* As long as nothing was thrown.
Lowest(U, up) == \A x \in U \ Loose : up[x] = NoNode => head # NoNode /\ ~Lt(x, head)
Whole(U, up) ==
  ~failed =>
    /\ inside \subseteq U /\ Covers(next, children, Roots, Loose, U) /\ Ordered(U, up)
    /\ pop.at \in {"none", "put"} => Lowest(U, up)

Grown(U, up, Sub) ==
  Trees(U, up, Sub) /\ AtLast(U, up) /\ AtJoin(U, up, Sub) /\ AtPut /\ Whole(U, up)
QueueInv == QueueTypes /\ Past /\ Mapped /\ \E U, up, Sub : Grown(U, up, Sub)

LEMMA Nodes == ASSUME PriorityQueueAssumption PROVE NoNode \notin Node /\ Node \subseteq Nat
BY DEF PriorityQueueAssumption, NoNode, Node

\* One root less in degree_map.
LEMMA LooseBut ==
  ASSUME QueueTypes, Mapped, NEW d \in Degree, pop.map[d] # NoNode,
         NEW m, m = [pop.map EXCEPT ![d] = NoNode]
  PROVE  {m[e] : e \in Degree} \ {NoNode} = Loose \ {pop.map[d]}
<1>1. pop.map \in [Degree -> Node \union {NoNode}]
  BY DEF QueueTypes
<1>2. m[d] = NoNode /\ \A e \in Degree \ {d} : m[e] = pop.map[e]
  BY <1>1
<1>3. \A e \in Degree : pop.map[e] = pop.map[d] => e = d
  BY DEF Mapped
<1>. QED  BY <1>2, <1>3 DEF Loose

LEMMA PushedNodes ==
  ASSUME PriorityQueueAssumption, QueueTypes
  PROVE  Len(priority) \in Nat /\ MaxNodes \in Nat /\ 1..Len(priority) \subseteq Node
<1>1. Len(priority) \in Nat /\ MaxNodes \in Nat /\ Len(priority) <= MaxNodes
  BY DEF QueueTypes, PriorityQueueAssumption
<1>. QED  BY <1>1 DEF Node

LEMMA GrownNodes ==
  ASSUME PriorityQueueAssumption, QueueTypes, NEW U, NEW up, NEW Sub, Grown(U, up, Sub)
  PROVE  U \subseteq Node /\ U \subseteq 1..Len(priority)
<1>1. U \subseteq inside /\ inside \subseteq 1..Len(priority)
  BY DEF Grown, Trees, QueueTypes
<1>. QED  BY <1>1, PushedNodes

LEMMA NoLoose == ASSUME pop.map = NoRoots PROVE Loose = {}
BY DEF Loose, NoRoots

LEMMA QueueInvInit == ASSUME PriorityQueueAssumption, QueueInit PROVE QueueInv
<1>1. 0 \in Degree /\ MaxNodes \in Nat
  BY DEF PriorityQueueAssumption, Degree
<1>2. QueueTypes
  <2>1. NoRoots \in [Degree -> Node \union {NoNode}]
    BY DEF NoRoots
  <2>2. Len(priority) = 0 /\ priority \in Seq(Priority)
    BY DEF QueueInit
  <2>3. popped \in Seq(1..Len(priority))
    BY DEF QueueInit
  <2>. QED  BY <1>1, <2>1, <2>2, <2>3 DEF QueueInit, QueueTypes, Links, NoPop
<1>3. Past /\ Mapped
  <2>1. Past
    BY DEF QueueInit, Past, NoPop
  <2>. QED  BY <2>1 DEF QueueInit, Mapped, NoPop, NoRoots
<1>4. Loose = {} /\ Roots = {} /\ pop.at = "none"
  BY NoLoose DEF QueueInit, Roots, Starts, NoPop
<1>5. Grown({}, <<>>, <<>>)
  <2>1. Trees({}, <<>>, <<>>)
    BY <1>4 DEF Trees, Linked, Upwards, Subtrees, Sizes
  <2>2. Whole({}, <<>>)
    BY <1>4 DEF QueueInit, Whole, Covers, Ordered, Lowest
  <2>. QED  BY <1>4, <2>1, <2>2 DEF Grown, AtLast, AtJoin, AtPut
<1>. QED  BY <1>2, <1>3, <1>5 DEF QueueInv

-----------------------------------------------------------------------------
(* The steps preserve the invariant.                                       *)

LEMMA BeheadStep == ASSUME PriorityQueueAssumption, QueueInv, Behead PROVE QueueInv'
<1>1. pop = NoPop /\ pop.at = "none" /\ pop.map = NoRoots
  BY DEF Behead, NoPop
<1>2. head \in Node /\ head # NoNode /\ NoNode \notin Node /\ next \in Links /\ children \in Links
  BY Nodes DEF QueueInv, QueueTypes, Behead
<1>3. head' = next[head] /\ inside' = inside \ {head}
  BY DEF Behead
<1>4. next' = next /\ children' = children /\ degree' = degree
      /\ priority' = priority /\ popped' = popped /\ failed' = failed
  BY DEF Behead, links
<1>5. \/ /\ children[head] = NoNode /\ pop'.at = "join" /\ pop'.i = next[head]
      \/ /\ children[head] # NoNode /\ pop'.at = "last" /\ pop'.i = children[head]
  BY DEF Behead, NoPop
<1>6. pop'.map = NoRoots /\ pop'.res = head
  BY DEF Behead, NoPop
<1>7. next[head] \in Node \union {NoNode} /\ children[head] \in Node \union {NoNode}
  BY <1>2 DEF Links
<1>8. PICK U, up, Sub : Grown(U, up, Sub)
  BY DEF QueueInv
<1>9. Loose = {} /\ Roots = {head}
  BY <1>1, <1>2, NoLoose DEF Roots, Starts
<1>10. Loose' = {}
  BY <1>6 DEF Loose, NoRoots
<1>11. Roots' = {next[head], children[head]} \ {NoNode}
  BY <1>3, <1>4, <1>5, <1>6, <1>10 DEF Roots, Starts
<1>12. /\ U \subseteq inside
       /\ Linked(next, children, {head}, {}, U) /\ Upwards(next, children, {head}, {}, U, up)
       /\ Subtrees(U, up, Sub) /\ Sizes(degree, U, Sub, 1..Len(priority))
  BY <1>8, <1>9 DEF Grown, Trees
<1>13. head \in U /\ up[head] = NoNode
  BY <1>12 DEF Linked, Upwards
<1>14. PICK V : V = U \ {head}
  OBVIOUS
<1>15. PICK w : \A x \in U : w[x] = IF up[x] = head THEN NoNode ELSE up[x]
  <2>. DEFINE u == [x \in U |-> IF up[x] = head THEN NoNode ELSE up[x]]
  <2>1. \A x \in U : u[x] = IF up[x] = head THEN NoNode ELSE up[x]
    OBVIOUS
  <2>. HIDE DEF u
  <2>. QED  BY <2>1
<1>16. /\ Linked(next, children, Roots', {}, V)
       /\ Upwards(next, children, Roots', {}, V, w)
       /\ Subtrees(V, w, Sub)
  <2>1. /\ Linked(next, children, {head}, {}, U) /\ Upwards(next, children, {head}, {}, U, up)
        /\ Subtrees(U, up, Sub)
    BY <1>12
  <2>2. /\ Linked(next, children, {next[head], children[head]} \ {NoNode}, {}, U \ {head})
        /\ Upwards(next, children, {next[head], children[head]} \ {NoNode}, {}, U \ {head}, w)
        /\ Subtrees(U \ {head}, w, Sub)
    BY <1>15, <2>1, Beheaded
  <2>. QED  BY <1>11, <1>14, <2>2
<1>17. Trees(V, w, Sub)'
  <2>1. Sizes(degree, V, Sub, 1..Len(priority))
    BY <1>12, <1>14 DEF Sizes
  <2>2. V \subseteq inside'
    BY <1>3, <1>12, <1>14
  <2>. QED  BY <1>4, <1>10, <1>16, <2>1, <2>2 DEF Trees
<1>18. AtLast(V, w)'
  <2>1. SUFFICES ASSUME children[head] # NoNode, pop'.i = children[head]
                 PROVE  /\ next[head] # children[head]
                        /\ children[head] \in V /\ w[children[head]] = NoNode
    BY <1>3, <1>4, <1>5, <1>6 DEF AtLast
  <2>2. children[head] \in U /\ up[children[head]] = head
    BY <1>12, <1>13, <2>1 DEF Linked, Upwards
  <2>3. next[head] # children[head]
    BY <1>12, <1>13, <2>1 DEF Upwards
  <2>. QED  BY <1>2, <1>13, <1>15, <1>14, <2>2, <2>3
<1>19. AtJoin(V, w, Sub)'
  <2>1. SUFFICES ASSUME pop'.at = "join"
                 PROVE  \E c, n : Reaches(V, w, Sub, c, n)'
    BY <1>10 DEF AtJoin
  <2>4. PICK c : c[1] = head'
    <3>1. [k \in {1} |-> head'][1] = head'
      OBVIOUS
    <3>. QED  BY <3>1
  <2>2. pop'.i = head' /\ c[1] = head' /\ 0 \in Nat /\ 1..0 = {} /\ 0 + 1 = 1
    BY <1>3, <1>5, <2>1, <2>4
  <2>3. Reaches(V, w, Sub, c, 0)'
    BY <2>2 DEF Reaches, RootList
  <2>. QED  BY <2>3
<1>20. AtPut'
  BY <1>5 DEF AtPut
<1>21. Whole(V, w)'
  <2>1. SUFFICES ASSUME ~failed
                 PROVE  /\ inside' \subseteq V
                        /\ Covers(next, children, Roots', {}, V)
                        /\ Ordered(V, w)'
    BY <1>4, <1>5, <1>10 DEF Whole
  <2>2. inside \subseteq U /\ Covers(next, children, {head}, {}, U) /\ Ordered(U, up)
    BY <1>8, <1>9, <2>1 DEF Grown, Whole
  <2>3. Covers(next, children, Roots', {}, V)
    BY <1>2, <1>11, <1>14, <2>2, BeheadedCovers
  <2>4. Ordered(V, w)'
    BY <1>4, <1>15, <1>14, <2>2 DEF Ordered, Lt
  <2>. QED  BY <1>3, <1>14, <2>2, <2>3, <2>4
<1>22. Grown(V, w, Sub)'
  BY <1>17, <1>18, <1>19, <1>20, <1>21 DEF Grown
<1>23. QueueTypes'
  <2>1. pop' \in [at : {"none", "last", "join", "put"}, i : Node \union {NoNode},
                  map : [Degree -> Node \union {NoNode}], res : Node \union {NoNode}]
    BY <1>2, <1>7 DEF Behead, NoPop, NoRoots
  <2>. QED  BY <1>3, <1>4, <1>7, <2>1 DEF QueueInv, QueueTypes
<1>24. Past'
  <2>1. head \in inside /\ head \in 1..Len(priority)
    BY <1>12, <1>13 DEF QueueInv, QueueTypes
  <2>2. \A k \in DOMAIN popped : popped[k] # head
    BY <2>1 DEF QueueInv, Past
  <2>. QED  BY <1>3, <1>4, <1>6, <2>1, <2>2 DEF QueueInv, Past
<1>25. Mapped'
  BY <1>5, <1>6 DEF Mapped, NoRoots
<1>. QED  BY <1>22, <1>23, <1>24, <1>25 DEF QueueInv

LEMMA NextChildStep == ASSUME PriorityQueueAssumption, QueueInv, NextChild PROVE QueueInv'
<1>1. pop.at = "last" /\ next[pop.i] # NoNode
  BY DEF NextChild
<1>2. pop'.at = pop.at /\ pop'.map = pop.map /\ pop'.res = pop.res /\ pop'.i = next[pop.i]
  BY DEF NextChild, QueueInv, QueueTypes
<1>3. /\ head' = head /\ next' = next /\ children' = children /\ degree' = degree
      /\ priority' = priority /\ inside' = inside /\ popped' = popped /\ failed' = failed
  BY DEF NextChild, links, history
<1>4. PICK U, up, Sub : Grown(U, up, Sub)
  BY DEF QueueInv
<1>5. Loose = {} /\ Loose' = Loose /\ Roots' = Roots
  BY <1>1, <1>2, <1>3, NoLoose DEF QueueInv, Mapped, Roots, Starts, Loose
<1>6. pop.i \in U /\ up[pop.i] = NoNode
  BY <1>1, <1>4 DEF Grown, AtLast
<1>7. next[pop.i] \in U /\ up[next[pop.i]] = NoNode
  <2>1. Linked(next, children, Roots, {}, U) /\ Upwards(next, children, Roots, {}, U, up)
    BY <1>4, <1>5 DEF Grown, Trees
  <2>. QED  BY <1>1, <1>6, <2>1 DEF Linked, Upwards
<1>8. Trees(U, up, Sub)'
  BY <1>3, <1>4, <1>5 DEF Grown, Trees
<1>9. AtLast(U, up)'
  BY <1>1, <1>2, <1>3, <1>4, <1>7 DEF Grown, AtLast
<1>10. AtJoin(U, up, Sub)' /\ AtPut'
  BY <1>1, <1>2 DEF AtJoin, AtPut
<1>11. Whole(U, up)'
  BY <1>1, <1>2, <1>3, <1>4, <1>5 DEF Grown, Whole, Ordered, Lt
<1>12. Grown(U, up, Sub)'
  BY <1>8, <1>9, <1>10, <1>11 DEF Grown
<1>13. QueueTypes'
  <2>1. U \subseteq Node
    BY <1>4, GrownNodes DEF QueueInv
  <2>2. next[pop.i] \in Node
    BY <1>7, <2>1
  <2>3. pop' \in [at : {"none", "last", "join", "put"}, i : Node \union {NoNode},
                  map : [Degree -> Node \union {NoNode}], res : Node \union {NoNode}]
    BY <2>2 DEF NextChild, QueueInv, QueueTypes
  <2>. QED  BY <1>3, <2>3 DEF QueueInv, QueueTypes
<1>14. Past' /\ Mapped'
  BY <1>1, <1>2, <1>3 DEF QueueInv, Past, Mapped
<1>. QED  BY <1>12, <1>13, <1>14 DEF QueueInv

LEMMA LinkChildrenStep == ASSUME PriorityQueueAssumption, QueueInv, LinkChildren PROVE QueueInv'
<1>1. pop.at = "last" /\ next[pop.i] = NoNode
  BY DEF LinkChildren
<1>2. pop'.at = "join" /\ pop'.map = pop.map /\ pop'.res = pop.res /\ pop'.i = children[pop.res]
  BY DEF LinkChildren, QueueInv, QueueTypes
<1>3. /\ children' = children /\ degree' = degree
      /\ priority' = priority /\ inside' = inside /\ popped' = popped /\ failed' = failed
  BY DEF LinkChildren, history
<1>4. head' = children[pop.res] /\ next' = [next EXCEPT ![pop.i] = head]
  BY DEF LinkChildren
<1>5. /\ next \in Links /\ children \in Links /\ head \in Node \union {NoNode}
      /\ pop.res \in Node /\ NoNode \notin Node
  BY <1>1, Nodes, PushedNodes DEF QueueInv, QueueTypes, Past
<1>6. PICK U, up, Sub : Grown(U, up, Sub)
  BY DEF QueueInv
<1>7. Loose = {} /\ Loose' = {}
  BY <1>1, <1>2, <1>3, NoLoose DEF QueueInv, Mapped, Loose
<1>8. /\ children[pop.res] # NoNode /\ head # children[pop.res]
      /\ pop.i \in U /\ up[pop.i] = NoNode
      /\ \A S \in SUBSET Node :
           children[pop.res] \in S /\ (\A x \in S : next[x] \in S \union {NoNode}) => pop.i \in S
  BY <1>1, <1>6 DEF Grown, AtLast
<1>9. U \subseteq Node
  BY <1>6, GrownNodes DEF QueueInv
<1>10. PICK R : R = Roots
  OBVIOUS
<1>11. R = {head, children[pop.res]} \ {NoNode} /\ NoNode \notin R
  BY <1>1, <1>7, <1>10 DEF Roots, Starts
<1>12. Roots' = R \ {head} /\ {} = {} \ {pop.i} /\ head' \in R
  BY <1>2, <1>3, <1>4, <1>7, <1>8, <1>11 DEF Roots, Starts
<1>13. next'[pop.i] = head /\ \A x \in Node \ {pop.i} : next'[x] = next[x]
  BY <1>4, <1>5, <1>8, <1>9 DEF Links
<1>14. /\ Linked(next, children, R, {}, U) /\ Upwards(next, children, R, {}, U, up)
       /\ Subtrees(U, up, Sub) /\ Sizes(degree, U, Sub, 1..Len(priority)) /\ U \subseteq inside
  BY <1>6, <1>7, <1>10 DEF Grown, Trees
<1>15. Linked(next', children, Roots', {}, U) /\ Upwards(next', children, Roots', {}, U, up)
  <2>1. head = NoNode \/ head \in R \ {}
    BY <1>11
  <2>2. \A x \in U \ {pop.i} : next'[x] = next[x]
    BY <1>9, <1>13
  <2>3. /\ Linked(next', children, R \ {head}, {} \ {pop.i}, U)
        /\ Upwards(next', children, R \ {head}, {} \ {pop.i}, U, up)
    <3>1. PICK L : L = {}
      OBVIOUS
    <3>2. Linked(next, children, R, L, U) /\ Upwards(next, children, R, L, U, up)
      BY <1>14, <3>1
    <3>3. head = NoNode \/ head \in R \ L
      BY <2>1, <3>1
    <3>4. /\ Linked(next', children, R \ {head}, L \ {pop.i}, U)
          /\ Upwards(next', children, R \ {head}, L \ {pop.i}, U, up)
      BY <1>1, <1>8, <1>13, <2>2, <3>2, <3>3, Ended
    <3>. QED  BY <3>1, <3>4
  <2>. QED  BY <1>12, <2>3
<1>16. Trees(U, up, Sub)'
  BY <1>3, <1>7, <1>14, <1>15 DEF Trees
<1>17. AtLast(U, up)' /\ AtPut'
  BY <1>2 DEF AtLast, AtPut
<1>18. AtJoin(U, up, Sub)'
  <2>1. PICK c : c[1] = head'
    <3>1. [k \in {1} |-> head'][1] = head'
      OBVIOUS
    <3>. QED  BY <3>1
  <2>2. pop'.i = head' /\ 0 \in Nat /\ 1..0 = {} /\ 0 + 1 = 1
    BY <1>2, <1>4
  <2>3. Reaches(U, up, Sub, c, 0)'
    BY <2>1, <2>2 DEF Reaches, RootList
  <2>. QED  BY <1>7, <2>3 DEF AtJoin
<1>19. Whole(U, up)'
  <2>1. SUFFICES ASSUME ~failed
                 PROVE  /\ inside \subseteq U
                        /\ Covers(next', children, Roots', {}, U)
                        /\ Ordered(U, up)'
    BY <1>2, <1>3, <1>7 DEF Whole
  <2>2. inside \subseteq U /\ Covers(next, children, R, {}, U) /\ Ordered(U, up)
    BY <1>6, <1>7, <1>10, <2>1 DEF Grown, Whole
  <2>3. ASSUME NEW S \in SUBSET Node, Linked(next', children, R \ {head}, {} \ {pop.i}, S)
        PROVE  pop.i \in S
    <3>1. SUFFICES ASSUME pop.i \notin S PROVE FALSE
      OBVIOUS
    <3>2. children[pop.res] \in S
      BY <1>8, <1>11, <2>3 DEF Linked
    <3>3. \A x \in S : next[x] \in S \union {NoNode}
      BY <1>13, <2>3, <3>1 DEF Linked
    <3>. QED  BY <1>8, <3>1, <3>2, <3>3
  <2>4. Covers(next', children, R \ {head}, {} \ {pop.i}, U)
    <3>1. PICK L : L = {}
      OBVIOUS
    <3>2. pop.i \in Node /\ L \subseteq R /\ Covers(next, children, R, L, U)
      BY <1>8, <1>9, <2>2, <3>1
    <3>3. \A S \in SUBSET Node : Linked(next', children, R \ {head}, L \ {pop.i}, S) => pop.i \in S
      BY <2>3, <3>1
    <3>4. Covers(next', children, R \ {head}, L \ {pop.i}, U)
      BY <1>1, <1>11, <1>13, <3>2, <3>3, EndedCovers
    <3>. QED  BY <3>1, <3>4
  <2>5. Covers(next', children, Roots', {}, U)
    BY <1>12, <2>4
  <2>6. Ordered(U, up)'
    BY <1>3, <2>2 DEF Ordered, Lt
  <2>. QED  BY <2>2, <2>5, <2>6
<1>20. Grown(U, up, Sub)'
  BY <1>16, <1>17, <1>18, <1>19 DEF Grown
<1>21. QueueTypes'
  <2>1. next' \in Links /\ children[pop.res] \in Node \union {NoNode}
    BY <1>4, <1>5 DEF Links
  <2>2. pop' \in [at : {"none", "last", "join", "put"}, i : Node \union {NoNode},
                  map : [Degree -> Node \union {NoNode}], res : Node \union {NoNode}]
    BY <2>1 DEF LinkChildren, QueueInv, QueueTypes
  <2>. QED  BY <1>3, <1>4, <2>1, <2>2 DEF QueueInv, QueueTypes
<1>22. Past'
  <2>1. pop.i \in 1..Len(priority) /\ Len(priority) \in Nat
    BY <1>6, <1>8, GrownNodes, PushedNodes DEF QueueInv
  <2>2. \A n \in Node : n > Len(priority) => next'[n] = NoNode
    BY <1>13, <2>1, Nodes DEF QueueInv, Past
  <2>. QED  BY <1>1, <1>2, <1>3, <2>2 DEF QueueInv, Past
<1>23. Mapped'
  BY <1>1, <1>2, <1>3 DEF QueueInv, Mapped
<1>. QED  BY <1>20, <1>21, <1>22, <1>23 DEF QueueInv

LEMMA KeepRootStep == ASSUME PriorityQueueAssumption, QueueInv, KeepRoot PROVE QueueInv'
<1>1. pop.at = "join" /\ pop.i # NoNode /\ pop.map[degree[pop.i]] = NoNode
  BY DEF KeepRoot
<1>2. PICK i : i = pop.i
  OBVIOUS
<1>3. i \in Node /\ degree[i] \in Degree /\ next[i] \in Node \union {NoNode}
  BY <1>1, <1>2, Nodes DEF QueueInv, QueueTypes, Links
<1>4. PICK d : d = degree[i] /\ d \in Degree
  BY <1>3
<1>5. /\ pop'.at = "join" /\ pop'.map = [pop.map EXCEPT ![d] = i] /\ pop'.res = pop.res
      /\ pop'.i = next[i]
  BY <1>1, <1>2, <1>4 DEF KeepRoot, QueueInv, QueueTypes
<1>6. /\ head' = head /\ next' = next /\ children' = children /\ degree' = degree
      /\ priority' = priority /\ inside' = inside /\ popped' = popped /\ failed' = failed
  BY DEF KeepRoot, links, history
<1>7. PICK U, up, Sub : Grown(U, up, Sub)
  BY DEF QueueInv
<1>8. PICK R, L : R = Roots /\ L = Loose
  OBVIOUS
<1>9. i \in R \ L /\ R = L \union {i} /\ NoNode \notin R /\ L \subseteq R
  BY <1>1, <1>2, <1>7, <1>8 DEF Grown, AtJoin, Roots, Starts, Loose
<1>10. Loose' = L \union {i}
  <2>1. pop.map \in [Degree -> Node \union {NoNode}]
    BY DEF QueueInv, QueueTypes
  <2>2. pop'.map[d] = i /\ \A e \in Degree \ {d} : pop'.map[e] = pop.map[e]
    BY <1>4, <1>5, <2>1
  <2>. QED  BY <1>1, <1>2, <1>4, <1>8, <2>2 DEF Loose
<1>11. Roots' = R \union ({next[i]} \ {NoNode})
  BY <1>5, <1>6, <1>9, <1>10 DEF Roots, Starts
<1>12. Linked(next, children, R, L, U) /\ Upwards(next, children, R, L, U, up)
  BY <1>7, <1>8 DEF Grown, Trees
<1>13. Trees(U, up, Sub)'
  <2>1. /\ Linked(next, children, Roots', Loose', U)
        /\ Upwards(next, children, Roots', Loose', U, up)
    BY <1>9, <1>10, <1>11, <1>12, Kept
  <2>. QED  BY <1>6, <1>7, <2>1 DEF Grown, Trees
<1>14. AtLast(U, up)' /\ AtPut'
  BY <1>5 DEF AtLast, AtPut
<1>15. next[i] \notin L \union {i}
  <2>1. i \in U \ L
    BY <1>9, <1>12 DEF Linked
  <2>. QED  BY <1>9, <1>12, <2>1 DEF Upwards
<1>16. PICK c, n : Reaches(U, up, Sub, c, n)
  BY <1>1, <1>7 DEF Grown, AtJoin
<1>17. RootList(next, L, head, c, n) /\ n \in Nat
  BY <1>8, <1>16 DEF Reaches, RootList
<1>18. \E b, m : Reaches(U, up, Sub, b, m)'
  <2>1. CASE c[n + 1] = i
    <3>1. PICK b : b[n + 2] = next[i] /\ \A k \in 1..(n + 1) : b[k] = c[k]
      <4>. DEFINE a == [k \in 1..(n + 2) |-> IF k = n + 2 THEN next[i] ELSE c[k]]
      <4>1. a[n + 2] = next[i] /\ \A k \in 1..(n + 1) : a[k] = c[k]
        BY <1>17
      <4>. HIDE DEF a
      <4>. QED  BY <4>1
    <3>2. \A k \in 1..n : c[k] \in L /\ c[k + 1] = next[c[k]] /\ \A j \in 1..n : c[j] = c[k] => j = k
      BY <1>17 DEF RootList
    <3>3. \A k \in 1..(n + 1) : k = n + 1 \/ k \in 1..n
      BY <1>17
    <3>4. \A k \in 1..n : k \in 1..(n + 1) /\ k + 1 \in 1..(n + 1)
      BY <1>17
    <3>5. n + 1 \in 1..(n + 1) /\ 1 \in 1..(n + 1) /\ n + 1 + 1 = n + 2 /\ n + 1 \in Nat
      BY <1>17
    <3>6. b[1] = head
      BY <1>17, <3>1, <3>5 DEF RootList
    <3>7. \A k \in 1..(n + 1) : b[k] \in L \union {i}
      BY <2>1, <3>1, <3>2, <3>3
    <3>8. \A k \in 1..(n + 1) : b[k + 1] = next[b[k]]
      <4>1. SUFFICES ASSUME NEW k \in 1..(n + 1) PROVE b[k + 1] = next[b[k]]
        OBVIOUS
      <4>2. CASE k \in 1..n
        BY <3>1, <3>2, <3>4, <4>2
      <4>3. CASE k = n + 1
        BY <2>1, <3>1, <3>5, <4>3
      <4>. QED  BY <3>3, <4>2, <4>3
    <3>9. \A k, j \in 1..(n + 1) : b[j] = b[k] => j = k
      <4>1. SUFFICES ASSUME NEW k \in 1..(n + 1), NEW j \in 1..(n + 1), c[j] = c[k]
                     PROVE  j = k
        BY <3>1
      <4>2. \A l \in 1..n : c[l] # i
        BY <1>9, <3>2
      <4>. QED  BY <2>1, <3>2, <3>3, <4>1, <4>2
    <3>10. RootList(next, L \union {i}, head, b, n + 1)
      BY <3>5, <3>6, <3>7, <3>8, <3>9 DEF RootList
    <3>11. Reaches(U, up, Sub, b, n + 1)'
      BY <1>5, <1>6, <1>10, <3>1, <3>5, <3>10 DEF Reaches
    <3>. QED  BY <3>11
  <2>2. CASE \E p, D : Astray(next, children, U, up, Sub, c, n, p, D)
    <3>1. RootList(next, L \union {i}, head, c, n)
      BY <1>17 DEF RootList
    <3>2. Reaches(U, up, Sub, c, n)'
      BY <1>6, <1>10, <2>2, <3>1 DEF Reaches
    <3>. QED  BY <3>2
  <2>. QED  BY <1>2, <1>16, <2>1, <2>2 DEF Reaches
<1>19. AtJoin(U, up, Sub)'
  BY <1>5, <1>10, <1>15, <1>18 DEF AtJoin
<1>20. Whole(U, up)'
  <2>1. SUFFICES ASSUME ~failed
                 PROVE  /\ inside \subseteq U
                        /\ Covers(next, children, Roots', Loose', U)
                        /\ Ordered(U, up)'
    BY <1>5, <1>6 DEF Whole
  <2>2. inside \subseteq U /\ Covers(next, children, R, L, U) /\ Ordered(U, up)
    BY <1>7, <1>8, <2>1 DEF Grown, Whole
  <2>3. Covers(next, children, Roots', Loose', U)
    BY <1>9, <1>10, <1>11, <2>2, KeptCovers
  <2>4. Ordered(U, up)'
    BY <1>6, <2>2 DEF Ordered, Lt
  <2>. QED  BY <2>2, <2>3, <2>4
<1>21. Grown(U, up, Sub)'
  BY <1>13, <1>14, <1>19, <1>20 DEF Grown
<1>22. QueueTypes'
  <2>1. pop' \in [at : {"none", "last", "join", "put"}, i : Node \union {NoNode},
                  map : [Degree -> Node \union {NoNode}], res : Node \union {NoNode}]
    BY <1>2, <1>3, <1>4 DEF KeepRoot, QueueInv, QueueTypes
  <2>. QED  BY <1>6, <2>1 DEF QueueInv, QueueTypes
<1>23. Past'
  BY <1>1, <1>5, <1>6 DEF QueueInv, Past
<1>24. Mapped'
  <2>1. pop.map \in [Degree -> Node \union {NoNode}]
    BY DEF QueueInv, QueueTypes
  <2>2. pop'.map[d] = i /\ \A e \in Degree \ {d} : pop'.map[e] = pop.map[e]
    BY <1>4, <1>5, <2>1
  <2>. QED  BY <1>4, <1>5, <1>6, <2>2 DEF QueueInv, Mapped
<1>. QED  BY <1>21, <1>22, <1>23, <1>24 DEF QueueInv

\* All roots are loose where the list has been gone through.
LEMMA OnlyLoose ==
  ASSUME NEW U \in SUBSET Node, NEW L, NEW nx, NEW ch, NEW up,
         Linked(nx, ch, L, L, U), Upwards(nx, ch, L, L, U, up), Covers(nx, ch, L, L, U)
  PROVE  \A x \in U : up[x] = NoNode => x \in L
<1>. DEFINE S == {x \in U : up[x] # NoNode \/ x \in L}
<1>1. \A x \in S : ch[x] \in S \union {NoNode}
  <2>1. SUFFICES ASSUME NEW x \in S, ch[x] # NoNode PROVE ch[x] \in S
    OBVIOUS
  <2>2. ch[x] \in U /\ up[ch[x]] = x /\ x # NoNode
    BY <2>1 DEF Linked, Upwards
  <2>. QED  BY <2>2
<1>2. \A x \in S : x \in L \/ nx[x] \in S \union {NoNode}
  <2>1. SUFFICES ASSUME NEW x \in S, x \notin L, nx[x] # NoNode PROVE nx[x] \in S
    OBVIOUS
  <2>2. nx[x] \in U /\ up[nx[x]] = up[x] /\ up[x] # NoNode
    BY <2>1 DEF Linked, Upwards
  <2>. QED  BY <2>2
<1>3. L \subseteq S /\ NoNode \notin S /\ S \in SUBSET Node
  BY DEF Linked
<1>. HIDE DEF S
<1>4. Linked(nx, ch, L, L, S)
  BY <1>1, <1>2, <1>3 DEF Linked
<1>5. U \subseteq S
  BY <1>3, <1>4 DEF Covers
<1>. QED  BY <1>5 DEF S

LEMMA Priorities ==
  ASSUME PriorityQueueAssumption, QueueTypes PROVE \A x \in 1..Len(priority) : priority[x] \in Int
<1>1. priority \in Seq(Priority) /\ Priority \subseteq Int
  BY DEF QueueTypes, PriorityQueueAssumption
<1>2. ASSUME NEW x \in 1..Len(priority) PROVE priority[x] \in Priority
  BY <1>1, <1>2
<1>. QED  BY <1>1, <1>2

LEMMA LooseRoots ==
  ASSUME PriorityQueueAssumption, QueueInv, NEW U, NEW up, NEW Sub, Grown(U, up, Sub), NEW r \in Loose
  PROVE  r \in U /\ r \in Node /\ r \in 1..Len(priority) /\ up[r] = NoNode /\ r # NoNode
<1>1. r \in U /\ up[r] = NoNode
  BY DEF Grown, Trees, Linked, Upwards
<1>. QED  BY <1>1, GrownNodes DEF QueueInv, Loose

\* The root at d in degree_map is put into the list.
Unloosed(d) ==
  /\ pop'.at = "put" /\ pop'.map = [pop.map EXCEPT ![d] = NoNode] /\ pop'.res = pop.res
  /\ pop' \in [at : {"none", "last", "join", "put"}, i : Node \union {NoNode},
               map : [Degree -> Node \union {NoNode}], res : Node \union {NoNode}]
  /\ UNCHANGED <<children, degree, history>>
Prepended(r, h) == next' = [next EXCEPT ![r] = h]

\* A loose root becomes the head, with h behind it.
LEMMA BeforeStep ==
  ASSUME PriorityQueueAssumption, QueueInv, NEW d \in Degree, NEW r, r = pop.map[d], r # NoNode, NEW h,
         \/ pop.at = "join" /\ pop.i = NoNode /\ h = NoNode
         \/ pop.at = "put" /\ h = head /\ ~Lt(head, r),
         head' = r, Prepended(r, h), Unloosed(d)
  PROVE  QueueInv'
<1>1. /\ children' = children /\ degree' = degree
      /\ priority' = priority /\ inside' = inside /\ popped' = popped /\ failed' = failed
      /\ pop'.at = "put" /\ pop'.map = [pop.map EXCEPT ![d] = NoNode] /\ pop'.res = pop.res
  BY DEF history, Unloosed
<1>2. QueueTypes /\ next \in Links /\ h \in Node \union {NoNode}
  BY DEF QueueInv, QueueTypes
<1>3. PICK U, up, Sub : Grown(U, up, Sub)
  BY DEF QueueInv
<1>4. PICK R, L : R = Roots /\ L = Loose
  OBVIOUS
<1>5. r \in L
  BY <1>4 DEF Loose
<1>6. r \in U /\ r \in Node /\ r \in 1..Len(priority) /\ up[r] = NoNode
  BY <1>3, <1>4, <1>5, LooseRoots
<1>7. (h = NoNode \/ h \in R \ L) /\ R \ {h} = L /\ L \subseteq R /\ NoNode \notin R
  <2>1. CASE pop.at = "join" /\ pop.i = NoNode /\ h = NoNode
    BY <1>4, <2>1 DEF Roots, Starts, Loose
  <2>2. CASE pop.at = "put" /\ h = head
    <3>1. head \notin L
      BY <1>3, <1>4, <2>2 DEF Grown, AtPut
    <3>. QED  BY <1>4, <2>2, <3>1 DEF Roots, Starts, Loose
  <2>. QED  BY <2>1, <2>2
<1>8. Loose' = L \ {r}
  BY <1>1, <1>2, <1>4, LooseBut DEF QueueInv, Loose
<1>9. Roots' = R \ {h}
  BY <1>1, <1>5, <1>7, <1>8 DEF Roots, Starts
<1>10. next'[r] = h /\ \A x \in Node \ {r} : next'[x] = next[x]
  BY <1>2, <1>6 DEF Links, Prepended
<1>11. U \subseteq Node /\ U \subseteq 1..Len(priority)
  BY <1>2, <1>3, GrownNodes
<1>12. Linked(next, children, R, L, U) /\ Upwards(next, children, R, L, U, up)
  BY <1>3, <1>4 DEF Grown, Trees
<1>13. Trees(U, up, Sub)'
  <2>1. \A x \in U \ {r} : next'[x] = next[x]
    BY <1>10, <1>11
  <2>2. /\ Linked(next', children, R \ {h}, L \ {r}, U)
        /\ Upwards(next', children, R \ {h}, L \ {r}, U, up)
    <3>1. (h = NoNode \/ h \in R \ L) /\ (r \in L \/ next[r] = NoNode) /\ next'[r] = h
      BY <1>5, <1>7, <1>10
    <3>. QED  BY <1>6, <1>12, <2>1, <3>1, Ended
  <2>. QED  BY <1>1, <1>3, <1>8, <1>9, <2>2 DEF Grown, Trees
<1>14. AtLast(U, up)' /\ AtJoin(U, up, Sub)' /\ AtPut'
  BY <1>1, <1>8 DEF AtLast, AtJoin, AtPut
<1>15. Whole(U, up)'
  <2>1. SUFFICES ASSUME ~failed
                 PROVE  /\ inside \subseteq U
                        /\ Covers(next', children, Roots', Loose', U)
                        /\ Ordered(U, up)' /\ Lowest(U, up)'
    BY <1>1 DEF Whole
  <2>2. inside \subseteq U /\ Covers(next, children, R, L, U) /\ Ordered(U, up)
    BY <1>3, <1>4, <2>1 DEF Grown, Whole
  <2>3. Covers(next', children, Roots', Loose', U)
    <3>1. \A S \in SUBSET Node : Linked(next', children, R \ {h}, L \ {r}, S) => r \in S
      BY <1>5, <1>7 DEF Linked
    <3>2. Covers(next', children, R \ {h}, L \ {r}, U)
      <4>1. /\ L \subseteq R /\ NoNode \notin R /\ (r \in L \/ next[r] = NoNode)
            /\ Covers(next, children, R, L, U)
        BY <1>5, <1>7, <2>2
      <4>. QED  BY <1>6, <1>10, <3>1, <4>1, EndedCovers
    <3>. QED  BY <1>8, <1>9, <3>2
  <2>4. Ordered(U, up)'
    BY <1>1, <2>2 DEF Ordered, Lt
  <2>5. ASSUME NEW x \in U \ L, up[x] = NoNode PROVE ~Lt(x, r)
    <3>1. CASE pop.at = "join" /\ pop.i = NoNode /\ h = NoNode
      <4>1. R = L
        BY <1>7, <3>1
      <4>. QED  BY <1>11, <1>12, <2>2, <2>5, <4>1, OnlyLoose
    <3>2. CASE pop.at = "put" /\ h = head /\ ~Lt(head, r)
      <4>1. head # NoNode /\ ~Lt(x, head)
        BY <1>3, <1>4, <2>1, <2>5, <3>2 DEF Grown, Whole, Lowest
      <4>2. head \in 1..Len(priority)
        BY <1>3, <1>4, <1>7, <1>11, <1>12, <3>2, <4>1 DEF Linked
      <4>3. priority[x] \in Int /\ priority[head] \in Int /\ priority[r] \in Int
        BY <1>2, <1>6, <1>11, <4>2, Priorities
      <4>. QED  BY <3>2, <4>1, <4>3 DEF Lt
    <3>. QED  BY <3>1, <3>2
  <2>6. ~Lt(r, r)
    <3>1. priority[r] \in Int
      BY <1>2, <1>6, Priorities
    <3>. QED  BY <3>1 DEF Lt
  <2>7. Lowest(U, up)'
    BY <1>1, <1>8, <2>5, <2>6 DEF Lowest, Lt
  <2>. QED  BY <2>2, <2>3, <2>4, <2>7
<1>16. Grown(U, up, Sub)'
  BY <1>13, <1>14, <1>15 DEF Grown
<1>17. QueueTypes'
  <2>1. next' \in Links
    BY <1>2 DEF Links, Prepended
  <2>. QED  BY <1>1, <1>2, <1>6, <2>1 DEF QueueTypes, Unloosed
<1>18. Past'
  <2>1. pop.at # "none"
    OBVIOUS
  <2>2. \A n \in Node : n > Len(priority) => next'[n] = NoNode
    BY <1>2, <1>6, <1>10, Nodes, PushedNodes DEF QueueInv, Past
  <2>. QED  BY <1>1, <2>1, <2>2 DEF QueueInv, Past
<1>19. Mapped'
  <2>1. pop'.map[d] = NoNode /\ \A e \in Degree \ {d} : pop'.map[e] = pop.map[e]
    BY <1>1, <1>2 DEF QueueTypes
  <2>. QED  BY <1>1, <2>1 DEF QueueInv, Mapped
<1>. QED  BY <1>16, <1>17, <1>18, <1>19 DEF QueueInv

LEMMA FirstRootStep == ASSUME PriorityQueueAssumption, QueueInv, FirstRoot PROVE QueueInv'
<1>1. pop.at = "join" /\ pop.i = NoNode /\ UNCHANGED <<children, degree, history>>
  BY DEF FirstRoot
<1>2. CASE pop.map = NoRoots /\ head' = NoNode /\ next' = next /\ pop' = [pop EXCEPT !.at = "put"]
  <2>1. /\ children' = children /\ degree' = degree
        /\ priority' = priority /\ inside' = inside /\ popped' = popped /\ failed' = failed
    BY <1>1 DEF history
  <2>2. pop'.at = "put" /\ pop'.map = pop.map /\ pop'.res = pop.res
    BY <1>2 DEF QueueInv, QueueTypes
  <2>3. PICK U, up, Sub : Grown(U, up, Sub)
    BY DEF QueueInv
  <2>4. Loose = {} /\ Roots = {} /\ Loose' = {} /\ Roots' = {}
    <3>1. Loose = {} /\ Loose' = {}
      BY <1>2, <2>2, NoLoose DEF Loose
    <3>. QED  BY <1>1, <1>2, <2>2, <3>1 DEF Roots, Starts
  <2>5. Trees(U, up, Sub)'
    BY <1>2, <2>1, <2>3, <2>4 DEF Grown, Trees
  <2>6. AtLast(U, up)' /\ AtJoin(U, up, Sub)' /\ AtPut'
    BY <2>2, <2>4 DEF AtLast, AtJoin, AtPut
  <2>7. Whole(U, up)'
    <3>1. SUFFICES ASSUME ~failed
                   PROVE  /\ inside \subseteq U /\ Covers(next, children, {}, {}, U)
                          /\ Ordered(U, up)' /\ Lowest(U, up)'
      BY <1>2, <2>1, <2>4 DEF Whole
    <3>2. inside \subseteq U /\ Covers(next, children, {}, {}, U) /\ Ordered(U, up)
      BY <2>3, <2>4, <3>1 DEF Grown, Whole
    <3>3. Ordered(U, up)'
      BY <2>1, <3>2 DEF Ordered, Lt
    <3>4. \A x \in U : up[x] # NoNode
      <4>1. PICK L : L = {}
        OBVIOUS
      <4>2. U \in SUBSET Node
        BY <2>3, GrownNodes DEF QueueInv
      <4>3. Linked(next, children, L, L, U) /\ Upwards(next, children, L, L, U, up)
        BY <2>3, <2>4, <4>1 DEF Grown, Trees
      <4>4. Covers(next, children, L, L, U)
        BY <3>2, <4>1
      <4>5. \A x \in U : up[x] = NoNode => x \in L
        BY <4>2, <4>3, <4>4, OnlyLoose
      <4>. QED  BY <4>1, <4>5
    <3>. QED  BY <3>2, <3>3, <3>4 DEF Lowest
  <2>8. Grown(U, up, Sub)'
    BY <2>5, <2>6, <2>7 DEF Grown
  <2>9. QueueTypes'
    BY <1>2, <2>1 DEF QueueInv, QueueTypes
  <2>10. Past' /\ Mapped'
    BY <1>1, <1>2, <2>1, <2>2 DEF QueueInv, Past, Mapped
  <2>. QED  BY <2>8, <2>9, <2>10 DEF QueueInv
<1>3. ASSUME NEW d \in Degree, Smallest(d), head' = pop.map[d],
             next' = [next EXCEPT ![pop.map[d]] = NoNode],
             pop' = [pop EXCEPT !.at = "put", !.map[d] = NoNode]
      PROVE  QueueInv'
  <2>1. pop.map[d] # NoNode
    BY <1>3 DEF Smallest
  <2>2. Unloosed(d)
    BY <1>1, <1>3 DEF QueueInv, QueueTypes, Unloosed
  <2>3. Prepended(pop.map[d], NoNode)
    BY <1>3 DEF Prepended
  <2>. QED  BY <1>1, <1>3, <2>1, <2>2, <2>3, BeforeStep
<1>. QED  BY <1>2, <1>3 DEF FirstRoot

\* A loose root is put behind the head.
LEMMA BehindStep ==
  ASSUME PriorityQueueAssumption, QueueInv, NEW d \in Degree, NEW r, r = pop.map[d], r # NoNode,
         pop.at = "put", Lt(head, r), PutBehind(r), Unloosed(d)
  PROVE  QueueInv'
<1>1. /\ children' = children /\ degree' = degree
      /\ priority' = priority /\ inside' = inside /\ popped' = popped /\ failed' = failed
      /\ pop'.at = "put" /\ pop'.map = [pop.map EXCEPT ![d] = NoNode] /\ pop'.res = pop.res
  BY DEF history, Unloosed
<1>2. QueueTypes /\ next \in Links
  BY DEF QueueInv, QueueTypes
<1>3. PICK U, up, Sub : Grown(U, up, Sub)
  BY DEF QueueInv
<1>4. PICK R, L : R = Roots /\ L = Loose
  OBVIOUS
<1>5. r \in L
  BY <1>4 DEF Loose
<1>6. r \in U /\ r \in Node /\ r \in 1..Len(priority) /\ up[r] = NoNode
  BY <1>3, <1>4, <1>5, LooseRoots
<1>7. PICK h : h = head /\ head' = h /\ next' = [next EXCEPT ![r] = next[h], ![h] = r]
  BY DEF PutBehind
<1>8. h \in R \ L /\ R \ {r} = {h} \union (L \ {r}) /\ L \subseteq R /\ NoNode \notin R
  <2>1. head \notin L /\ head # NoNode
    BY <1>3, <1>4, <1>5 DEF Grown, AtPut
  <2>. QED  BY <1>4, <1>5, <1>7, <2>1 DEF Roots, Starts, Loose
<1>9. Loose' = L \ {r}
  BY <1>1, <1>2, <1>4, LooseBut DEF QueueInv, Loose
<1>10. Roots' = R \ {r}
  BY <1>1, <1>7, <1>8, <1>9 DEF Roots, Starts
<1>11. U \subseteq Node /\ U \subseteq 1..Len(priority)
  BY <1>2, <1>3, GrownNodes
<1>12. Linked(next, children, R, L, U) /\ Upwards(next, children, R, L, U, up)
  BY <1>3, <1>4 DEF Grown, Trees
<1>13. h \in U /\ h \in Node /\ h \in 1..Len(priority) /\ h # r
  BY <1>5, <1>8, <1>11, <1>12 DEF Linked
<1>14. next'[r] = next[h] /\ next'[h] = r /\ \A x \in Node \ {r, h} : next'[x] = next[x]
  BY <1>2, <1>6, <1>7, <1>13 DEF Links
<1>15. Trees(U, up, Sub)'
  <2>1. \A x \in U \ {r, h} : next'[x] = next[x]
    BY <1>11, <1>14
  <2>2. /\ Linked(next', children, R \ {r}, L \ {r}, U)
        /\ Upwards(next', children, R \ {r}, L \ {r}, U, up)
    BY <1>5, <1>8, <1>12, <1>14, <2>1, Behind
  <2>. QED  BY <1>1, <1>3, <1>9, <1>10, <2>2 DEF Grown, Trees
<1>16. AtLast(U, up)' /\ AtJoin(U, up, Sub)'
  BY <1>1 DEF AtLast, AtJoin
<1>17. AtPut'
  BY <1>7, <1>8, <1>9 DEF AtPut
<1>18. Whole(U, up)'
  <2>1. SUFFICES ASSUME ~failed
                 PROVE  /\ inside \subseteq U
                        /\ Covers(next', children, Roots', Loose', U)
                        /\ Ordered(U, up)' /\ Lowest(U, up)'
    BY <1>1 DEF Whole
  <2>2. inside \subseteq U /\ Covers(next, children, R, L, U) /\ Ordered(U, up) /\ Lowest(U, up)
    BY <1>3, <1>4, <2>1 DEF Grown, Whole
  <2>3. Covers(next', children, Roots', Loose', U)
    <3>1. Covers(next', children, R \ {r}, L \ {r}, U)
      BY <1>5, <1>8, <1>14, <2>2, BehindCovers
    <3>. QED  BY <1>9, <1>10, <3>1
  <2>4. Ordered(U, up)'
    BY <1>1, <2>2 DEF Ordered, Lt
  <2>5. ~Lt(r, head)
    <3>1. priority[r] \in Int /\ priority[head] \in Int
      BY <1>2, <1>6, <1>7, <1>13, Priorities
    <3>. QED  BY <3>1 DEF Lt
  <2>6. Lowest(U, up)'
    BY <1>1, <1>4, <1>7, <1>8, <1>9, <2>2, <2>5 DEF Lowest, Lt
  <2>. QED  BY <2>2, <2>3, <2>4, <2>6
<1>19. Grown(U, up, Sub)'
  BY <1>15, <1>16, <1>17, <1>18 DEF Grown
<1>20. QueueTypes'
  <2>1. next' \in Links
    BY <1>2, <1>6, <1>7, <1>13 DEF Links
  <2>. QED  BY <1>1, <1>2, <1>7, <2>1 DEF QueueTypes, Unloosed
<1>21. Past'
  <2>1. \A n \in Node : n > Len(priority) => next'[n] = NoNode
    BY <1>2, <1>6, <1>13, <1>14, Nodes, PushedNodes DEF QueueInv, Past
  <2>. QED  BY <1>1, <2>1 DEF QueueInv, Past
<1>22. Mapped'
  <2>1. pop'.map[d] = NoNode /\ \A e \in Degree \ {d} : pop'.map[e] = pop.map[e]
    BY <1>1, <1>2 DEF QueueTypes
  <2>. QED  BY <1>1, <2>1 DEF QueueInv, Mapped
<1>. QED  BY <1>19, <1>20, <1>21, <1>22 DEF QueueInv

LEMMA PutRootStep == ASSUME PriorityQueueAssumption, QueueInv, PutRoot PROVE QueueInv'
<1>1. PICK d \in Degree :
        /\ Smallest(d)
        /\ IF Lt(head, pop.map[d]) THEN PutBehind(pop.map[d]) ELSE PutBefore(pop.map[d])
        /\ pop' = [pop EXCEPT !.map[d] = NoNode]
  BY DEF PutRoot
<1>2. pop.at = "put" /\ UNCHANGED <<children, degree, history>> /\ pop.map[d] # NoNode
  BY <1>1 DEF PutRoot, Smallest
<1>3. Unloosed(d)
  BY <1>1, <1>2 DEF QueueInv, QueueTypes, Unloosed
<1>4. CASE Lt(head, pop.map[d])
  BY <1>1, <1>2, <1>3, <1>4, BehindStep
<1>5. CASE ~Lt(head, pop.map[d])
  <2>1. Prepended(pop.map[d], head) /\ head' = pop.map[d]
    BY <1>1, <1>5 DEF PutBefore, Prepended
  <2>. QED  BY <1>2, <1>3, <1>5, <2>1, BeforeStep
<1>. QED  BY <1>4, <1>5

LEMMA ReturnStep == ASSUME PriorityQueueAssumption, QueueInv, Return PROVE QueueInv'
<1>1. pop.at = "put" /\ pop.map = NoRoots /\ popped' = <<pop.res>> \o popped /\ pop' = NoPop
  BY DEF Return
<1>2. /\ head' = head /\ next' = next /\ children' = children /\ degree' = degree
      /\ priority' = priority /\ inside' = inside /\ failed' = failed
  BY DEF Return, links
<1>3. PICK U, up, Sub : Grown(U, up, Sub)
  BY DEF QueueInv
<1>4. pop'.at = "none" /\ pop'.map = NoRoots
  BY <1>1 DEF NoPop
<1>5. Loose = {} /\ Loose' = {}
  BY <1>1, <1>4, NoLoose DEF Loose
<1>6. Roots' = Roots
  BY <1>1, <1>2, <1>4, <1>5 DEF Roots, Starts
<1>7. Trees(U, up, Sub)'
  BY <1>2, <1>3, <1>5, <1>6 DEF Grown, Trees
<1>8. AtLast(U, up)' /\ AtJoin(U, up, Sub)' /\ AtPut'
  BY <1>4 DEF AtLast, AtJoin, AtPut
<1>9. Whole(U, up)'
  <2>1. SUFFICES ASSUME ~failed
                 PROVE  /\ inside \subseteq U /\ Covers(next, children, Roots', Loose', U)
                        /\ Ordered(U, up)' /\ Lowest(U, up)'
    BY <1>2 DEF Whole
  <2>2. /\ inside \subseteq U /\ Covers(next, children, Roots, Loose, U)
        /\ Ordered(U, up) /\ Lowest(U, up)
    BY <1>1, <1>3, <2>1 DEF Grown, Whole
  <2>. QED  BY <1>2, <1>5, <1>6, <2>2 DEF Ordered, Lowest, Lt
<1>10. Grown(U, up, Sub)'
  BY <1>7, <1>8, <1>9 DEF Grown
<1>11. pop.res \in 1..Len(priority) /\ popped \in Seq(1..Len(priority))
  BY <1>1 DEF QueueInv, QueueTypes, Past
<1>12. QueueTypes'
  <2>1. popped' \in Seq(1..Len(priority))
    BY <1>1, <1>11
  <2>2. pop' \in [at : {"none", "last", "join", "put"}, i : Node \union {NoNode},
                  map : [Degree -> Node \union {NoNode}], res : Node \union {NoNode}]
    BY <1>1 DEF NoPop, NoRoots
  <2>. QED  BY <1>2, <2>1, <2>2 DEF QueueInv, QueueTypes
<1>13. Past'
  <2>1. /\ DOMAIN popped' = 1..(Len(popped) + 1) /\ DOMAIN popped = 1..Len(popped)
        /\ Len(popped) \in Nat
    BY <1>1, <1>11
  <2>2. \A k \in DOMAIN popped' : popped'[k] = IF k = 1 THEN pop.res ELSE popped[k - 1]
    BY <1>1, <1>11
  <2>3. \A k \in DOMAIN popped' : k = 1 \/ k - 1 \in DOMAIN popped
    BY <2>1
  <2>4. \A k, l \in DOMAIN popped : popped[k] = popped[l] => k = l
    BY DEF QueueInv, Past
  <2>5. \A k \in DOMAIN popped : popped[k] \notin inside /\ popped[k] # pop.res
    BY <1>1 DEF QueueInv, Past
  <2>6. pop.res \notin inside
    BY <1>1 DEF QueueInv, Past
  <2>7. \A k \in DOMAIN popped' : popped'[k] \notin inside
    BY <2>2, <2>3, <2>5, <2>6
  <2>8. ASSUME NEW k \in DOMAIN popped', NEW l \in DOMAIN popped', popped'[k] = popped'[l]
        PROVE  k = l
    <3>1. CASE k = 1 \/ l = 1
      BY <2>2, <2>3, <2>5, <2>8, <3>1
    <3>2. CASE k # 1 /\ l # 1
      <4>1. k - 1 = l - 1
        BY <2>2, <2>3, <2>4, <2>8, <3>2
      <4>. QED  BY <2>1, <4>1
    <3>. QED  BY <3>1, <3>2
  <2>. QED  BY <1>2, <1>4, <2>7, <2>8 DEF QueueInv, Past
<1>14. Mapped'
  BY <1>1, <1>4 DEF Mapped, NoRoots
<1>. QED  BY <1>10, <1>12, <1>13, <1>14 DEF QueueInv

LEMMA ThrowStep == ASSUME PriorityQueueAssumption, QueueInv, Throw PROVE QueueInv'
<1>1. pop' = NoPop /\ failed' = TRUE /\ (Equals \/ pop.at = "put")
  BY DEF Throw
<1>2. /\ head' = head /\ next' = next /\ children' = children /\ degree' = degree
      /\ priority' = priority /\ inside' = inside /\ popped' = popped
  BY DEF Throw, links
<1>3. PICK U, up, Sub : Grown(U, up, Sub)
  BY DEF QueueInv
<1>4. pop'.at = "none" /\ pop'.map = NoRoots
  BY <1>1 DEF NoPop
<1>5. Loose' = {} /\ Roots' = {head} \ {NoNode}
  BY <1>2, <1>4 DEF Loose, NoRoots, Roots, Starts
<1>6. PICK R, L : R = Roots /\ L = Loose
  OBVIOUS
<1>7. /\ Linked(next, children, R, L, U) /\ Upwards(next, children, R, L, U, up)
      /\ Subtrees(U, up, Sub) /\ Sizes(degree, U, Sub, 1..Len(priority)) /\ U \subseteq inside
  BY <1>3, <1>6 DEF Grown, Trees
<1>8. \E V, w : /\ Linked(next, children, {head} \ {NoNode}, {}, V)
                /\ Upwards(next, children, {head} \ {NoNode}, {}, V, w)
                /\ Subtrees(V, w, Sub) /\ V \subseteq U
  <2>1. CASE pop.at = "put"
    <3>1. PICK V : Without(U, Sub, L, V)
      BY DEF Without
    <3>2. R \ L = {head} \ {NoNode} /\ L \ L = {}
      <4>1. head \notin Loose
        BY <1>3, <2>1 DEF Grown, AtPut
      <4>. QED  BY <1>6, <2>1, <4>1 DEF Roots, Starts
    <3>3. /\ Linked(next, children, R \ L, L \ L, V) /\ Upwards(next, children, R \ L, L \ L, V, up)
          /\ Subtrees(V, up, Sub)
      <4>1. L \in SUBSET L
        OBVIOUS
      <4>. QED  BY <1>7, <3>1, <4>1, Dropped
    <3>4. V \subseteq U
      BY <3>1 DEF Without
    <3>. QED  BY <3>2, <3>3, <3>4
  <2>2. CASE Equals
    <3>1. pop.at = "join" /\ pop.i # NoNode
      BY <2>2 DEF Equals
    <3>2. PICK i : i = pop.i
      OBVIOUS
    <3>3. R = L \union {i} /\ i \notin L /\ i # NoNode
      BY <1>3, <1>6, <3>1, <3>2 DEF Grown, AtJoin, Roots, Starts, Loose
    <3>4. PICK c, n : Reaches(U, up, Sub, c, n)
      BY <1>3, <3>1 DEF Grown, AtJoin
    <3>5. PICK h : h = head
      OBVIOUS
    <3>6. RootList(next, L, h, c, n)
      BY <1>6, <3>4, <3>5 DEF Reaches
    <3>7. CASE c[n + 1] = i
      <4>1. PICK K : K = {c[k] : k \in 1..n}
        OBVIOUS
      <4>2. PICK X : X = L \ K
        OBVIOUS
      <4>3. \A k \in 1..n : c[k] \in L /\ c[k] \in K
        BY <3>6, <4>1 DEF RootList
      <4>4. K \subseteq L
        BY <4>1, <4>3
      <4>5. PICK V : Without(U, Sub, X, V)
        BY DEF Without
      <4>6. /\ Linked(next, children, R \ X, L \ X, V) /\ Upwards(next, children, R \ X, L \ X, V, up)
            /\ Subtrees(V, up, Sub)
        <5>1. X \in SUBSET L
          BY <4>2
        <5>. QED  BY <1>7, <4>5, <5>1, Dropped
      <4>7. L \ X = K /\ R \ X = K \union ({i} \ {NoNode})
        BY <3>3, <4>2, <4>4
      <4>8. RootList(next, K, h, c, n)
        BY <3>6, <4>3 DEF RootList
      <4>9. /\ Linked(next, children, {h} \ {NoNode}, {}, V)
            /\ Upwards(next, children, {h} \ {NoNode}, {}, V, up)
        <5>1. PICK Q : Q = R \ X
          OBVIOUS
        <5>2. Linked(next, children, Q, K, V) /\ Upwards(next, children, Q, K, V, up)
          BY <4>6, <4>7, <5>1
        <5>3. c[n + 1] \notin K /\ Q = K \union ({c[n + 1]} \ {NoNode})
          BY <3>3, <3>7, <4>4, <4>7, <5>1
        <5>. QED  BY <4>1, <4>8, <5>2, <5>3, Threaded
      <4>10. V \subseteq U
        BY <4>5 DEF Without
      <4>. QED  BY <3>5, <4>6, <4>9, <4>10
    <3>8. CASE \E p, D : Astray(next, children, U, up, Sub, c, n, p, D)
      <4>1. PICK p, D : Astray(next, children, U, up, Sub, c, n, p, D)
        BY <3>8
      <4>2. PICK V : Remains(U, Sub, c, n, D, V)
        BY DEF Remains
      <4>3. PICK w : Lifted(U, up, p, w)
        <5>. DEFINE v == [x \in U |-> IF up[x] = p THEN NoNode ELSE up[x]]
        <5>1. \A x \in U : v[x] = IF up[x] = p THEN NoNode ELSE up[x]
          OBVIOUS
        <5>. HIDE DEF v
        <5>. QED  BY <5>1 DEF Lifted
      <4>4. /\ Linked(next, children, {h} \ {NoNode}, {}, V)
            /\ Upwards(next, children, {h} \ {NoNode}, {}, V, w)
            /\ Subtrees(V, w, Sub)
        BY <1>7, <3>6, <4>1, <4>2, <4>3, Strayed
      <4>5. V \subseteq U
        BY <4>2 DEF Remains
      <4>. QED  BY <3>5, <4>4, <4>5
    <3>. QED  BY <3>2, <3>4, <3>7, <3>8 DEF Reaches
  <2>. QED  BY <1>1, <2>1, <2>2
<1>9. PICK V, w : /\ Linked(next, children, {head} \ {NoNode}, {}, V)
                  /\ Upwards(next, children, {head} \ {NoNode}, {}, V, w)
                  /\ Subtrees(V, w, Sub) /\ V \subseteq U
  BY <1>8
<1>10. Sizes(degree, V, Sub, 1..Len(priority))
  BY <1>7, <1>9 DEF Sizes
<1>11. Trees(V, w, Sub)'
  BY <1>2, <1>5, <1>7, <1>9, <1>10 DEF Trees
<1>12. Grown(V, w, Sub)'
  BY <1>1, <1>4, <1>11 DEF Grown, AtLast, AtJoin, AtPut, Whole
<1>13. QueueTypes'
  <2>1. pop' \in [at : {"none", "last", "join", "put"}, i : Node \union {NoNode},
                  map : [Degree -> Node \union {NoNode}], res : Node \union {NoNode}]
    BY <1>1 DEF NoPop, NoRoots
  <2>. QED  BY <1>1, <1>2, <2>1 DEF QueueInv, QueueTypes
<1>14. Past' /\ Mapped'
  BY <1>1, <1>2, <1>4 DEF QueueInv, Past, Mapped, NoRoots
<1>. QED  BY <1>12, <1>13, <1>14 DEF QueueInv

\* A push is of a loose node that is put before the head or behind it.
LEMMA PushStep ==
  ASSUME PriorityQueueAssumption, QueueInv, NEW p \in Priority, Push(p) PROVE QueueInv'
<1>1. PICK n : n = Len(priority) + 1
  OBVIOUS
<1>2. /\ pop = NoPop /\ n <= MaxNodes
      /\ priority' = Append(priority, p) /\ inside' = inside \union {n}
  BY <1>1 DEF Push
<1>3. \/ /\ head = NoNode \/ p < priority[head]
         /\ head' = n /\ next' = [next EXCEPT ![n] = head]
      \/ /\ ~(head = NoNode \/ p < priority[head])
         /\ head' = head /\ next' = [next EXCEPT ![n] = next[head], ![head] = n]
  BY <1>1 DEF Push
<1>4. /\ children' = children /\ degree' = degree /\ pop' = pop
      /\ popped' = popped /\ failed' = failed
  BY DEF Push
<1>5. /\ QueueTypes /\ next \in Links /\ children \in Links /\ head \in Node \union {NoNode}
      /\ NoNode \notin Node /\ Len(priority) \in Nat /\ MaxNodes \in Nat
  BY Nodes, PushedNodes DEF QueueInv, QueueTypes
<1>6. n \in Node /\ n # NoNode /\ n \notin 1..Len(priority) /\ n > Len(priority)
  BY <1>1, <1>2, <1>5 DEF Node, NoNode
<1>7. next[n] = NoNode /\ children[n] = NoNode /\ degree[n] = 0
  BY <1>6 DEF QueueInv, Past
<1>8. PICK U, up, Sub : Grown(U, up, Sub)
  BY DEF QueueInv
<1>9. pop.at = "none" /\ pop.map = NoRoots
  BY <1>2 DEF NoPop
<1>10. PICK h : h = head
  OBVIOUS
<1>11. PICK R : R = Roots
  OBVIOUS
<1>12. Loose = {} /\ R = {h} \ {NoNode}
  BY <1>9, <1>10, <1>11, NoLoose DEF Roots, Starts
<1>13. Loose' = {} /\ Roots' = {head'} \ {NoNode}
  BY <1>4, <1>9, NoLoose DEF Loose, Roots, Starts
<1>14. /\ Linked(next, children, R, {}, U) /\ Upwards(next, children, R, {}, U, up)
       /\ Subtrees(U, up, Sub) /\ Sizes(degree, U, Sub, 1..Len(priority)) /\ U \subseteq inside
  BY <1>8, <1>11, <1>12 DEF Grown, Trees
<1>15. U \subseteq Node /\ U \subseteq 1..Len(priority) /\ n \notin U
  BY <1>5, <1>6, <1>8, GrownNodes
<1>16. h # NoNode => h \in U /\ h \in Node /\ h # n
  BY <1>12, <1>14, <1>15 DEF Linked
<1>17. PICK w : Altered(up, U, n, NoNode, w)
  <2>. DEFINE v == [x \in U \union {n} |-> IF x = n THEN NoNode ELSE up[x]]
  <2>1. v[n] = NoNode /\ \A x \in U : v[x] = up[x]
    BY <1>15
  <2>. HIDE DEF v
  <2>. QED  BY <2>1 DEF Altered
<1>18. PICK T : Altered(Sub, U, n, {n}, T)
  <2>. DEFINE v == [x \in U \union {n} |-> IF x = n THEN {n} ELSE Sub[x]]
  <2>1. v[n] = {n} /\ \A x \in U : v[x] = Sub[x]
    BY <1>15
  <2>. HIDE DEF v
  <2>. QED  BY <2>1 DEF Altered
<1>19. PICK V, L, Q : V = U \union {n} /\ L = {n} /\ Q = R \union {n}
  OBVIOUS
<1>20. /\ Linked(next, children, Q, L, V) /\ Upwards(next, children, Q, L, V, w)
       /\ Subtrees(V, w, T)
  <2>1. Alone(next, children, U, Sub, n)
    BY <1>6, <1>7, <1>14, <1>15 DEF Sizes, Alone
  <2>2. /\ Linked(next, children, R \union {n}, {n}, U \union {n})
        /\ Upwards(next, children, R \union {n}, {n}, U \union {n}, w)
        /\ Subtrees(U \union {n}, w, T)
    BY <1>14, <1>17, <1>18, <2>1, Pushed
  <2>. QED  BY <1>19, <2>2
<1>21. /\ n \in V /\ n \in L /\ V \subseteq Node /\ w[n] = NoNode /\ L \subseteq Q /\ NoNode \notin Q
       /\ h = NoNode \/ h \in Q \ L
       /\ \A x \in U : w[x] = up[x]
  BY <1>6, <1>12, <1>15, <1>16, <1>17, <1>19 DEF Altered
<1>22. Covers(next, children, R, {}, U) => Covers(next, children, Q, L, V)
  BY <1>7, <1>19, PushedCovers
<1>23. PICK f : f = next'
  OBVIOUS
<1>24. ASSUME head = NoNode \/ p < priority[head], head' = n, next' = [next EXCEPT ![n] = head]
       PROVE  /\ f \in Links /\ f[n] = h /\ \A x \in Node \ {n} : f[x] = next[x]
              /\ Roots' = Q \ {h} /\ Roots' = {n} /\ L \ {n} = {}
  <2>1. f \in Links /\ f[n] = h /\ \A x \in Node \ {n} : f[x] = next[x]
    BY <1>5, <1>6, <1>10, <1>23, <1>24 DEF Links
  <2>2. Q \ {h} = {n} /\ Roots' = {n} /\ L \ {n} = {}
    BY <1>6, <1>12, <1>13, <1>16, <1>19, <1>24
  <2>. QED  BY <2>1, <2>2
<1>25. ASSUME ~(head = NoNode \/ p < priority[head]), head' = head,
              next' = [next EXCEPT ![n] = next[head], ![head] = n]
       PROVE  /\ f \in Links /\ f[n] = next[h] /\ f[h] = n /\ \A x \in Node \ {n, h} : f[x] = next[x]
              /\ Roots' = Q \ {n} /\ L \ {n} = {} /\ h \in Q \ L /\ h \in 1..Len(priority)
  <2>1. h \in Node /\ h # n /\ h \in 1..Len(priority)
    BY <1>10, <1>15, <1>16, <1>25
  <2>2. f \in Links /\ f[n] = next[h] /\ f[h] = n /\ \A x \in Node \ {n, h} : f[x] = next[x]
    BY <1>5, <1>6, <1>10, <1>23, <1>25, <2>1 DEF Links
  <2>3. Roots' = Q \ {n} /\ L \ {n} = {} /\ h \in Q \ L
    BY <1>6, <1>10, <1>12, <1>13, <1>19, <1>25, <2>1
  <2>. QED  BY <2>1, <2>2, <2>3
<1>26. /\ Linked(f, children, Roots', {}, V) /\ Upwards(f, children, Roots', {}, V, w)
       /\ Covers(next, children, R, {}, U) => Covers(f, children, Roots', {}, V)
       /\ f \in Links /\ \A x \in Node : x > n => f[x] = next[x]
  <2>1. CASE f \in Links /\ f[n] = h /\ (\A x \in Node \ {n} : f[x] = next[x])
             /\ Roots' = Q \ {h} /\ Roots' = {n} /\ L \ {n} = {}
    <3>1. Linked(f, children, Q \ {h}, L \ {n}, V) /\ Upwards(f, children, Q \ {h}, L \ {n}, V, w)
      <4>1. \A x \in V \ {n} : f[x] = next[x]
        BY <1>21, <2>1
      <4>2. /\ n \in V /\ w[n] = NoNode /\ (n \in L \/ next[n] = NoNode)
            /\ (h = NoNode \/ h \in Q \ L) /\ f[n] = h
        BY <1>21, <2>1
      <4>. QED  BY <1>20, <4>1, <4>2, Ended
    <3>2. ASSUME Covers(next, children, Q, L, V)
          PROVE  Covers(f, children, Q \ {h}, L \ {n}, V)
      <4>1. n \in Q \ {h}
        BY <2>1
      <4>2. \A S \in SUBSET Node : Linked(f, children, Q \ {h}, L \ {n}, S) => n \in S
        BY <4>1 DEF Linked
      <4>3. /\ n \in Node /\ (n \in L \/ next[n] = NoNode) /\ L \subseteq Q /\ NoNode \notin Q
            /\ f[n] = h /\ \A x \in Node \ {n} : f[x] = next[x]
        BY <1>6, <1>21, <2>1
      <4>. QED  BY <3>2, <4>2, <4>3, EndedCovers
    <3>3. \A x \in Node : x > n => x # n
      BY <1>6, Nodes
    <3>. QED  BY <1>22, <2>1, <3>1, <3>2, <3>3
  <2>2. CASE f \in Links /\ f[n] = next[h] /\ f[h] = n /\ (\A x \in Node \ {n, h} : f[x] = next[x])
             /\ Roots' = Q \ {n} /\ L \ {n} = {} /\ h \in Q \ L /\ h \in 1..Len(priority)
    <3>1. Linked(f, children, Q \ {n}, L \ {n}, V) /\ Upwards(f, children, Q \ {n}, L \ {n}, V, w)
      <4>1. \A x \in V \ {n, h} : f[x] = next[x]
        BY <1>21, <2>2
      <4>2. n \in L /\ h \in Q \ L /\ f[n] = next[h] /\ f[h] = n
        BY <1>21, <2>2
      <4>. QED  BY <1>20, <4>1, <4>2, Behind
    <3>2. ASSUME Covers(next, children, Q, L, V)
          PROVE  Covers(f, children, Q \ {n}, L \ {n}, V)
      <4>1. /\ n \in L /\ h \in Q \ L /\ f[n] = next[h] /\ f[h] = n /\ L \subseteq Q /\ NoNode \notin Q
            /\ \A x \in Node \ {n, h} : f[x] = next[x]
        BY <1>21, <2>2
      <4>. QED  BY <3>2, <4>1, BehindCovers
    <3>3. \A x \in Node : x > n => x # n /\ x # h
      BY <1>1, <1>5, <1>6, <2>2, Nodes
    <3>. QED  BY <1>22, <2>2, <3>1, <3>2, <3>3
  <2>. QED  BY <1>3, <1>24, <1>25, <2>1, <2>2
<1>27. Len(priority') = n /\ \A x \in 1..Len(priority) : priority'[x] = priority[x]
  BY <1>1, <1>2, <1>5 DEF QueueTypes
<1>28. priority'[n] = p
  BY <1>1, <1>2, <1>5 DEF QueueTypes
<1>29. Sizes(degree, V, T, 1..n)
  <2>1. 0 \in Degree /\ 2^0 = 1
    BY DEF PriorityQueueAssumption, Degree
  <2>2. T[n] = {n} /\ \A x \in U : T[x] = Sub[x]
    BY <1>15, <1>18 DEF Altered
  <2>3. Cardinality({n}) = 1
    BY FS_Singleton
  <2>4. {n} \subseteq 1..n /\ 1..Len(priority) \subseteq 1..n
    BY <1>1, <1>5
  <2>5. degree[n] \in Degree /\ T[n] \in SUBSET (1..n) /\ Cardinality(T[n]) = 2^degree[n]
    BY <1>7, <2>1, <2>2, <2>3, <2>4
  <2>6. \A x \in U : degree[x] \in Degree /\ T[x] \in SUBSET (1..n) /\ Cardinality(T[x]) = 2^degree[x]
    BY <1>14, <2>2, <2>4 DEF Sizes
  <2>. QED  BY <1>19, <2>5, <2>6 DEF Sizes
<1>30. Trees(V, w, T)'
  <2>1. V \subseteq inside'
    BY <1>2, <1>14, <1>19
  <2>. QED  BY <1>4, <1>13, <1>20, <1>23, <1>26, <1>27, <1>29, <2>1 DEF Trees
<1>31. AtLast(V, w)' /\ AtJoin(V, w, T)' /\ AtPut'
  BY <1>4, <1>9 DEF AtLast, AtJoin, AtPut
<1>32. Whole(V, w)'
  <2>1. SUFFICES ASSUME ~failed
                 PROVE  /\ inside' \subseteq V /\ Covers(f, children, Roots', {}, V)
                        /\ Ordered(V, w)' /\ Lowest(V, w)'
    BY <1>4, <1>13, <1>23 DEF Whole
  <2>2. /\ inside \subseteq U /\ Covers(next, children, R, {}, U)
        /\ Ordered(U, up) /\ Lowest(U, up)
    BY <1>8, <1>9, <1>11, <1>12, <2>1 DEF Grown, Whole
  <2>3. inside' \subseteq V /\ Covers(f, children, Roots', {}, V)
    BY <1>2, <1>19, <1>26, <2>2
  <2>4. \A x, y \in 1..Len(priority) : Lt(x, y)' <=> Lt(x, y)
    BY <1>27 DEF Lt
  <2>5. Ordered(V, w)'
    <3>1. SUFFICES ASSUME NEW x \in U, up[x] # NoNode PROVE ~Lt(x, up[x])'
      BY <1>19, <1>21 DEF Ordered
    <3>2. up[x] \in U /\ ~Lt(x, up[x])
      BY <1>14, <2>2, <3>1 DEF Upwards, Ordered
    <3>. QED  BY <1>15, <2>4, <3>2
  <2>6. p \in Int /\ \A x \in 1..Len(priority) : priority[x] \in Int
    BY <1>5, Priorities DEF PriorityQueueAssumption
  <2>7. \A x \in U : up[x] = NoNode => head # NoNode /\ ~Lt(x, head)
    BY <1>12, <2>2 DEF Lowest
  <2>8. head # NoNode => head \in 1..Len(priority)
    BY <1>10, <1>15, <1>16
  <2>9. CASE head' = n /\ (head = NoNode \/ p < priority[head])
    <3>1. ASSUME NEW x \in U, up[x] = NoNode PROVE ~(priority[x] < p)
      BY <1>15, <2>6, <2>7, <2>8, <2>9, <3>1 DEF Lt
    <3>2. \A x \in U : up[x] = NoNode => ~Lt(x, n)'
      BY <1>15, <1>27, <1>28, <3>1 DEF Lt
    <3>3. ~Lt(n, n)'
      BY <1>28, <2>6 DEF Lt
    <3>4. Lowest(V, w)'
      BY <1>6, <1>13, <1>19, <1>21, <2>9, <3>2, <3>3 DEF Lowest
    <3>. QED  BY <2>3, <2>5, <3>4
  <2>10. CASE head' = head /\ ~(head = NoNode \/ p < priority[head])
    <3>1. ~Lt(n, h)'
      BY <1>10, <1>27, <1>28, <2>8, <2>10 DEF Lt
    <3>2. \A x \in U : up[x] = NoNode => ~Lt(x, h)'
      BY <1>10, <1>15, <2>4, <2>7, <2>8
    <3>3. Lowest(V, w)'
      BY <1>10, <1>13, <1>19, <1>21, <2>10, <3>1, <3>2 DEF Lowest
    <3>. QED  BY <2>3, <2>5, <3>3
  <2>. QED  BY <1>3, <2>9, <2>10
<1>33. Grown(V, w, T)'
  BY <1>30, <1>31, <1>32 DEF Grown
<1>34. 1..Len(priority) \subseteq 1..n /\ n \in 1..n
  BY <1>1, <1>5
<1>35. QueueTypes'
  <2>1. priority' \in Seq(Priority) /\ Len(priority') <= MaxNodes
    BY <1>2, <1>5, <1>27 DEF QueueTypes
  <2>2. inside' \subseteq 1..n
    BY <1>2, <1>5, <1>34 DEF QueueTypes
  <2>3. popped \in Seq(1..n)
    <3>1. popped \in Seq(1..Len(priority))
      BY <1>5 DEF QueueTypes
    <3>. QED  BY <1>34, <3>1, SeqMonotonic
  <2>4. head' \in Node \union {NoNode} /\ next' \in Links
    BY <1>3, <1>5, <1>6, <1>23, <1>26
  <2>. QED  BY <1>4, <1>5, <1>27, <2>1, <2>2, <2>3, <2>4 DEF QueueTypes
<1>36. Past'
  <2>1. \A x \in Node : x > n => x > Len(priority)
    BY <1>1, <1>5, Nodes
  <2>2. \A x \in Node : x > n => next'[x] = NoNode /\ children[x] = NoNode /\ degree[x] = 0
    BY <1>23, <1>26, <2>1 DEF QueueInv, Past
  <2>3. \A k \in DOMAIN popped : popped[k] # n
    <3>1. popped \in Seq(1..Len(priority))
      BY <1>5 DEF QueueTypes
    <3>2. \A k \in DOMAIN popped : popped[k] \in 1..Len(priority)
      BY <3>1
    <3>. QED  BY <1>6, <3>2
  <2>. QED  BY <1>2, <1>4, <1>9, <1>27, <2>2, <2>3 DEF QueueInv, Past
<1>37. Mapped'
  BY <1>4, <1>9, <1>2 DEF Mapped, NoRoots
<1>. QED  BY <1>33, <1>35, <1>36, <1>37 DEF QueueInv

Meet(i, q) == i = pop.i /\ q = pop.map[degree[i]]
LEMMA JoinStep ==
  ASSUME PriorityQueueAssumption, QueueInv, Equals, NEW i, NEW q, NEW pn, NEW cn,
         Meet(i, q), Pair(i, q, pn, cn), ~Lt(cn, pn), Join(pn, cn)
  PROVE  QueueInv'
<1>1. pop.at = "join" /\ i # NoNode /\ q # NoNode /\ i = pop.i /\ q = pop.map[degree[i]]
  BY DEF Equals, Meet
<1>2. /\ QueueTypes /\ next \in Links /\ children \in Links /\ degree \in [Node -> Degree]
      /\ NoNode \notin Node /\ i \in Node /\ pop.map \in [Degree -> Node \union {NoNode}]
  BY <1>1, Nodes DEF QueueInv, QueueTypes
<1>3. PICK d : d = degree[i] /\ d \in Degree
  BY <1>2
<1>4. q = pop.map[d] /\ q \in Node /\ degree[q] = d
  BY <1>1, <1>2, <1>3 DEF QueueInv, Mapped
<1>5. PICK U, up, Sub : Grown(U, up, Sub)
  BY DEF QueueInv
<1>6. PICK R, L : R = Roots /\ L = Loose
  OBVIOUS
<1>7. i \notin L /\ q \in L /\ R = L \union {i} /\ L \subseteq R /\ i \in R \ L /\ NoNode \notin R
  <2>1. i \notin L
    BY <1>1, <1>5, <1>6 DEF Grown, AtJoin
  <2>2. q \in L
    BY <1>1, <1>3, <1>4, <1>6 DEF Loose
  <2>3. R = L \union {i}
    BY <1>1, <1>6 DEF Roots, Starts
  <2>4. NoNode \notin L
    BY <1>6 DEF Loose
  <2>. QED  BY <1>1, <2>1, <2>2, <2>3, <2>4
<1>8. pn \in Node /\ cn \in Node /\ pn # cn /\ pn \in R /\ cn \in R /\ degree[pn] = d /\ degree[cn] = d
  BY <1>2, <1>3, <1>4, <1>7 DEF Pair
<1>9. PICK f, g, e : f = next' /\ g = children' /\ e = degree'
  OBVIOUS
<1>10. /\ f = [next EXCEPT ![cn] = children[pn], ![pn] = next[i]]
       /\ g = [children EXCEPT ![pn] = cn] /\ e = [degree EXCEPT ![pn] = @ + 1]
  BY <1>1, <1>9 DEF Join
<1>11. /\ f \in Links /\ f[cn] = children[pn] /\ f[pn] = next[i]
       /\ \A x \in Node \ {pn, cn} : f[x] = next[x]
       /\ g \in Links /\ g[pn] = cn /\ \A x \in Node \ {pn} : g[x] = children[x]
       /\ e[pn] = d + 1 /\ \A x \in Node \ {pn} : e[x] = degree[x]
  <2>1. children[pn] \in Node \union {NoNode} /\ next[i] \in Node \union {NoNode}
    BY <1>2, <1>8 DEF Links
  <2>2. f \in Links /\ g \in Links
    BY <1>2, <1>8, <1>10, <2>1 DEF Links
  <2>3. f[cn] = children[pn] /\ f[pn] = next[i] /\ \A x \in Node \ {pn, cn} : f[x] = next[x]
    BY <1>2, <1>8, <1>10 DEF Links
  <2>4. g[pn] = cn /\ \A x \in Node \ {pn} : g[x] = children[x]
    BY <1>2, <1>8, <1>10 DEF Links
  <2>5. e[pn] = d + 1 /\ \A x \in Node \ {pn} : e[x] = degree[x]
    BY <1>2, <1>8, <1>10
  <2>. QED  BY <2>2, <2>3, <2>4, <2>5
<1>12. /\ head' = head /\ priority' = priority /\ inside' = inside /\ popped' = popped /\ failed' = failed
       /\ pop'.at = "join" /\ pop'.i = pn /\ pop'.res = pop.res
       /\ pop'.map = [pop.map EXCEPT ![d] = NoNode]
  BY <1>1, <1>2, <1>3 DEF Join, history, QueueTypes
<1>13. PICK L1, R1 : L1 = L \ {q} /\ R1 = R \ {cn}
  OBVIOUS
<1>14. Loose' = L1 /\ Roots' = R1
  <2>1. {pop'.map[k] : k \in Degree} \ {NoNode} = Loose \ {pop.map[d]}
    <3>1. pop.map[d] # NoNode /\ Mapped
      BY <1>1, <1>4 DEF QueueInv
    <3>. QED  BY <1>2, <1>3, <1>12, <3>1, LooseBut
  <2>2. Loose' = L1
    BY <1>4, <1>6, <1>13, <2>1 DEF Loose
  <2>. QED  BY <1>1, <1>7, <1>8, <1>12, <1>13, <2>2 DEF Roots, Starts, Pair
<1>15. /\ Linked(next, children, R, L, U) /\ Upwards(next, children, R, L, U, up)
       /\ Subtrees(U, up, Sub) /\ Sizes(degree, U, Sub, 1..Len(priority)) /\ U \subseteq inside
  BY <1>5, <1>6 DEF Grown, Trees
<1>16. U \subseteq Node /\ U \subseteq 1..Len(priority) /\ 1..Len(priority) \subseteq Node
  BY <1>2, <1>5, GrownNodes, PushedNodes
<1>17. /\ pn \in U /\ cn \in U /\ up[pn] = NoNode /\ up[cn] = NoNode /\ NoNode \notin U
       /\ L \subseteq U /\ R \subseteq U
  BY <1>7, <1>8, <1>15 DEF Linked, Upwards
<1>18. PICK w : Altered(up, U, cn, pn, w)
  <2>. DEFINE v == [x \in U |-> IF x = cn THEN pn ELSE up[x]]
  <2>1. v[cn] = pn /\ \A x \in U \ {cn} : v[x] = up[x]
    BY <1>17
  <2>. HIDE DEF v
  <2>. QED  BY <2>1 DEF Altered
<1>19. PICK T : Altered(Sub, U, pn, Sub[pn] \union Sub[cn], T)
  <2>. DEFINE v == [x \in U |-> IF x = pn THEN Sub[pn] \union Sub[cn] ELSE Sub[x]]
  <2>1. v[pn] = Sub[pn] \union Sub[cn] /\ \A x \in U \ {pn} : v[x] = Sub[x]
    BY <1>17
  <2>. HIDE DEF v
  <2>. QED  BY <2>1 DEF Altered
<1>20. Relinked(next, children, U, i, pn, cn, f, g) /\ Relinked(next, children, Node, i, pn, cn, f, g)
  BY <1>11, <1>16 DEF Relinked
<1>21. Linked(f, g, R1, L1, U) /\ Upwards(f, g, R1, L1, U, w)
  <2>1. Linked(f, g, R \ {cn}, L \ {q}, U) /\ Upwards(f, g, R \ {cn}, L \ {q}, U, w)
    BY <1>7, <1>15, <1>18, <1>20, JoinedLinks
  <2>. QED  BY <1>13, <2>1
<1>22. Subtrees(U, w, T)
  BY <1>8, <1>15, <1>17, <1>18, <1>19, JoinedSubtrees
<1>23. Sizes(e, U, T, 1..Len(priority))
  <2>1. PICK P : P = 1..Len(priority)
    OBVIOUS
  <2>2. P \in SUBSET Node /\ Sizes(degree, U, Sub, P)
    BY <1>15, <1>16, <2>1
  <2>3. up[pn] = up[cn] /\ degree[pn] = degree[cn]
    BY <1>8, <1>17
  <2>4. Altered(degree, U, pn, degree[pn] + 1, e)
    BY <1>8, <1>11, <1>16 DEF Altered
  <2>5. Sizes(e, U, T, P)
    BY <1>8, <1>15, <1>17, <1>19, <2>2, <2>3, <2>4, JoinedSizes
  <2>. QED  BY <2>1, <2>5
<1>24. Trees(U, w, T)'
  BY <1>9, <1>12, <1>14, <1>15, <1>21, <1>22, <1>23 DEF Trees
<1>25. AtLast(U, w)' /\ AtPut'
  BY <1>12 DEF AtLast, AtPut
<1>26. PICK h : h = head
  OBVIOUS
<1>27. PICK c, n : RootList(next, L, h, c, n) /\ (c[n + 1] = i \/ \E p, D : Astray(next, children, U, up, Sub, c, n, p, D))
  BY <1>1, <1>5, <1>6, <1>26 DEF Grown, AtJoin, Reaches
<1>28. ASSUME NEW m, RootList(next, L, h, c, m), \A k \in 1..m : c[k] # q
       PROVE  RootList(f, L1, h, c, m) /\ \A k \in 1..m : c[k] \in R /\ c[k] # pn /\ c[k] # cn
  <2>1. L \in SUBSET U /\ i \notin L
    BY <1>7, <1>17
  <2>2. RootList(f, L \ {q}, h, c, m)
    BY <1>20, <1>28, <2>1, ThreadJoined
  <2>3. \A k \in 1..m : c[k] \in L
    BY <1>28 DEF RootList
  <2>. QED  BY <1>7, <1>13, <1>28, <2>2, <2>3 DEF Pair
<1>29. ASSUME NEW m, \A k \in 1..m : c[k] \in R /\ c[k] # pn /\ c[k] # cn, c[m + 1] = cn
       PROVE  \E p, D : Astray(f, g, U, w, T, c, m, p, D)
  <2>1. PICK D : Under(U, Sub, pn, cn, D)
    BY DEF Under
  <2>3. pn \in R /\ cn \in R /\ pn # cn
    BY <1>8
  <2>4. Astray(f, g, U, w, T, c, m, pn, D)
    BY <1>15, <1>18, <1>19, <1>20, <1>29, <2>1, <2>3, GoesAstray
  <2>. QED  BY <2>4
<1>30. \E m : /\ RootList(f, L1, h, c, m)
              /\ c[m + 1] = pn \/ \E p, D : Astray(f, g, U, w, T, c, m, p, D)
  <2>1. CASE \E k \in 1..n : c[k] = q
    <3>1. PICK k \in 1..n : c[k] = q
      BY <2>1
    <3>2. PICK m : m = k - 1
      OBVIOUS
    <3>3. RootList(next, L, h, c, m) /\ \A j \in 1..m : c[j] # q
      BY <1>27, <3>1, <3>2, CutThread
    <3>4. m + 1 = k
      BY <3>2
    <3>5. RootList(f, L1, h, c, m) /\ \A j \in 1..m : c[j] \in R /\ c[j] # pn /\ c[j] # cn
      BY <1>28, <3>3
    <3>6. c[m + 1] = pn \/ c[m + 1] = cn
      BY <3>1, <3>4 DEF Pair
    <3>. QED  BY <1>29, <3>5, <3>6
  <2>2. CASE \A k \in 1..n : c[k] # q
    <3>1. RootList(f, L1, h, c, n) /\ \A k \in 1..n : c[k] \in R /\ c[k] # pn /\ c[k] # cn
      BY <1>27, <1>28, <2>2
    <3>2. CASE c[n + 1] = i
      <4>1. c[n + 1] = pn \/ c[n + 1] = cn
        BY <3>2 DEF Pair
      <4>. QED  BY <1>29, <3>1, <4>1
    <3>3. CASE \E p, D : Astray(next, children, U, up, Sub, c, n, p, D)
      <4>1. PICK p, D : Astray(next, children, U, up, Sub, c, n, p, D)
        BY <3>3
      <4>2. \A k \in 1..n : c[k] \in U /\ c[k] # pn
        BY <1>17, <3>1
      <4>4. Astray(f, g, U, w, T, c, n, p, D)
        BY <1>17, <1>18, <1>19, <1>20, <4>1, <4>2, AstrayJoined
      <4>. QED  BY <3>1, <4>4
    <3>. QED  BY <1>27, <3>2, <3>3
  <2>. QED  BY <2>1, <2>2
<1>31. AtJoin(U, w, T)'
  <2>1. PICK m : /\ RootList(f, L1, h, c, m)
                 /\ c[m + 1] = pn \/ \E p, D : Astray(f, g, U, w, T, c, m, p, D)
    BY <1>30
  <2>2. Reaches(U, w, T, c, m)'
    BY <1>9, <1>12, <1>14, <1>26, <2>1 DEF Reaches
  <2>3. pop'.i \notin Loose'
    BY <1>7, <1>12, <1>13, <1>14 DEF Pair
  <2>. QED  BY <2>2, <2>3 DEF AtJoin
<1>32. Whole(U, w)'
  <2>1. SUFFICES ASSUME ~failed
                 PROVE  inside \subseteq U /\ Covers(f, g, R1, L1, U) /\ Ordered(U, w)'
    BY <1>9, <1>12, <1>14 DEF Whole
  <2>2. inside \subseteq U /\ Covers(next, children, R, L, U) /\ Ordered(U, up)
    BY <1>5, <1>6, <2>1 DEF Grown, Whole
  <2>3. Covers(f, g, R \ {cn}, L \ {q}, U)
    BY <1>7, <1>20, <2>2, JoinedCovers
  <2>4. Ordered(U, w)'
    BY <1>12, <1>18, <2>2 DEF Ordered, Lt, Altered
  <2>. QED  BY <1>13, <2>2, <2>3, <2>4
<1>33. Grown(U, w, T)'
  BY <1>24, <1>25, <1>31, <1>32 DEF Grown
<1>34. QueueTypes'
  <2>1. e[pn] \in Degree
    BY <1>17, <1>23 DEF Sizes
  <2>2. e \in [Node -> Degree]
    BY <1>2, <1>8, <1>10, <1>11, <2>1
  <2>3. pop' \in [at : {"none", "last", "join", "put"}, i : Node \union {NoNode},
                  map : [Degree -> Node \union {NoNode}], res : Node \union {NoNode}]
    BY <1>2, <1>3, <1>8 DEF Join, QueueTypes
  <2>. QED  BY <1>2, <1>9, <1>11, <1>12, <2>2, <2>3 DEF QueueTypes
<1>35. Past'
  <2>1. \A x \in Node : x > Len(priority) => x # pn /\ x # cn
    BY <1>2, <1>16, <1>17, Nodes, PushedNodes
  <2>2. \A x \in Node : x > Len(priority) => f[x] = NoNode /\ g[x] = NoNode /\ e[x] = 0
    BY <1>11, <2>1 DEF QueueInv, Past
  <2>. QED  BY <1>1, <1>9, <1>12, <2>2 DEF QueueInv, Past
<1>36. Mapped'
  <2>1. pop'.map[d] = NoNode /\ \A k \in Degree \ {d} : pop'.map[k] = pop.map[k]
    BY <1>2, <1>3, <1>12
  <2>2. \A k \in Degree \ {d} : pop.map[k] # NoNode => pop.map[k] # pn /\ pop.map[k] \in Node
    BY <1>2, <1>4, <1>6, <1>7 DEF QueueInv, Mapped, Loose, Pair
  <2>3. \A k \in Degree : pop'.map[k] # NoNode => e[pop'.map[k]] = k
    BY <1>11, <2>1, <2>2 DEF QueueInv, Mapped
  <2>. QED  BY <1>9, <1>12, <2>3 DEF Mapped
<1>. QED  BY <1>33, <1>34, <1>35, <1>36 DEF QueueInv

LEMMA JoinTreesStep == ASSUME PriorityQueueAssumption, QueueInv, JoinTrees PROVE QueueInv'
<1>1. PICK i, q : i = pop.i /\ q = pop.map[degree[i]] /\ Meet(i, q) /\ Pair(i, q, i, q) /\ Pair(i, q, q, i)
  BY DEF Meet, Pair
<1>2. Equals
  BY DEF JoinTrees
<1>3. CASE Lt(i, q)
  <2>1. Join(i, q)
    BY <1>1, <1>3 DEF JoinTrees
  <2>2. ~Lt(q, i)
    <3>1. QueueTypes /\ i \in Node /\ q \in Loose /\ i # NoNode
      <4>1. pop.i \in Node \union {NoNode} /\ degree \in [Node -> Degree]
        BY DEF QueueInv, QueueTypes
      <4>. QED  BY <1>1, <1>2, <4>1 DEF Equals, Loose, QueueInv
    <3>2. PICK U, up, Sub : Grown(U, up, Sub)
      BY DEF QueueInv
    <3>3. q \in 1..Len(priority)
      BY <3>1, <3>2, LooseRoots
    <3>4. i \in 1..Len(priority)
      <4>1. i \in Roots
        BY <1>1, <1>2, <3>1 DEF Equals, Roots, Starts
      <4>2. i \in U
        BY <3>2, <4>1 DEF Grown, Trees, Linked
      <4>. QED  BY <3>1, <3>2, <4>2, GrownNodes
    <3>5. priority[i] \in Int /\ priority[q] \in Int
      BY <3>1, <3>3, <3>4, Priorities
    <3>. QED  BY <1>3, <3>5 DEF Lt
  <2>. QED  BY <1>1, <1>2, <2>1, <2>2, JoinStep
<1>4. CASE ~Lt(i, q)
  <2>1. Join(q, i)
    BY <1>1, <1>4 DEF JoinTrees
  <2>. QED  BY <1>1, <1>2, <1>4, <2>1, JoinStep
<1>. QED  BY <1>3, <1>4

-----------------------------------------------------------------------------
(* What the invariant says of a queue that no pop is at work on.           *)

LEMMA QueueInvPopsLeast == ASSUME PriorityQueueAssumption, QueueInv PROVE PopsLeast
<1>. SUFFICES ASSUME pop = NoPop PROVE PopsLeast
  BY DEF PopsLeast
<1>1. pop.at = "none" /\ pop.map = NoRoots
  BY DEF NoPop
<1>2. PICK U, up, Sub : Grown(U, up, Sub)
  BY DEF QueueInv
<1>3. Loose = {} /\ Roots = {head} \ {NoNode}
  BY <1>1, NoLoose DEF Roots, Starts
<1>4. /\ Linked(next, children, {head} \ {NoNode}, {}, U)
      /\ Upwards(next, children, {head} \ {NoNode}, {}, U, up)
  BY <1>2, <1>3 DEF Grown, Trees
<1>5. U \subseteq inside /\ U \subseteq Node /\ U \subseteq 1..Len(priority) /\ NoNode \notin Node
  BY <1>2, Nodes, GrownNodes DEF Grown, Trees, QueueInv
<1>6. InTrees \subseteq U
  <2>1. head \in U \union {NoNode}
    BY <1>4 DEF Linked
  <2>2. \A i \in U : next[i] \in U \union {NoNode} /\ children[i] \in U \union {NoNode}
    BY <1>4 DEF Linked
  <2>. QED  BY <1>5, <2>1, <2>2 DEF InTrees
<1>7. EachOnce
  <2>1. \A i, j \in U : next[i] = next[j] /\ next[i] # NoNode => i = j
    BY <1>4 DEF Upwards
  <2>2. \A i, j \in U : children[i] = children[j] /\ children[i] # NoNode => i = j
    BY <1>4 DEF Upwards
  <2>3. \A i, j \in U : next[i] = children[j] => next[i] = NoNode
    BY <1>4 DEF Upwards
  <2>4. \A i \in U : head # NoNode => next[i] # head
    BY <1>4 DEF Upwards
  <2>5. \A i \in U : head # NoNode => children[i] # head
    BY <1>4, <1>5 DEF Upwards
  <2>. QED  BY <1>6, <2>1, <2>2, <2>3, <2>4, <2>5 DEF EachOnce
<1>8. ASSUME ~failed
      PROVE  InTrees = inside /\ \A i \in inside : ~Lt(i, head)
  <2>1. /\ inside = U /\ Covers(next, children, {head} \ {NoNode}, {}, U)
        /\ Ordered(U, up) /\ Lowest(U, up)
    BY <1>1, <1>2, <1>3, <1>5, <1>8 DEF Grown, Whole
  <2>2. \A n \in U : n \in InTrees
    <3>1. SUFFICES ASSUME NEW n \in U, NEW S \in SUBSET Node, head \in S \union {NoNode},
                          \A i \in S : next[i] \in S \union {NoNode} /\ children[i] \in S \union {NoNode}
                   PROVE  n \in S
      BY <1>5 DEF InTrees
    <3>2. Linked(next, children, {head} \ {NoNode}, {}, S)
      BY <1>5, <3>1 DEF Linked
    <3>. QED  BY <2>1, <3>1, <3>2 DEF Covers
  <2>3. \A x \in U : priority[x] \in Int
    BY <1>5, Priorities DEF QueueInv
  <2>. DEFINE S == {x \in U : ~Lt(x, head) /\ (up[x] = NoNode \/ ~Lt(up[x], head))}
  <2>4. head # NoNode => head \in U /\ up[head] = NoNode
    BY <1>4 DEF Linked, Upwards
  <2>5. \A x \in U : up[x] = NoNode => head # NoNode /\ ~Lt(x, head)
    BY <1>3, <2>1 DEF Lowest
  <2>6. \A x \in U : up[x] # NoNode => up[x] \in U /\ ~Lt(x, up[x])
    BY <1>4, <2>1 DEF Ordered, Upwards
  <2>7. CASE head = NoNode
    <3>1. Linked(next, children, {head} \ {NoNode}, {}, {})
      BY <2>7 DEF Linked
    <3>2. U = {}
      BY <2>1, <3>1 DEF Covers
    <3>. QED  BY <1>6, <2>1, <3>2
  <2>8. CASE head # NoNode
    <3>1. \A x \in U : ~Lt(x, head) => priority[x] \in Int /\ priority[head] \in Int
      BY <2>3, <2>4, <2>8
    <3>2. \A x \in U : up[x] # NoNode /\ ~Lt(up[x], head) => ~Lt(x, head)
      BY <2>3, <2>4, <2>6, <2>8 DEF Lt
    <3>3. head \in S
      BY <2>4, <2>5, <2>8
    <3>4. \A x \in S : next[x] \in S \union {NoNode}
      <4>1. SUFFICES ASSUME NEW x \in S, next[x] # NoNode PROVE next[x] \in S
        OBVIOUS
      <4>2. next[x] \in U /\ up[next[x]] = up[x]
        BY <1>4, <4>1 DEF Linked, Upwards
      <4>. QED  BY <2>5, <3>2, <4>2
    <3>5. \A x \in S : children[x] \in S \union {NoNode}
      <4>1. SUFFICES ASSUME NEW x \in S, children[x] # NoNode PROVE children[x] \in S
        OBVIOUS
      <4>2. children[x] \in U /\ up[children[x]] = x /\ x # NoNode
        BY <1>4, <1>5, <4>1 DEF Linked, Upwards
      <4>. QED  BY <3>2, <4>2
    <3>6. S \in SUBSET Node
      BY <1>5
    <3>. HIDE DEF S
    <3>7. Linked(next, children, {head} \ {NoNode}, {}, S)
      BY <1>5, <3>3, <3>4, <3>5, <3>6 DEF Linked
    <3>8. U \subseteq S
      BY <2>1, <3>6, <3>7 DEF Covers
    <3>. QED  BY <1>6, <2>1, <2>2, <3>8 DEF S
  <2>. QED  BY <2>7, <2>8
<1>9. /\ \A k, l \in DOMAIN popped : popped[k] = popped[l] => k = l
      /\ \A k \in DOMAIN popped : popped[k] \notin inside
  BY DEF QueueInv, Past
<1>10. InTrees \subseteq inside
  BY <1>5, <1>6
<1>. QED  BY <1>7, <1>8, <1>9, <1>10 DEF PopsLeast

LEMMA QueueInvStutter == ASSUME QueueInv, UNCHANGED queueVars PROVE QueueInv'
<1>1. /\ head' = head /\ next' = next /\ children' = children /\ degree' = degree /\ pop' = pop
      /\ priority' = priority /\ inside' = inside /\ popped' = popped /\ failed' = failed
  BY DEF queueVars, links, history
<1>2. PICK U, up, Sub : Grown(U, up, Sub)
  BY DEF QueueInv
<1>3. Loose' = Loose /\ Roots' = Roots
  BY <1>1 DEF Loose, Roots, Starts
<1>4. Trees(U, up, Sub)' /\ AtLast(U, up)' /\ AtPut'
  BY <1>1, <1>2, <1>3 DEF Grown, Trees, AtLast, AtPut
<1>5. AtJoin(U, up, Sub)'
  BY <1>1, <1>2, <1>3 DEF Grown, AtJoin, Reaches
<1>6. Whole(U, up)'
  BY <1>1, <1>2, <1>3 DEF Grown, Whole, Ordered, Lowest, Lt
<1>7. Grown(U, up, Sub)'
  BY <1>4, <1>5, <1>6 DEF Grown
<1>8. QueueTypes' /\ Past' /\ Mapped'
  BY <1>1 DEF QueueInv, QueueTypes, Past, Mapped
<1>. QED  BY <1>7, <1>8 DEF QueueInv

\* Of any number of objects of any priorities, pushed and popped in any order: a pop
\* takes the least, no object is lost or popped twice, and where a comparison threw
\* in a pop, what is left is still trees of objects that are inside
\* (collections.c, priority queues).
THEOREM LeastFirst == ASSUME PriorityQueueAssumption PROVE QueueSpec => []PopsLeast
<1>1. QueueInit => QueueInv
  BY QueueInvInit
<1>2. QueueInv /\ [QueueNext]_queueVars => QueueInv'
  <2>. SUFFICES ASSUME QueueInv, [QueueNext]_queueVars PROVE QueueInv'
    OBVIOUS
  <2>1. ASSUME NEW p \in Priority, Push(p) PROVE QueueInv'
    BY <2>1, PushStep
  <2>2. CASE Behead
    BY <2>2, BeheadStep
  <2>3. CASE NextChild
    BY <2>3, NextChildStep
  <2>4. CASE LinkChildren
    BY <2>4, LinkChildrenStep
  <2>5. CASE KeepRoot
    BY <2>5, KeepRootStep
  <2>6. CASE JoinTrees
    BY <2>6, JoinTreesStep
  <2>7. CASE FirstRoot
    BY <2>7, FirstRootStep
  <2>8. CASE PutRoot
    BY <2>8, PutRootStep
  <2>9. CASE Return
    BY <2>9, ReturnStep
  <2>10. CASE Throw
    BY <2>10, ThrowStep
  <2>11. CASE UNCHANGED queueVars
    BY <2>11, QueueInvStutter
  <2>. QED  BY <2>1, <2>2, <2>3, <2>4, <2>5, <2>6, <2>7, <2>8, <2>9, <2>10, <2>11 DEF QueueNext
<1>3. QueueInv => PopsLeast
  BY QueueInvPopsLeast
<1>. QED  BY <1>1, <1>2, <1>3, PTL DEF QueueSpec

-----------------------------------------------------------------------------
(* CipherModes: places in a text of n blocks of U bytes.                   *)

LEMMA Positions ==
  ASSUME NEW U \in Nat \ {0}, NEW k \in Nat, NEW j \in 1..U
  PROVE  (k * U + j - 1) \div U = k /\ (k * U + j - 1) % U = j - 1
OBVIOUS

LEMMA PlaceOf ==
  ASSUME NEW U \in Nat \ {0}, NEW n \in Nat, NEW i \in 1..(n * U)
  PROVE  /\ (i - 1) \div U \in 0..(n - 1) /\ ((i - 1) % U) + 1 \in 1..U
         /\ i = ((i - 1) \div U) * U + ((i - 1) % U) + 1
OBVIOUS

LEMMA InText ==
  ASSUME NEW U \in Nat \ {0}, NEW n \in Nat, NEW k \in 0..(n - 1), NEW j \in 1..U
  PROVE  k * U + j \in 1..(n * U)
OBVIOUS

LEMMA Wholes ==
  ASSUME NEW U \in Nat \ {0}, NEW m \in Nat
  PROVE  (m * U) \div U = m /\ (m * U) % U = 0 /\ m * U \in Nat
OBVIOUS

LEMMA WholeIs ==
  ASSUME NEW U \in Nat \ {0}, NEW m \in Nat, m % U = 0
  PROVE  m \div U \in Nat /\ m = (m \div U) * U
OBVIOUS

LEMMA FilledUp ==
  ASSUME NEW U \in Nat \ {0}, NEW m \in Nat
  PROVE  U - (m % U) \in 1..U /\ (m + (U - (m % U))) % U = 0
<1>. DEFINE q == m \div U
            r == m % U
<1>1. q \in Nat /\ r \in 0..(U - 1) /\ m = q * U + r
  OBVIOUS
<1>. HIDE DEF q, r
<1>2. m + (U - r) = (q + 1) * U /\ q + 1 \in Nat
  BY <1>1
<1>3. ((q + 1) * U) % U = 0
  BY <1>2, Wholes
<1>. QED  BY <1>1, <1>2, <1>3 DEF r

LEMMA Joining ==
  ASSUME NEW a \in Seq(Byte), NEW b \in Seq(Byte)
  PROVE  /\ a \o b \in Seq(Byte) /\ Len(a \o b) = Len(a) + Len(b)
         /\ \A i \in 1..Len(a) : (a \o b)[i] = a[i]
         /\ \A i \in 1..Len(b) : (a \o b)[Len(a) + i] = b[i]
OBVIOUS


-----------------------------------------------------------------------------
(* CipherModes: one block.                                         *)

Ctx == [iv : Block]
Keyed == mode \in BlockMode /\ cipher \in Cipher /\ iv \in IV
Bytes(n) == [1..n -> Byte]

LEMMA Xored ==
  ASSUME CipherAssumption, NEW a \in Block, NEW b \in Block
  PROVE  /\ XorBlock(a, b) \in Block
         /\ XorBlock(XorBlock(a, b), b) = a /\ XorBlock(XorBlock(b, a), b) = a
         /\ XorBlock(b, XorBlock(b, a)) = a
<1>1. \A x, y \in Byte : Xor(x, y) \in Byte /\ Xor(x, y) = Xor(y, x) /\ Xor(Xor(x, y), y) = x
  BY DEF CipherAssumption
<1>2. a \in [1..BlockSize -> Byte] /\ b \in [1..BlockSize -> Byte]
  BY DEF Block
<1>3. XorBlock(a, b) \in Block /\ XorBlock(b, a) \in Block
  BY <1>1, <1>2 DEF XorBlock, Block
<1>4. \A i \in 1..BlockSize : XorBlock(XorBlock(a, b), b)[i] = a[i]
  BY <1>1, <1>2 DEF XorBlock
<1>5. \A i \in 1..BlockSize : XorBlock(XorBlock(b, a), b)[i] = a[i]
  BY <1>1, <1>2 DEF XorBlock
<1>6. XorBlock(XorBlock(a, b), b) = a
  BY <1>2, <1>4 DEF XorBlock
<1>7. XorBlock(XorBlock(b, a), b) = a
  BY <1>2, <1>5 DEF XorBlock
<1>8. \A i \in 1..BlockSize : XorBlock(b, XorBlock(b, a))[i] = a[i]
  BY <1>1, <1>2 DEF XorBlock
<1>9. XorBlock(b, XorBlock(b, a)) = a
  BY <1>2, <1>8 DEF XorBlock
<1>. QED  BY <1>3, <1>6, <1>7, <1>9

LEMMA CountedBlock ==
  ASSUME CipherAssumption, NEW b \in Block
  PROVE  Counted(b) \in Block
<1>. DEFINE size == 2^ByteBits
<1>1. size \in Nat \ {0} /\ Byte = 0..(size - 1)
  BY DEF CipherAssumption, Byte
<1>. HIDE DEF size
<1>2. \A x \in Byte : (x + 1) % size \in Byte
  BY <1>1
<1>3. b \in [1..BlockSize -> Byte]
  BY DEF Block
<1>. DEFINE full == {i \in 1..BlockSize : \A j \in 1..i : b[j] = size - 1}
<1>4. Counted(b) = [i \in 1..BlockSize |->
                      IF i - 1 \in full \union {0} THEN (b[i] + 1) % size ELSE b[i]]
  BY DEF Counted, size
<1>. HIDE DEF full
<1>5. \A i \in 1..BlockSize :
        (IF i - 1 \in full \union {0} THEN (b[i] + 1) % size ELSE b[i]) \in Byte
  BY <1>2, <1>3
<1>. QED  BY <1>4, <1>5 DEF Block

LEMMA CipherInverse ==
  ASSUME CipherAssumption, Keyed, NEW b \in Block
  PROVE  Enciphered(b) \in Block /\ Deciphered(Enciphered(b)) = b
<1>1. cipher \in [Block -> Block] /\ \A x, y \in Block : cipher[x] = cipher[y] => x = y
  BY DEF CipherAssumption, Keyed
<1>2. \A p \in Block : cipher[p] = cipher[b] <=> p = b
  BY <1>1
<1>. QED  BY <1>1, <1>2 DEF Enciphered, Deciphered

LEMMA BlockInverse ==
  ASSUME CipherAssumption, Keyed, NEW c \in Ctx, NEW b \in Block
  PROVE  LET r == EncryptBlock(c, b)
         IN  /\ r.ctx \in Ctx /\ r.out \in Block
             /\ DecryptBlock(c, r.out) = [ctx |-> r.ctx, out |-> b]
<1>1. c.iv \in Block /\ \A v \in Block : [c EXCEPT !.iv = v] \in Ctx
  BY DEF Ctx
<1>2. \A x \in Block : Enciphered(x) \in Block /\ Deciphered(Enciphered(x)) = x
  BY CipherInverse
<1>3. \A x, y \in Block : /\ XorBlock(x, y) \in Block
                          /\ XorBlock(XorBlock(x, y), y) = x /\ XorBlock(XorBlock(y, x), y) = x
                          /\ XorBlock(y, XorBlock(y, x)) = x
  BY Xored
<1>4. \A x \in Block : Counted(x) \in Block
  BY CountedBlock
<1>5. CASE mode = "ecb"
  BY <1>1, <1>2, <1>5 DEF EncryptBlock, DecryptBlock, Result
<1>6. CASE mode = "cbc"
  <2>. DEFINE x == XorBlock(c.iv, b)
              e == Enciphered(x)
  <2>1. EncryptBlock(c, b) = [ctx |-> [c EXCEPT !.iv = e], out |-> e]
    BY <1>6 DEF EncryptBlock, CbcEncrypt, Result
  <2>2. DecryptBlock(c, e) = [ctx |-> [c EXCEPT !.iv = e], out |-> XorBlock(Deciphered(e), c.iv)]
    BY <1>6 DEF DecryptBlock, CbcDecrypt, Result
  <2>3. x \in Block /\ e \in Block /\ Deciphered(e) = x /\ XorBlock(x, c.iv) = b
    BY <1>1, <1>2, <1>3
  <2>. QED  BY <1>1, <2>1, <2>2, <2>3
<1>7. CASE mode = "cfb"
  <2>. DEFINE k == Enciphered(c.iv)
              e == XorBlock(k, b)
  <2>1. EncryptBlock(c, b) = [ctx |-> [c EXCEPT !.iv = e], out |-> e]
    BY <1>7 DEF EncryptBlock, CfbEncrypt, Result
  <2>2. DecryptBlock(c, e) = [ctx |-> [c EXCEPT !.iv = e], out |-> XorBlock(k, e)]
    BY <1>7 DEF DecryptBlock, CfbDecrypt, Result
  <2>3. k \in Block /\ e \in Block /\ XorBlock(k, e) = b
    BY <1>1, <1>2, <1>3
  <2>. QED  BY <1>1, <2>1, <2>2, <2>3
<1>8. CASE mode = "ofb"
  <2>. DEFINE k == Enciphered(c.iv)
              e == XorBlock(b, k)
  <2>1. EncryptBlock(c, b) = [ctx |-> [c EXCEPT !.iv = k], out |-> e]
    BY <1>8 DEF EncryptBlock, OfbOperate, Result
  <2>2. DecryptBlock(c, e) = [ctx |-> [c EXCEPT !.iv = k], out |-> XorBlock(e, k)]
    BY <1>8 DEF DecryptBlock, OfbOperate, Result
  <2>3. k \in Block /\ e \in Block /\ XorBlock(e, k) = b
    BY <1>1, <1>2, <1>3
  <2>. QED  BY <1>1, <2>1, <2>2, <2>3
<1>9. CASE mode = "ctr"
  <2>. DEFINE k == Enciphered(c.iv)
              e == XorBlock(b, k)
              n == Counted(c.iv)
  <2>1. EncryptBlock(c, b) = [ctx |-> [c EXCEPT !.iv = n], out |-> e]
    BY <1>9 DEF EncryptBlock, CtrOperate, Result
  <2>2. DecryptBlock(c, e) = [ctx |-> [c EXCEPT !.iv = n], out |-> XorBlock(e, k)]
    BY <1>9 DEF DecryptBlock, CtrOperate, Result
  <2>3. k \in Block /\ e \in Block /\ n \in Block /\ XorBlock(e, k) = b
    BY <1>1, <1>2, <1>3, <1>4
  <2>. QED  BY <1>1, <2>1, <2>2, <2>3
<1>. QED  BY <1>5, <1>6, <1>7, <1>8, <1>9 DEF Keyed, BlockMode

\* What is encrypted is decrypted, with the same context after it.
LEMMA BothInverse ==
  ASSUME CipherAssumption, Keyed, NEW c \in Ctx, NEW u \in Bytes(BlockSize)
  PROVE  LET r == Operated(TRUE, c, u)
         IN  /\ r.ctx \in Ctx /\ r.out \in Bytes(BlockSize)
             /\ Operated(FALSE, c, r.out) = [ctx |-> r.ctx, out |-> u]
BY BlockInverse DEF Operated, Bytes, Block, Keyed

LEMMA SizeIs == ASSUME CipherAssumption PROVE BlockSize \in Nat \ {0}
BY DEF CipherAssumption

-----------------------------------------------------------------------------
(* CipherModes: a call with several of them.                               *)

LEMMA OperatedCtx ==
  ASSUME CipherAssumption, Keyed, NEW e \in BOOLEAN, NEW c \in Ctx, NEW u \in Bytes(BlockSize)
  PROVE  Operated(e, c, u).ctx \in Ctx
<1>1. c.iv \in Block /\ \A v \in Block : [c EXCEPT !.iv = v] \in Ctx
  BY DEF Ctx
<1>2. CASE e = TRUE
  BY <1>2, BothInverse
<1>3. CASE e = FALSE
  <2>. u \in Block /\ mode \in BlockMode
    BY DEF Bytes, Block, Keyed
  <2>1. Operated(e, c, u) = DecryptBlock(c, u)
    BY <1>3 DEF Operated
  <2>2. Enciphered(c.iv) \in Block /\ Counted(c.iv) \in Block
    BY <1>1, CipherInverse, CountedBlock
  <2>3. CASE mode = "ecb"
    BY <1>1, <2>1, <2>3 DEF DecryptBlock, Result
  <2>4. CASE mode = "cbc"
    BY <1>1, <2>1, <2>4 DEF DecryptBlock, CbcDecrypt, Result
  <2>5. CASE mode = "cfb"
    BY <1>1, <2>1, <2>5 DEF DecryptBlock, CfbDecrypt, Result
  <2>6. CASE mode = "ofb"
    BY <1>1, <2>1, <2>2, <2>6 DEF DecryptBlock, OfbOperate, Result
  <2>7. CASE mode = "ctr"
    BY <1>1, <2>1, <2>2, <2>7 DEF DecryptBlock, CtrOperate, Result
  <2>. QED  BY <2>3, <2>4, <2>5, <2>6, <2>7 DEF BlockMode
<1>. QED  BY <1>2, <1>3

LEMMA BlockAtIs ==
  ASSUME CipherAssumption, NEW n \in Nat, NEW s \in Seq(Byte), Len(s) = n * BlockSize, NEW k \in 1..n
  PROVE  BlockAt(s, k) \in Bytes(BlockSize)
<1>1. BlockSize \in Nat \ {0}
  BY SizeIs
<1>2. \A j \in 1..BlockSize : (k - 1) * BlockSize + j \in 1..(n * BlockSize)
  BY <1>1, InText
<1>3. \A i \in 1..(n * BlockSize) : s[i] \in Byte
  OBVIOUS
<1>. QED  BY <1>2, <1>3 DEF BlockAt, Bytes

\* The contexts of a call that goes through the text s from the context c.
CtxAlong(e, c, s, n, at) ==
  /\ at[0] = c
  /\ \A k \in 1..n : at[k] = Operated(e, at[k - 1], BlockAt(s, k)).ctx

\* A call goes through its text by blocks, each with the context the last one left.
LEMMA CallIs ==
  ASSUME CipherAssumption, Keyed, NEW e \in BOOLEAN, NEW c \in Ctx,
         NEW n \in Nat, NEW s \in Seq(Byte), Len(s) = n * BlockSize
  PROVE  \E at \in [0..n -> Ctx] :
           /\ CtxAlong(e, c, s, n, at)
           /\ Call(e, c, s) =
                [ctx |-> at[n],
                 out |-> [i \in 1..(n * BlockSize) |->
                    Operated(e, at[(i - 1) \div BlockSize], BlockAt(s, (i - 1) \div BlockSize + 1))
                      .out[((i - 1) % BlockSize) + 1]]]
<1>1. BlockSize \in Nat \ {0} /\ Len(s) \div BlockSize = n
  BY SizeIs, Wholes
<1>. DEFINE step == [p \in (1..n) \X Ctx |-> Operated(e, p[2], BlockAt(s, p[1])).ctx]
            IsRun(at) == at = [k \in 0..n |->
                           IF k = 0 THEN c ELSE Operated(e, at[k - 1], BlockAt(s, k)).ctx]
            run == Contexts(e, c, s, n)
<1>2. step \in [(1..n) \X Ctx -> Ctx]
  BY BlockAtIs, OperatedCtx
<1>3. \A k \in 1..n, x \in Ctx : step[<<k, x>>] = Operated(e, x, BlockAt(s, k)).ctx
  OBVIOUS
<1>. HIDE DEF step
<1>4. PICK f \in [0..n -> Ctx] : Follows(f, n, c, step)
  BY <1>2, Recursion
<1>5. f[0] = c /\ \A k \in 1..n : f[k] = Operated(e, f[k - 1], BlockAt(s, k)).ctx
  <2>1. \A k \in 1..n : k - 1 \in 0..n /\ f[k - 1] \in Ctx
    OBVIOUS
  <2>. QED  BY <1>3, <1>4, <2>1 DEF Follows
<1>6. IsRun(f)
  <2>1. \A k \in 0..n : f[k] = IF k = 0 THEN c ELSE Operated(e, f[k - 1], BlockAt(s, k)).ctx
    BY <1>5
  <2>. QED  BY <2>1
<1>7. IsRun(run)
  <2>1. run = CHOOSE at : IsRun(at)
    BY DEF Contexts
  <2>. HIDE DEF IsRun, run
  <2>. QED  BY <1>6, <2>1
<1>8. run[0] = c /\ \A k \in 1..n : run[k] = Operated(e, run[k - 1], BlockAt(s, k)).ctx
  <2>. HIDE DEF run
  <2>1. \A k \in 0..n : run[k] = IF k = 0 THEN c ELSE Operated(e, run[k - 1], BlockAt(s, k)).ctx
    BY <1>7
  <2>. QED  BY <2>1
<1>9. run \in [0..n -> Ctx]
  <2>1. \A k \in 0..n : run[k] \in Ctx
    <3>. DEFINE S == {k \in 0..n : run[k] \in Ctx}
    <3>1. 0 \in S
      BY <1>8
    <3>2. ASSUME NEW k \in 0..(n - 1), k \in S  PROVE k + 1 \in S
      <4>1. k + 1 \in 1..n /\ (k + 1) - 1 = k /\ run[k] \in Ctx
        BY <3>2
      <4>2. run[k + 1] = Operated(e, run[k], BlockAt(s, k + 1)).ctx
        BY <1>8, <4>1
      <4>3. BlockAt(s, k + 1) \in Bytes(BlockSize)
        BY <4>1, BlockAtIs
      <4>. QED  BY <4>1, <4>2, <4>3, OperatedCtx
    <3>. HIDE DEF S
    <3>3. \A k \in 0..n : k \in S
      BY <3>1, <3>2, Upward
    <3>. QED  BY <3>3 DEF S
  <2>2. run = [k \in 0..n |->
                IF k = 0 THEN c ELSE Operated(e, run[k - 1], BlockAt(s, k)).ctx]
    BY <1>7
  <2>. HIDE DEF run
  <2>. QED  BY <2>1, <2>2
<1>10. Call(e, c, s) =
         [ctx |-> run[n],
          out |-> [i \in 1..Len(s) |->
             Operated(e, run[(i - 1) \div BlockSize], BlockAt(s, (i - 1) \div BlockSize + 1))
               .out[((i - 1) % BlockSize) + 1]]]
  BY <1>1 DEF Call
<1>. HIDE DEF run
<1>11. CtxAlong(e, c, s, n, run)
  BY <1>8 DEF CtxAlong
<1>. QED  BY <1>9, <1>10, <1>11

\* The blocks of texts that are put together, and of a piece of a text.
LEMMA BlocksOfBoth ==
  ASSUME CipherAssumption, NEW N \in Nat, NEW n \in Nat, NEW a \in Seq(Byte), NEW b \in Seq(Byte),
         Len(a) = N * BlockSize, Len(b) = n * BlockSize
  PROVE  /\ a \o b \in Seq(Byte) /\ Len(a \o b) = (N + n) * BlockSize
         /\ \A k \in 1..N : BlockAt(a \o b, k) = BlockAt(a, k)
         /\ \A k \in 1..n : BlockAt(a \o b, N + k) = BlockAt(b, k)
<1>1. BlockSize \in Nat \ {0}
  BY SizeIs
<1>2. a \o b \in Seq(Byte) /\ Len(a \o b) = N * BlockSize + n * BlockSize
  OBVIOUS
<1>3. N * BlockSize + n * BlockSize = (N + n) * BlockSize
  BY <1>1
<1>4. ASSUME NEW k \in 1..N  PROVE BlockAt(a \o b, k) = BlockAt(a, k)
  <2>1. \A j \in 1..BlockSize : (k - 1) * BlockSize + j \in 1..(N * BlockSize)
    BY <1>1, InText
  <2>2. \A i \in 1..(N * BlockSize) : (a \o b)[i] = a[i]
    OBVIOUS
  <2>. QED  BY <2>1, <2>2 DEF BlockAt
<1>5. ASSUME NEW k \in 1..n  PROVE BlockAt(a \o b, N + k) = BlockAt(b, k)
  <2>1. \A j \in 1..BlockSize : (k - 1) * BlockSize + j \in 1..(n * BlockSize)
    BY <1>1, InText
  <2>2. \A i \in 1..(n * BlockSize) : (a \o b)[N * BlockSize + i] = b[i]
    <3>. DEFINE x == N * BlockSize
                y == n * BlockSize
    <3>1. x \in Nat /\ y \in Nat /\ Len(a) = x /\ Len(b) = y
      BY <1>1
    <3>. HIDE DEF x, y
    <3>2. \A i \in 1..y : (a \o b)[x + i] = b[i]
      BY <3>1
    <3>. QED  BY <3>2 DEF x, y
  <2>3. \A j \in 1..BlockSize : (N + k - 1) * BlockSize + j = N * BlockSize + ((k - 1) * BlockSize + j)
    BY <1>1
  <2>. QED  BY <2>1, <2>2, <2>3 DEF BlockAt
<1>. QED  BY <1>2, <1>3, <1>4, <1>5

LEMMA BlocksOfPiece ==
  ASSUME CipherAssumption, NEW N \in Nat, NEW a \in Seq(Byte), Len(a) = N * BlockSize,
         NEW M \in 0..N, NEW n \in 0..(N - M)
  PROVE  LET p == SubSeq(a, M * BlockSize + 1, M * BlockSize + n * BlockSize)
         IN  /\ p \in Seq(Byte) /\ Len(p) = n * BlockSize
             /\ \A k \in 1..n : BlockAt(p, k) = BlockAt(a, M + k)
<1>. DEFINE p == SubSeq(a, M * BlockSize + 1, M * BlockSize + n * BlockSize)
            x == M * BlockSize
            y == n * BlockSize
<1>1. BlockSize \in Nat \ {0}
  BY SizeIs
<1>2. x \in Nat /\ y \in Nat /\ x + y <= Len(a)
  <2>1. (M + n) * BlockSize <= N * BlockSize
    <3>1. N * BlockSize - (M + n) * BlockSize = (N - M - n) * BlockSize
      BY <1>1
    <3>2. (N - M - n) * BlockSize >= 0
      <4>. DEFINE d == N - M - n
      <4>1. d \in Nat
        OBVIOUS
      <4>. HIDE DEF d
      <4>2. d * BlockSize >= 0
        BY <1>1, <4>1
      <4>. QED  BY <4>2 DEF d
    <3>. QED  BY <1>1, <3>1, <3>2
  <2>2. (M + n) * BlockSize = x + y
    BY <1>1
  <2>. QED  BY <1>1, <2>1, <2>2
<1>3. p = SubSeq(a, x + 1, x + y)
  OBVIOUS
<1>. HIDE DEF x, y, p
<1>4. p \in Seq(Byte) /\ Len(p) = y /\ \A i \in 1..y : p[i] = a[x + i]
  <2>1. \A i \in (x + 1)..(x + y) : i \in 1..Len(a)
    BY <1>2
  <2>. QED  BY <1>2, <1>3, <2>1
<1>5. ASSUME NEW k \in 1..n  PROVE BlockAt(p, k) = BlockAt(a, M + k)
  <2>1. \A j \in 1..BlockSize : (k - 1) * BlockSize + j \in 1..(n * BlockSize)
    BY <1>1, InText
  <2>2. \A j \in 1..BlockSize : (M + k - 1) * BlockSize + j = M * BlockSize + ((k - 1) * BlockSize + j)
    BY <1>1
  <2>. QED  BY <1>4, <2>1, <2>2 DEF BlockAt, x, y
<1>. QED  BY <1>4, <1>5 DEF p, x, y

-----------------------------------------------------------------------------
(* CipherModes: a text that was encrypted.                                 *)

\* The text P of N blocks became w, with the contexts t, of which x is the last.
Enciphers(P, w, x, t, N) ==
  /\ N \in Nat
  /\ P \in Seq(Byte) /\ w \in Seq(Byte) /\ Len(P) = N * BlockSize /\ Len(w) = N * BlockSize
  /\ t \in [0..N -> Ctx] /\ t[0] = Context(iv) /\ t[N] = x
  /\ \A k \in 1..N : LET r == Operated(TRUE, t[k - 1], BlockAt(P, k))
                     IN  r.ctx = t[k] /\ r.out = BlockAt(w, k)

CutIn(s, n) == s \in Seq(Byte) /\ n \in Nat /\ Len(s) = n * BlockSize

\* The text s is sent after that.
Onward(P, w, x, t, N, s, n) ==
  \E u : /\ Enciphers(P \o s, w \o Call(TRUE, x, s).out, Call(TRUE, x, s).ctx, u, N + n)
         /\ \A k \in 0..N : u[k] = t[k]

LEMMA Sends ==
  ASSUME CipherAssumption, Keyed, NEW N, NEW P, NEW w, NEW x, NEW t, Enciphers(P, w, x, t, N),
         NEW n, NEW s, CutIn(s, n)
  PROVE  Onward(P, w, x, t, N, s, n)
<1>. N \in Nat /\ n \in Nat /\ s \in Seq(Byte) /\ Len(s) = n * BlockSize
  BY DEF CutIn, Enciphers
<1>1. BlockSize \in Nat \ {0}
  BY SizeIs
<1>2. /\ P \in Seq(Byte) /\ w \in Seq(Byte) /\ Len(P) = N * BlockSize /\ Len(w) = N * BlockSize
      /\ t \in [0..N -> Ctx] /\ t[0] = Context(iv) /\ t[N] = x /\ x \in Ctx
  BY DEF Enciphers
<1>3. ASSUME NEW k \in 1..N
      PROVE  /\ Operated(TRUE, t[k - 1], BlockAt(P, k)).ctx = t[k]
             /\ Operated(TRUE, t[k - 1], BlockAt(P, k)).out = BlockAt(w, k)
  BY DEF Enciphers
<1>. DEFINE o == Call(TRUE, x, s).out
            y == Call(TRUE, x, s).ctx
<1>4. PICK at \in [0..n -> Ctx] :
        /\ CtxAlong(TRUE, x, s, n, at)
        /\ Call(TRUE, x, s) =
             [ctx |-> at[n],
              out |-> [i \in 1..(n * BlockSize) |->
                 Operated(TRUE, at[(i - 1) \div BlockSize], BlockAt(s, (i - 1) \div BlockSize + 1))
                   .out[((i - 1) % BlockSize) + 1]]]
  BY <1>2, CallIs, Zenon
<1>. DEFINE outs == [i \in 1..(n * BlockSize) |->
              Operated(TRUE, at[(i - 1) \div BlockSize], BlockAt(s, (i - 1) \div BlockSize + 1))
                .out[((i - 1) % BlockSize) + 1]]
<1>a. Call(TRUE, x, s) = [ctx |-> at[n], out |-> outs]
  BY <1>4, Zenon
<1>5. y = at[n] /\ o = outs
  <2>. DEFINE answer == Call(TRUE, x, s)
  <2>1. answer = [ctx |-> at[n], out |-> outs]
    BY <1>a
  <2>. HIDE DEF outs, answer
  <2>2. answer.ctx = at[n] /\ answer.out = outs
    BY ONLY <2>1
  <2>. QED  BY <2>2 DEF answer, o, y
<1>6. o = [i \in 1..(n * BlockSize) |->
             Operated(TRUE, at[(i - 1) \div BlockSize], BlockAt(s, (i - 1) \div BlockSize + 1))
               .out[((i - 1) % BlockSize) + 1]]
  BY <1>5, Zenon
<1>. HIDE DEF outs
<1>. HIDE DEF o, y
<1>7. at[0] = x /\ \A k \in 1..n : at[k] = Operated(TRUE, at[k - 1], BlockAt(s, k)).ctx
  BY <1>4 DEF CtxAlong
<1>8. ASSUME NEW k \in 1..n
      PROVE  Operated(TRUE, at[k - 1], BlockAt(s, k)).out \in Bytes(BlockSize)
  <2>1. at[k - 1] \in Ctx /\ BlockAt(s, k) \in Bytes(BlockSize)
    BY BlockAtIs
  <2>. QED  BY <2>1, BothInverse
<1>9. o \in Seq(Byte) /\ Len(o) = n * BlockSize
  <2>1. ASSUME NEW i \in 1..(n * BlockSize)  PROVE o[i] \in Byte
    <3>1. (i - 1) \div BlockSize \in 0..(n - 1) /\ ((i - 1) % BlockSize) + 1 \in 1..BlockSize
      BY <1>1, PlaceOf
    <3>. DEFINE k == (i - 1) \div BlockSize
                j == ((i - 1) % BlockSize) + 1
    <3>2. o[i] = Operated(TRUE, at[k], BlockAt(s, k + 1)).out[j]
      BY <1>6
    <3>3. k + 1 \in 1..n /\ (k + 1) - 1 = k /\ j \in 1..BlockSize
      BY <3>1
    <3>. HIDE DEF k, j
    <3>4. Operated(TRUE, at[k], BlockAt(s, k + 1)).out \in [1..BlockSize -> Byte]
      BY <1>8, <3>3 DEF Bytes
    <3>. QED  BY <3>2, <3>3, <3>4
  <2>2. n * BlockSize \in Nat
    BY <1>1
  <2>3. o = [i \in 1..(n * BlockSize) |-> o[i]]
    BY <1>6
  <2>. QED  BY <2>1, <2>2, <2>3
<1>10. ASSUME NEW k \in 1..n
       PROVE  BlockAt(o, k) = Operated(TRUE, at[k - 1], BlockAt(s, k)).out
  <2>. DEFINE q == Operated(TRUE, at[k - 1], BlockAt(s, k)).out
  <2>1. q \in [1..BlockSize -> Byte]
    BY <1>8 DEF Bytes
  <2>2. ASSUME NEW j \in 1..BlockSize  PROVE o[(k - 1) * BlockSize + j] = q[j]
    <3>. DEFINE i == (k - 1) * BlockSize + j
    <3>1. i \in 1..(n * BlockSize) /\ k - 1 \in Nat /\ i - 1 = (k - 1) * BlockSize + j - 1
      BY <1>1, InText
    <3>2. (i - 1) \div BlockSize = k - 1 /\ (i - 1) % BlockSize = j - 1
      <4>. DEFINE a == k - 1
      <4>1. a \in Nat /\ i - 1 = a * BlockSize + j - 1
        BY <3>1
      <4>. HIDE DEF a, i
      <4>2. (a * BlockSize + j - 1) \div BlockSize = a /\ (a * BlockSize + j - 1) % BlockSize = j - 1
        BY <1>1, <4>1, Positions
      <4>3. (i - 1) \div BlockSize = a /\ (i - 1) % BlockSize = j - 1
        BY <4>1, <4>2
      <4>. QED  BY <4>3 DEF a
    <3>3. (j - 1) + 1 = j /\ (k - 1) + 1 = k
      OBVIOUS
    <3>. HIDE DEF i
    <3>4. o[i] = Operated(TRUE, at[(i - 1) \div BlockSize], BlockAt(s, (i - 1) \div BlockSize + 1))
                   .out[((i - 1) % BlockSize) + 1]
      BY <1>6, <3>1
    <3>5. o[i] = q[j]
      BY <3>2, <3>3, <3>4
    <3>. QED  BY <3>5 DEF i
  <2>3. BlockAt(o, k) = [j \in 1..BlockSize |-> q[j]]
    BY <2>2 DEF BlockAt
  <2>. QED  BY <2>1, <2>3
<1>. DEFINE u == [k \in 0..(N + n) |-> IF k <= N THEN t[k] ELSE at[k - N]]
<1>11. u \in [0..(N + n) -> Ctx]
  <2>1. \A k \in 0..(N + n) : (IF k <= N THEN t[k] ELSE at[k - N]) \in Ctx
    BY <1>2
  <2>. QED  BY <2>1
<1>12. \A k \in 0..N : u[k] = t[k]
  OBVIOUS
<1>13. ASSUME NEW k \in 0..n  PROVE u[N + k] = at[k]
  <2>1. CASE k = 0
    BY <1>2, <1>7, <2>1
  <2>2. CASE k # 0
    BY <2>2
  <2>. QED  BY <2>1, <2>2
<1>. HIDE DEF u
<1>14. ASSUME NEW k \in 1..(N + n)
       PROVE  /\ Operated(TRUE, u[k - 1], BlockAt(P \o s, k)).ctx = u[k]
              /\ Operated(TRUE, u[k - 1], BlockAt(P \o s, k)).out = BlockAt(w \o o, k)
  <2>1. CASE k \in 1..N
    <3>1. BlockAt(P \o s, k) = BlockAt(P, k) /\ BlockAt(w \o o, k) = BlockAt(w, k)
      BY <1>2, <1>9, <2>1, BlocksOfBoth
    <3>2. u[k] = t[k] /\ u[k - 1] = t[k - 1]
      BY <1>12, <2>1
    <3>. QED  BY <1>3, <2>1, <3>1, <3>2
  <2>2. CASE k \notin 1..N
    <3>. DEFINE m == k - N
    <3>1. m \in 1..n /\ k = N + m /\ k - 1 = N + (m - 1) /\ m - 1 \in 0..n
      BY <2>2
    <3>. HIDE DEF m
    <3>2. BlockAt(P \o s, k) = BlockAt(s, m) /\ BlockAt(w \o o, k) = BlockAt(o, m)
      BY <1>2, <1>9, <3>1, BlocksOfBoth
    <3>3. u[k] = at[m] /\ u[k - 1] = at[m - 1]
      BY <1>13, <3>1
    <3>. QED  BY <1>7, <1>10, <3>1, <3>2, <3>3
  <2>. QED  BY <2>1, <2>2
<1>15. u[0] = Context(iv) /\ u[N + n] = y
  BY <1>2, <1>5, <1>12, <1>13
<1>16. /\ P \o s \in Seq(Byte) /\ Len(P \o s) = (N + n) * BlockSize
       /\ w \o o \in Seq(Byte) /\ Len(w \o o) = (N + n) * BlockSize
  BY <1>2, <1>9, BlocksOfBoth
<1>17. Enciphers(P \o s, w \o o, y, u, N + n)
  <2>. N + n \in Nat
    OBVIOUS
  <2>. QED  BY <1>11, <1>14, <1>15, <1>16 DEF Enciphers
<1>. QED  BY <1>12, <1>17 DEF Onward, o, y

\* What is read with whole blocks of the wire.
Onwards(M, n, N) == N \in Nat /\ M \in 0..N /\ n \in 0..(N - M)
ReadBy(w, t, M, n) == Call(FALSE, t[M], SubSeq(w, M * BlockSize + 1, M * BlockSize + n * BlockSize))
ReadsPiece(P, w, t, M, n) ==
  LET r == ReadBy(w, t, M, n)
  IN  /\ r.ctx = t[M + n] /\ r.out \in Seq(Byte) /\ Len(r.out) = n * BlockSize
      /\ \A i \in 1..(n * BlockSize) : r.out[i] = P[M * BlockSize + i]

\* It is the text.
LEMMA Receives ==
  ASSUME CipherAssumption, Keyed, NEW P, NEW w, NEW x, NEW t, NEW N, Enciphers(P, w, x, t, N),
         NEW M, NEW n, Onwards(M, n, N)
  PROVE  ReadsPiece(P, w, t, M, n)
<1>. DEFINE r == ReadBy(w, t, M, n)
<1>. N \in Nat /\ M \in 0..N /\ n \in 0..(N - M)
  BY DEF Onwards
<1>. HIDE DEF r
<1>1. BlockSize \in Nat \ {0}
  BY SizeIs
<1>2. /\ P \in Seq(Byte) /\ w \in Seq(Byte) /\ Len(P) = N * BlockSize /\ Len(w) = N * BlockSize
      /\ t \in [0..N -> Ctx]
  BY DEF Enciphers
<1>3. ASSUME NEW k \in 1..N
      PROVE  /\ Operated(TRUE, t[k - 1], BlockAt(P, k)).ctx = t[k]
             /\ Operated(TRUE, t[k - 1], BlockAt(P, k)).out = BlockAt(w, k)
  BY DEF Enciphers
<1>4. ASSUME NEW k \in 1..N
      PROVE  /\ Operated(FALSE, t[k - 1], BlockAt(w, k)).ctx = t[k]
             /\ Operated(FALSE, t[k - 1], BlockAt(w, k)).out = BlockAt(P, k)
  <2>1. t[k - 1] \in Ctx /\ BlockAt(P, k) \in Bytes(BlockSize)
    BY <1>2, BlockAtIs
  <2>2. Operated(FALSE, t[k - 1], BlockAt(w, k)) = [ctx |-> t[k], out |-> BlockAt(P, k)]
    BY <1>3, <2>1, BothInverse
  <2>. DEFINE q == Operated(FALSE, t[k - 1], BlockAt(w, k))
              blk == BlockAt(P, k)
              after == t[k]
  <2>3. q = [ctx |-> after, out |-> blk]
    BY <2>2
  <2>. HIDE DEF q, blk, after
  <2>4. q.ctx = after /\ q.out = blk
    BY ONLY <2>3
  <2>. QED  BY <2>4 DEF q, blk, after
<1>. DEFINE s == SubSeq(w, M * BlockSize + 1, M * BlockSize + n * BlockSize)
<1>5. s \in Seq(Byte) /\ Len(s) = n * BlockSize /\ \A k \in 1..n : BlockAt(s, k) = BlockAt(w, M + k)
  BY <1>2, BlocksOfPiece
<1>6. n \in Nat /\ t[M] \in Ctx /\ r = Call(FALSE, t[M], s)
  BY <1>2 DEF r, ReadBy
<1>. HIDE DEF s
<1>7. PICK at \in [0..n -> Ctx] :
        /\ CtxAlong(FALSE, t[M], s, n, at)
        /\ Call(FALSE, t[M], s) =
             [ctx |-> at[n],
              out |-> [i \in 1..(n * BlockSize) |->
                 Operated(FALSE, at[(i - 1) \div BlockSize], BlockAt(s, (i - 1) \div BlockSize + 1))
                   .out[((i - 1) % BlockSize) + 1]]]
  <2>1. FALSE \in BOOLEAN
    OBVIOUS
  <2>. QED  BY <1>5, <1>6, <2>1, CallIs, Zenon
<1>8. at[0] = t[M] /\ \A k \in 1..n : at[k] = Operated(FALSE, at[k - 1], BlockAt(s, k)).ctx
  BY <1>7 DEF CtxAlong
<1>9. \A k \in 0..n : at[k] = t[M + k]
  <2>. DEFINE S == {k \in 0..n : at[k] = t[M + k]}
  <2>1. 0 \in S
    BY <1>6, <1>8
  <2>2. ASSUME NEW k \in 0..(n - 1), k \in S  PROVE k + 1 \in S
    <3>1. /\ k + 1 \in 1..n /\ (k + 1) - 1 = k /\ at[k] = t[M + k]
          /\ M + (k + 1) \in 1..N /\ (M + (k + 1)) - 1 = M + k
      BY <2>2
    <3>2. at[k + 1] = Operated(FALSE, t[M + k], BlockAt(w, M + (k + 1))).ctx
      BY <1>5, <1>8, <3>1
    <3>3. Operated(FALSE, t[M + k], BlockAt(w, M + (k + 1))).ctx = t[M + (k + 1)]
      <4>. DEFINE a == M + (k + 1)
      <4>1. a \in 1..N /\ a - 1 = M + k
        BY <3>1
      <4>. HIDE DEF a
      <4>2. Operated(FALSE, t[M + k], BlockAt(w, a)).ctx = t[a]
        BY <1>4, <4>1
      <4>. QED  BY <4>2 DEF a
    <3>4. at[k + 1] = t[M + (k + 1)]
      BY <3>2, <3>3
    <3>. QED  BY <3>1, <3>4
  <2>. HIDE DEF S
  <2>3. \A k \in 0..n : k \in S
    BY <1>6, <2>1, <2>2, Upward
  <2>. QED  BY <2>3 DEF S
<1>. DEFINE outs == [i \in 1..(n * BlockSize) |->
              Operated(FALSE, at[(i - 1) \div BlockSize], BlockAt(s, (i - 1) \div BlockSize + 1))
                .out[((i - 1) % BlockSize) + 1]]
<1>a. r = [ctx |-> at[n], out |-> outs]
  BY <1>6, <1>7, Zenon
<1>10. r.ctx = t[M + n]
  <2>. HIDE DEF outs
  <2>1. r.ctx = at[n]
    BY ONLY <1>a
  <2>2. n \in 0..n
    BY <1>6
  <2>. QED  BY <1>9, <2>1, <2>2
<1>b. r.out = outs
  <2>. HIDE DEF outs
  <2>. QED  BY ONLY <1>a
<1>11. r.out = [i \in 1..(n * BlockSize) |->
                 Operated(FALSE, at[(i - 1) \div BlockSize], BlockAt(s, (i - 1) \div BlockSize + 1))
                   .out[((i - 1) % BlockSize) + 1]]
  BY <1>b, Zenon
<1>. HIDE DEF outs
<1>12. ASSUME NEW i \in 1..(n * BlockSize)
       PROVE  r.out[i] = P[M * BlockSize + i] /\ P[M * BlockSize + i] \in Byte
  <2>. DEFINE k == (i - 1) \div BlockSize
              j == ((i - 1) % BlockSize) + 1
  <2>1. k \in 0..(n - 1) /\ j \in 1..BlockSize /\ i = k * BlockSize + j
    <3>1. (i - 1) \div BlockSize \in 0..(n - 1) /\ ((i - 1) % BlockSize) + 1 \in 1..BlockSize
      BY <1>1, <1>6, PlaceOf
    <3>2. i = ((i - 1) \div BlockSize) * BlockSize + ((i - 1) % BlockSize) + 1
      BY <1>1, <1>6, PlaceOf
    <3>3. k \in 0..(n - 1) /\ j \in 1..BlockSize
      BY <3>1
    <3>4. i = k * BlockSize + ((i - 1) % BlockSize) + 1
      BY <3>2
    <3>5. (i - 1) % BlockSize = j - 1
      BY <1>1, <3>1
    <3>. HIDE DEF k, j
    <3>6. k * BlockSize \in Nat
      BY <1>1, <3>3
    <3>. QED  BY <3>3, <3>4, <3>5, <3>6
  <2>2. r.out[i] = Operated(FALSE, at[k], BlockAt(s, k + 1)).out[j]
    BY <1>11
  <2>. HIDE DEF k, j
  <2>3. /\ k + 1 \in 1..n /\ M + (k + 1) \in 1..N /\ (M + (k + 1)) - 1 = M + k
        /\ k \in 0..n
    BY <2>1
  <2>4. Operated(FALSE, at[k], BlockAt(s, k + 1)).out = BlockAt(P, M + (k + 1))
    <3>. DEFINE a == M + (k + 1)
    <3>1. a \in 1..N /\ a - 1 = M + k
      BY <2>3
    <3>2. at[k] = t[M + k] /\ BlockAt(s, k + 1) = BlockAt(w, a)
      BY <1>5, <1>9, <2>3
    <3>. HIDE DEF a
    <3>3. Operated(FALSE, t[M + k], BlockAt(w, a)).out = BlockAt(P, a)
      BY <1>4, <3>1
    <3>4. Operated(FALSE, at[k], BlockAt(s, k + 1)).out = BlockAt(P, a)
      BY <3>2, <3>3
    <3>. QED  BY <3>4 DEF a
  <2>5. r.out[i] = BlockAt(P, M + (k + 1))[j]
    BY <2>2, <2>4
  <2>6. BlockAt(P, M + (k + 1))[j] = P[(M + (k + 1) - 1) * BlockSize + j]
    BY <2>1 DEF BlockAt
  <2>7. (M + (k + 1) - 1) * BlockSize + j = M * BlockSize + (k * BlockSize + j)
    BY <1>1, <2>1
  <2>8. BlockAt(P, M + (k + 1)) \in Bytes(BlockSize)
    BY <1>2, <2>3, BlockAtIs
  <2>9. BlockAt(P, M + (k + 1))[j] \in Byte
    BY <2>1, <2>8 DEF Bytes
  <2>. QED  BY <2>1, <2>5, <2>6, <2>7, <2>9
<1>13. r.out \in Seq(Byte) /\ Len(r.out) = n * BlockSize
  <2>1. n * BlockSize \in Nat
    BY <1>1, <1>6
  <2>2. \A i \in 1..(n * BlockSize) : r.out[i] \in Byte
    BY <1>12
  <2>3. r.out = [i \in 1..(n * BlockSize) |-> r.out[i]]
    BY <1>11
  <2>. QED  BY <2>1, <2>2, <2>3
<1>. QED  BY <1>10, <1>12, <1>13 DEF ReadsPiece, r

-----------------------------------------------------------------------------
(* CipherModes: a text on its way.                                         *)

\* P is the text pl, with its padding once it is ended.
Sealed(P, pl, e) ==
  /\ pl \in Seq(Byte) /\ \A i \in 1..Len(pl) : P[i] = pl[i]
  /\ e = "open" => Len(P) = Len(pl)
  /\ e = "padded" =>
       \E m \in 1..BlockSize : Len(P) = Len(pl) + m /\ P[Len(P)] = m

\* M blocks of P were read, with the context that they were written with.
ReadUpTo(P, t, rc, op, pl, M) ==
  /\ op \in Seq(Byte) /\ rc = t[M] /\ Len(op) = M * BlockSize /\ Len(op) <= Len(pl)
  /\ \A i \in 1..Len(op) : op[i] = P[i]

OnItsWay(P, t, N, M, w, x, pl, e, rc, op) ==
  /\ M \in 0..N
  /\ Enciphers(P, w, x, t, N)
  /\ Sealed(P, pl, e)
  /\ ReadUpTo(P, t, rc, op, pl, M)

CipherInv ==
  /\ Keyed /\ end \in {"open", "padded", "read"}
  /\ end = "read" => opened = plain /\ plain \in Seq(Byte)
  /\ end # "read" =>
       \E P, t, N, M : OnItsWay(P, t, N, M, wire, sender, plain, end, receiver, opened)

LEMMA SameKey ==
  ASSUME UNCHANGED <<mode, cipher, iv>>
  PROVE  /\ Context(iv)' = Context(iv) /\ Keyed' = Keyed
         /\ \A e, c, u : Operated(e, c, u)' = Operated(e, c, u)
         /\ \A s, k : BlockAt(s, k)' = BlockAt(s, k)
<1>1. \A s, k : BlockAt(s, k)' = BlockAt(s, k)
  BY DEF BlockAt
<1>2. \A b : Enciphered(b)' = Enciphered(b) /\ Deciphered(b)' = Deciphered(b)
  BY DEF Enciphered, Deciphered
<1>3. \A c, b : EncryptBlock(c, b)' = EncryptBlock(c, b) /\ DecryptBlock(c, b)' = DecryptBlock(c, b)
  BY <1>2 DEF EncryptBlock, DecryptBlock, CbcEncrypt, CbcDecrypt, CfbEncrypt, CfbDecrypt,
              OfbOperate, CtrOperate
<1>4. \A e, c, u : Operated(e, c, u)' = Operated(e, c, u)
  BY <1>3 DEF Operated
<1>5. Context(iv)' = Context(iv) /\ Keyed' = Keyed
  BY DEF Context, Keyed
<1>. QED  BY <1>1, <1>4, <1>5

LEMMA StillOnItsWay ==
  ASSUME UNCHANGED <<mode, cipher, iv>>,
         NEW P, NEW t, NEW N, NEW M, NEW w, NEW x, NEW pl, NEW e, NEW rc, NEW op,
         OnItsWay(P, t, N, M, w, x, pl, e, rc, op)
  PROVE  OnItsWay(P, t, N, M, w, x, pl, e, rc, op)'
<1>1. Enciphers(P, w, x, t, N)'
  <2>1. \A k \in 1..N : /\ Operated(TRUE, t[k - 1], BlockAt(P, k))' = Operated(TRUE, t[k - 1], BlockAt(P, k))
                        /\ BlockAt(w, k)' = BlockAt(w, k)
    BY SameKey
  <2>. QED  BY <2>1, SameKey DEF Enciphers, OnItsWay
<1>2. Sealed(P, pl, e)'
  BY DEF Sealed, OnItsWay
<1>3. ReadUpTo(P, t, rc, op, pl, M)'
  BY SameKey DEF ReadUpTo, OnItsWay
<1>. QED  BY <1>1, <1>2, <1>3 DEF OnItsWay

-----------------------------------------------------------------------------
(* Every step keeps that.                                                  *)

\* What is sent of the piece s, and how the text is ended by it.
Sending(s, p, n, e) ==
  /\ CutIn(p, n) /\ s \in Seq(Byte)
  /\ Len(s) <= Len(p) /\ \A i \in 1..Len(s) : p[i] = s[i]
  /\ e = "open" => Len(p) = Len(s)
  /\ e = "padded" =>
       \E m \in 1..BlockSize : Len(p) = Len(s) + m /\ p[Len(p)] = m

LEMMA SentAfter ==
  ASSUME CipherAssumption, Keyed,
         NEW P, NEW t, NEW N, NEW M, NEW w, NEW x, NEW pl, NEW rc, NEW op,
         OnItsWay(P, t, N, M, w, x, pl, "open", rc, op),
         NEW s, NEW p, NEW n, NEW e, Sending(s, p, n, e)
  PROVE  \E u : OnItsWay(P \o p, u, N + n, M, w \o Call(TRUE, x, p).out, Call(TRUE, x, p).ctx,
                         pl \o s, e, rc, op)
<1>1. /\ Enciphers(P, w, x, t, N) /\ Sealed(P, pl, "open") /\ ReadUpTo(P, t, rc, op, pl, M)
      /\ CutIn(p, n)
  BY DEF OnItsWay, Sending
<1>2. PICK u : /\ Enciphers(P \o p, w \o Call(TRUE, x, p).out, Call(TRUE, x, p).ctx, u, N + n)
               /\ \A k \in 0..N : u[k] = t[k]
  <2>1. Onward(P, w, x, t, N, p, n)
    BY <1>1, Sends
  <2>. QED  BY <2>1 DEF Onward
<1>3. P \in Seq(Byte) /\ pl \in Seq(Byte) /\ Len(P) = Len(pl) /\ \A i \in 1..Len(pl) : P[i] = pl[i]
  BY <1>1 DEF Enciphers, Sealed
<1>4. p \in Seq(Byte) /\ s \in Seq(Byte) /\ Len(s) <= Len(p) /\ \A i \in 1..Len(s) : p[i] = s[i]
  BY DEF Sending, CutIn
<1>5. /\ Len(P \o p) = Len(P) + Len(p)
      /\ \A i \in 1..Len(P) : (P \o p)[i] = P[i]
      /\ \A i \in 1..Len(p) : (P \o p)[Len(P) + i] = p[i]
  BY <1>3, <1>4, Joining
<1>6. /\ pl \o s \in Seq(Byte) /\ Len(pl \o s) = Len(pl) + Len(s)
      /\ \A i \in 1..Len(pl) : (pl \o s)[i] = pl[i]
      /\ \A i \in 1..Len(s) : (pl \o s)[Len(pl) + i] = s[i]
  BY <1>3, <1>4, Joining
<1>7. M \in 0..N /\ N \in Nat /\ n \in Nat /\ Len(pl) \in Nat /\ Len(s) \in Nat /\ Len(p) \in Nat
  BY <1>1, <1>3, <1>4 DEF OnItsWay, Enciphers, CutIn
<1>. DEFINE Q == P \o p
            q == pl \o s
<1>. HIDE DEF Q, q
<1>8. \A i \in 1..Len(q) : Q[i] = q[i]
  <2>1. SUFFICES ASSUME NEW i \in 1..Len(q)  PROVE Q[i] = q[i]
    OBVIOUS
  <2>2. CASE i \in 1..Len(pl)
    BY <1>3, <1>5, <1>6, <2>2 DEF Q, q
  <2>3. CASE i \notin 1..Len(pl)
    <3>. DEFINE j == i - Len(pl)
    <3>1. Len(q) = Len(pl) + Len(s)
      BY <1>6 DEF q
    <3>2. j \in 1..Len(s) /\ i = Len(pl) + j
      BY <1>7, <2>3, <3>1
    <3>. HIDE DEF j
    <3>3. j \in 1..Len(p)
      BY <1>4, <1>7, <3>2
    <3>4. q[i] = s[j] /\ Q[i] = p[j] /\ p[j] = s[j]
      BY <1>3, <1>4, <1>5, <1>6, <3>2, <3>3 DEF Q, q
    <3>. QED  BY <3>4
  <2>. QED  BY <2>2, <2>3
<1>9. Len(q) = Len(pl) + Len(s) /\ Len(Q) = Len(pl) + Len(p) /\ q \in Seq(Byte)
  BY <1>3, <1>5, <1>6 DEF Q, q
<1>10. e = "open" => Len(Q) = Len(q)
  BY <1>7, <1>9 DEF Sending
<1>11. ASSUME e = "padded"
       PROVE  \E m \in 1..BlockSize : Len(Q) = Len(q) + m /\ Q[Len(Q)] = m
  <2>1. PICK m \in 1..BlockSize : Len(p) = Len(s) + m /\ p[Len(p)] = m
    BY <1>11 DEF Sending
  <2>3. Len(p) \in 1..Len(p)
    BY <1>7, <2>1
  <2>4. Q[Len(P) + Len(p)] = p[Len(p)]
    BY <1>5, <2>3 DEF Q
  <2>5. Len(Q) = Len(q) + m
    BY <1>7, <1>9, <2>1
  <2>6. Q[Len(Q)] = m
    BY <1>3, <1>9, <2>1, <2>4
  <2>. QED  BY <2>5, <2>6
<1>12. Sealed(Q, q, e)
  BY <1>8, <1>9, <1>10, <1>11 DEF Sealed
<1>13. ReadUpTo(Q, u, rc, op, q, M)
  <2>1. /\ op \in Seq(Byte) /\ rc = t[M] /\ Len(op) = M * BlockSize /\ Len(op) <= Len(pl)
        /\ \A i \in 1..Len(op) : op[i] = P[i]
    BY <1>1 DEF ReadUpTo
  <2>2. rc = u[M]
    BY <1>2, <1>7, <2>1
  <2>3. Len(op) \in Nat
    BY <2>1
  <2>4. \A i \in 1..Len(op) : op[i] = Q[i]
    <3>1. \A i \in 1..Len(op) : i \in 1..Len(P)
      BY <1>3, <1>7, <2>1, <2>3
    <3>. QED  BY <1>5, <2>1, <3>1 DEF Q
  <2>5. Len(op) <= Len(q)
    BY <1>7, <1>9, <2>1, <2>3
  <2>. QED  BY <2>1, <2>2, <2>4, <2>5 DEF ReadUpTo
<1>14. M \in 0..(N + n)
  BY <1>7
<1>. QED  BY <1>2, <1>12, <1>13, <1>14 DEF OnItsWay, Q, q

LEMMA TextIs ==
  ASSUME CipherAssumption, NEW n \in Nat, NEW s \in [1..n -> PlainByte]
  PROVE  s \in Seq(Byte) /\ Len(s) = n
<1>1. PlainByte \subseteq Byte
  BY DEF CipherAssumption
<1>. QED  BY <1>1

LEMMA EncryptKeeps ==
  ASSUME CipherAssumption, CipherInv, NEW n \in Nat, NEW s \in [1..n -> PlainByte], Encrypt(s)
  PROVE  CipherInv'
<1>1. /\ Keyed /\ end = "open" /\ UNCHANGED <<mode, cipher, iv, receiver, opened, end>>
      /\ WholeBlocks(Len(s)) /\ plain' = plain \o s
      /\ wire' = wire \o Call(TRUE, sender, s).out /\ sender' = Call(TRUE, sender, s).ctx
  BY DEF CipherInv, Encrypt, Sent
<1>2. PICK P, t, N, M : OnItsWay(P, t, N, M, wire, sender, plain, "open", receiver, opened)
  BY <1>1 DEF CipherInv
<1>3. s \in Seq(Byte) /\ Len(s) = n /\ n % BlockSize = 0
  BY <1>1, TextIs DEF WholeBlocks
<1>. DEFINE q == n \div BlockSize
<1>4. q \in Nat /\ n = q * BlockSize
  BY <1>3, SizeIs, WholeIs
<1>. HIDE DEF q
<1>5. Sending(s, s, q, "open")
  BY <1>3, <1>4 DEF Sending, CutIn
<1>6. PICK u : OnItsWay(P \o s, u, N + q, M, wire \o Call(TRUE, sender, s).out,
                        Call(TRUE, sender, s).ctx, plain \o s, "open", receiver, opened)
  BY <1>1, <1>2, <1>5, SentAfter, Zenon
<1>7. PICK w, x, pl, rc, op, Q, K :
        /\ w = wire' /\ x = sender' /\ pl = plain' /\ rc = receiver' /\ op = opened'
        /\ Q = P \o s /\ K = N + q
  OBVIOUS
<1>8. OnItsWay(Q, u, K, M, w, x, pl, "open", rc, op)
  BY <1>1, <1>6, <1>7
<1>9. OnItsWay(Q, u, K, M, w, x, pl, "open", rc, op)'
  BY <1>1, <1>8, StillOnItsWay, Zenon
<1>10. Keyed' /\ end' = "open"
  BY <1>1, SameKey
<1>. QED  BY <1>7, <1>9, <1>10 DEF CipherInv

LEMMA PaddedIs ==
  ASSUME CipherAssumption, NEW s \in Seq(Byte)
  PROVE  /\ Padded(s) \in Seq(Byte) /\ Len(Padded(s)) % BlockSize = 0
         /\ \A i \in 1..Len(s) : Padded(s)[i] = s[i]
         /\ \E m \in 1..BlockSize : Len(Padded(s)) = Len(s) + m /\ Padded(s)[Len(Padded(s))] = m
<1>. DEFINE m == BlockSize - (Len(s) % BlockSize)
            f == [i \in 1..m |-> m]
<1>1. BlockSize \in Nat \ {0} /\ 2^ByteBits \in Nat /\ BlockSize < 2^ByteBits
  BY DEF CipherAssumption
<1>2. m \in 1..BlockSize /\ (Len(s) + m) % BlockSize = 0
  <2>1. \A k \in Nat : BlockSize - (k % BlockSize) \in 1..BlockSize
                       /\ (k + (BlockSize - (k % BlockSize))) % BlockSize = 0
    BY <1>1, FilledUp
  <2>2. Len(s) \in Nat
    OBVIOUS
  <2>. QED  BY <2>1, <2>2
<1>3. Padded(s) = s \o f
  BY DEF Padded
<1>. HIDE DEF m
<1>4. m \in Byte
  BY <1>1, <1>2 DEF Byte
<1>5. f \in Seq(Byte) /\ Len(f) = m /\ f[m] = m
  BY <1>1, <1>2, <1>4
<1>. HIDE DEF f
<1>6. /\ s \o f \in Seq(Byte) /\ Len(s \o f) = Len(s) + Len(f)
      /\ \A i \in 1..Len(s) : (s \o f)[i] = s[i]
      /\ \A i \in 1..Len(f) : (s \o f)[Len(s) + i] = f[i]
  BY <1>5, Joining
<1>7. Len(s \o f) = Len(s) + m /\ (s \o f)[Len(s) + m] = m
  BY <1>1, <1>2, <1>5, <1>6
<1>. QED  BY <1>2, <1>3, <1>6, <1>7

LEMMA EncryptBytesKeeps ==
  ASSUME CipherAssumption, CipherInv, NEW n \in Nat, NEW s \in [1..n -> PlainByte], EncryptBytes(s)
  PROVE  CipherInv'
<1>. DEFINE p == Padded(s)
<1>1. /\ Keyed /\ end = "open" /\ end' = "padded" /\ UNCHANGED <<mode, cipher, iv, receiver, opened>>
      /\ plain' = plain \o s
      /\ wire' = wire \o Call(TRUE, sender, p).out /\ sender' = Call(TRUE, sender, p).ctx
  BY DEF CipherInv, EncryptBytes, Sent
<1>2. PICK P, t, N, M : OnItsWay(P, t, N, M, wire, sender, plain, "open", receiver, opened)
  BY <1>1 DEF CipherInv
<1>3. s \in Seq(Byte)
  BY TextIs
<1>4. /\ p \in Seq(Byte) /\ Len(p) % BlockSize = 0
      /\ \A i \in 1..Len(s) : p[i] = s[i]
      /\ \E m \in 1..BlockSize : Len(p) = Len(s) + m /\ p[Len(p)] = m
  BY <1>3, PaddedIs
<1>. HIDE DEF p
<1>5. Len(p) \in Nat /\ Len(s) <= Len(p)
  <2>1. BlockSize \in Nat
    BY DEF CipherAssumption
  <2>. QED  BY <1>3, <1>4, <2>1
<1>. DEFINE q == Len(p) \div BlockSize
<1>6. q \in Nat /\ Len(p) = q * BlockSize
  BY <1>4, <1>5, SizeIs, WholeIs
<1>. HIDE DEF q
<1>7. Sending(s, p, q, "padded")
  BY <1>1, <1>3, <1>4, <1>5, <1>6 DEF Sending, CutIn
<1>8. PICK u : OnItsWay(P \o p, u, N + q, M, wire \o Call(TRUE, sender, p).out,
                        Call(TRUE, sender, p).ctx, plain \o s, "padded", receiver, opened)
  BY <1>1, <1>2, <1>7, SentAfter, Zenon
<1>9. PICK w, x, pl, rc, op, Q, K :
        /\ w = wire' /\ x = sender' /\ pl = plain' /\ rc = receiver' /\ op = opened'
        /\ Q = P \o p /\ K = N + q
  OBVIOUS
<1>10. OnItsWay(Q, u, K, M, w, x, pl, "padded", rc, op)
  BY <1>1, <1>8, <1>9
<1>11. OnItsWay(Q, u, K, M, w, x, pl, "padded", rc, op)'
  BY <1>1, <1>10, StillOnItsWay, Zenon
<1>12. Keyed' /\ end' = "padded"
  BY <1>1, SameKey
<1>. QED  BY <1>9, <1>11, <1>12 DEF CipherInv

\* There is a block more where a multiple of its size is more.
LEMMA MoreBlocks ==
  ASSUME NEW U \in Nat \ {0}, NEW a \in Nat, NEW b \in Nat, a * U <= b * U
  PROVE  a <= b
<1>1. SUFFICES ASSUME a > b  PROVE FALSE
  OBVIOUS
<1>. DEFINE d == a - b
<1>2. d \in Nat \ {0} /\ a = b + d
  BY <1>1
<1>. HIDE DEF d
<1>. DEFINE x == b * U
            y == d * U
<1>3. a * U = x + y /\ a * U <= x
  BY <1>2
<1>4. y >= 1 /\ y \in Nat /\ x \in Nat
  BY <1>2
<1>. HIDE DEF x, y
<1>5. x + y <= x
  BY <1>3
<1>. QED  BY <1>4, <1>5

LEMMA DecryptKeeps ==
  ASSUME CipherAssumption, CipherInv, NEW n \in Nat, Decrypt(n)
  PROVE  CipherInv'
<1>. DEFINE r == Received(n)
<1>1. /\ Keyed /\ end \in {"open", "padded"} /\ UNCHANGED <<mode, cipher, iv, sender, plain, wire, end>>
      /\ WholeBlocks(n) /\ Len(opened) + n <= PaddedFrom
      /\ opened' = opened \o r.out /\ receiver' = r.ctx
  BY DEF CipherInv, Decrypt
<1>2. PICK P, t, N, M : OnItsWay(P, t, N, M, wire, sender, plain, end, receiver, opened)
  BY <1>1 DEF CipherInv
<1>3. /\ M \in 0..N /\ N \in Nat /\ Enciphers(P, wire, sender, t, N)
      /\ P \in Seq(Byte) /\ Len(P) = N * BlockSize /\ Len(wire) = N * BlockSize
  BY <1>2 DEF OnItsWay, Enciphers
<1>4. /\ plain \in Seq(Byte) /\ \A i \in 1..Len(plain) : P[i] = plain[i]
      /\ end = "open" => Len(P) = Len(plain)
      /\ end = "padded" => \E m \in 1..BlockSize : Len(P) = Len(plain) + m
  BY <1>2 DEF OnItsWay, Sealed
<1>5. /\ opened \in Seq(Byte) /\ receiver = t[M] /\ Len(opened) = M * BlockSize
      /\ \A i \in 1..Len(opened) : opened[i] = P[i]
  BY <1>2 DEF OnItsWay, ReadUpTo
<1>6. BlockSize \in Nat \ {0} /\ BlockSize \in Nat \ {0}
  BY SizeIs DEF CipherAssumption
<1>7. PaddedFrom <= Len(plain) /\ Len(plain) <= Len(P)
  <2>1. Len(plain) \in Nat /\ Len(P) \in Nat /\ Len(wire) = Len(P)
    BY <1>3, <1>4
  <2>2. CASE end = "padded"
    <3>1. Len(plain) % BlockSize \in Nat
      BY <1>6, <2>1
    <3>2. PaddedFrom = Len(plain) - (Len(plain) % BlockSize)
      BY <2>2 DEF PaddedFrom
    <3>3. PICK m \in 1..BlockSize : Len(P) = Len(plain) + m
      BY <1>4, <2>2
    <3>. QED  BY <1>6, <2>1, <3>1, <3>2, <3>3
  <2>3. CASE end = "open"
    BY <1>4, <2>1, <2>3 DEF PaddedFrom
  <2>. QED  BY <1>1, <2>2, <2>3
<1>. DEFINE q == n \div BlockSize
<1>8. q \in Nat /\ n = q * BlockSize
  BY <1>1, <1>6, WholeIs DEF WholeBlocks
<1>. HIDE DEF q
<1>9. Len(opened) + n <= Len(plain) /\ M + q <= N
  <2>1. PaddedFrom \in Int
    BY <1>3, <1>4, <1>6 DEF PaddedFrom
  <2>2. Len(opened) + n <= Len(plain)
    BY <1>1, <1>4, <1>5, <1>7, <2>1
  <2>3. M * BlockSize + q * BlockSize <= N * BlockSize
    BY <1>3, <1>4, <1>5, <1>7, <1>8, <2>2
  <2>4. (M + q) * BlockSize <= N * BlockSize /\ M + q \in Nat
    BY <1>3, <1>6, <1>8, <2>3
  <2>. QED  BY <1>3, <1>6, <2>2, <2>4, MoreBlocks
<1>10. ReadsPiece(P, wire, t, M, q)
  <2>1. Onwards(M, q, N)
    BY <1>3, <1>8, <1>9 DEF Onwards
  <2>. QED  BY <1>1, <1>3, <2>1, Receives
<1>11. r = ReadBy(wire, t, M, q)
  BY <1>5, <1>8 DEF Received, ReadBy
<1>. HIDE DEF r
<1>12. /\ r.ctx = t[M + q] /\ r.out \in Seq(Byte) /\ Len(r.out) = n
       /\ \A i \in 1..n : r.out[i] = P[Len(opened) + i]
  BY <1>5, <1>8, <1>10, <1>11 DEF ReadsPiece
<1>. DEFINE out == r.out
            op == opened \o out
<1>13. /\ op \in Seq(Byte) /\ Len(op) = Len(opened) + n
       /\ \A i \in 1..Len(opened) : op[i] = opened[i]
       /\ \A i \in 1..n : op[Len(opened) + i] = out[i]
  <2>1. out \in Seq(Byte) /\ Len(out) = n
    BY <1>12
  <2>. HIDE DEF out
  <2>. QED  BY <1>5, <2>1, Joining
<1>. HIDE DEF op
<1>14. ReadUpTo(P, t, r.ctx, op, plain, M + q)
  <2>1. Len(op) = (M + q) * BlockSize
    BY <1>3, <1>5, <1>6, <1>8, <1>13
  <2>2. ASSUME NEW i \in 1..Len(op)  PROVE op[i] = P[i]
    <3>1. CASE i \in 1..Len(opened)
      BY <1>5, <1>13, <3>1
    <3>2. CASE i \notin 1..Len(opened)
      <4>. DEFINE j == i - Len(opened)
      <4>1. Len(opened) \in Nat
        BY <1>5
      <4>2. j \in 1..n /\ i = Len(opened) + j
        BY <1>13, <3>2, <4>1
      <4>. HIDE DEF j
      <4>. QED  BY <1>12, <1>13, <4>2
    <3>. QED  BY <3>1, <3>2
  <2>3. Len(op) <= Len(plain)
    BY <1>9, <1>13
  <2>. QED  BY <1>12, <1>13, <2>1, <2>2, <2>3 DEF ReadUpTo
<1>15. OnItsWay(P, t, N, M + q, wire, sender, plain, end, r.ctx, op)
  <2>1. M + q \in 0..N
    BY <1>3, <1>8, <1>9
  <2>. QED  BY <1>2, <1>14, <2>1 DEF OnItsWay
<1>16. PICK w, x, pl, e, rc, o, K :
         /\ w = wire' /\ x = sender' /\ pl = plain' /\ e = end' /\ rc = receiver' /\ o = opened'
         /\ K = M + q
  OBVIOUS
<1>17. OnItsWay(P, t, N, K, w, x, pl, e, rc, o)
  BY <1>1, <1>15, <1>16 DEF op
<1>18. OnItsWay(P, t, N, K, w, x, pl, e, rc, o)'
  BY <1>1, <1>17, StillOnItsWay, Zenon
<1>19. Keyed' /\ end' \in {"open", "padded"}
  BY <1>1, SameKey
<1>. QED  BY <1>16, <1>18, <1>19 DEF CipherInv

LEMMA DecryptBytesKeeps ==
  ASSUME CipherAssumption, CipherInv, DecryptBytes
  PROVE  CipherInv'
<1>. DEFINE d == Received(Len(wire) - Len(opened))
<1>1. /\ Keyed /\ end = "padded" /\ UNCHANGED <<mode, cipher, iv, sender, plain, wire>>
      /\ opened' = opened \o Unpadded(d.out) /\ end' = "read"
  BY DEF CipherInv, DecryptBytes
<1>2. PICK P, t, N, M : OnItsWay(P, t, N, M, wire, sender, plain, end, receiver, opened)
  BY <1>1 DEF CipherInv
<1>3. /\ M \in 0..N /\ N \in Nat /\ Enciphers(P, wire, sender, t, N)
      /\ P \in Seq(Byte) /\ Len(P) = N * BlockSize /\ Len(wire) = N * BlockSize
  BY <1>2 DEF OnItsWay, Enciphers
<1>4. /\ plain \in Seq(Byte) /\ \A i \in 1..Len(plain) : P[i] = plain[i]
      /\ \E m \in 1..BlockSize : Len(P) = Len(plain) + m /\ P[Len(P)] = m
  BY <1>1, <1>2 DEF OnItsWay, Sealed
<1>5. /\ opened \in Seq(Byte) /\ receiver = t[M] /\ Len(opened) = M * BlockSize
      /\ Len(opened) <= Len(plain) /\ \A i \in 1..Len(opened) : opened[i] = P[i]
  BY <1>2 DEF OnItsWay, ReadUpTo
<1>6. BlockSize \in Nat \ {0} /\ BlockSize \in Nat \ {0}
  BY SizeIs DEF CipherAssumption
<1>. DEFINE q == N - M
            n == Len(wire) - Len(opened)
<1>7. q \in 0..(N - M) /\ q \in Nat /\ M + q = N /\ n = q * BlockSize
  <2>1. N * BlockSize - M * BlockSize = (N - M) * BlockSize
    BY <1>3, <1>6
  <2>. QED  BY <1>3, <1>5, <2>1
<1>8. PICK m \in 1..BlockSize : Len(P) = Len(plain) + m /\ P[Len(P)] = m
  BY <1>4
<1>9. n \in Nat /\ Len(opened) \in Nat /\ Len(plain) \in Nat /\ n = Len(P) - Len(opened) /\ n >= m
  BY <1>3, <1>4, <1>5, <1>6, <1>8
<1>. HIDE DEF q, n
<1>10. ReadsPiece(P, wire, t, M, q)
  <2>1. Onwards(M, q, N)
    BY <1>3, <1>7 DEF Onwards
  <2>. QED  BY <1>1, <1>3, <2>1, Receives
<1>11. d = ReadBy(wire, t, M, q)
  <2>1. Len(opened) + n = M * BlockSize + q * BlockSize
    BY <1>5, <1>7
  <2>. QED  BY <1>5, <2>1 DEF Received, ReadBy, n
<1>. DEFINE out == d.out
<1>12. /\ out \in Seq(Byte) /\ Len(out) = n
       /\ \A i \in 1..n : out[i] = P[Len(opened) + i]
  <2>. HIDE DEF d
  <2>. QED  BY <1>5, <1>7, <1>10, <1>11 DEF ReadsPiece
<1>. HIDE DEF out
<1>13. Last(out) = m
  <2>1. n \in 1..n /\ Len(opened) + n = Len(P)
    BY <1>6, <1>8, <1>9
  <2>2. out[n] = P[Len(P)]
    BY <1>12, <2>1
  <2>. QED  BY <1>8, <1>12, <2>2 DEF Last
<1>. DEFINE k == n - m
            rest == Unpadded(out)
<1>14. k \in 0..n /\ Len(opened) + k = Len(plain)
  BY <1>8, <1>9
<1>. HIDE DEF k
<1>15. rest \in Seq(Byte) /\ Len(rest) = k /\ \A i \in 1..k : rest[i] = out[i]
  <2>1. rest = SubSeq(out, 1, k)
    BY <1>12, <1>13 DEF Unpadded, k
  <2>2. \A i \in 1..k : i \in 1..Len(out)
    BY <1>9, <1>12, <1>14
  <2>. HIDE DEF rest
  <2>. QED  BY <1>9, <1>12, <1>14, <2>1, <2>2
<1>. HIDE DEF rest
<1>16. /\ opened \o rest \in Seq(Byte) /\ Len(opened \o rest) = Len(opened) + k
       /\ \A i \in 1..Len(opened) : (opened \o rest)[i] = opened[i]
       /\ \A i \in 1..k : (opened \o rest)[Len(opened) + i] = rest[i]
  BY <1>5, <1>15, Joining
<1>. DEFINE op == opened \o rest
<1>. HIDE DEF op
<1>17. \A i \in 1..Len(plain) : op[i] = plain[i]
  <2>1. SUFFICES ASSUME NEW i \in 1..Len(plain)  PROVE op[i] = plain[i]
    OBVIOUS
  <2>2. CASE i \in 1..Len(opened)
    BY <1>4, <1>5, <1>16, <2>2 DEF op
  <2>3. CASE i \notin 1..Len(opened)
    <3>. DEFINE j == i - Len(opened)
    <3>1. j \in 1..k /\ j \in 1..n /\ i = Len(opened) + j
      BY <1>9, <1>14, <2>3
    <3>. HIDE DEF j
    <3>2. op[i] = rest[j] /\ rest[j] = out[j] /\ out[j] = P[i]
      BY <1>12, <1>15, <1>16, <3>1 DEF op
    <3>. QED  BY <1>4, <3>2
  <2>. QED  BY <2>2, <2>3
<1>18. op = plain
  <2>1. op \in Seq(Byte) /\ Len(op) = Len(plain)
    BY <1>14, <1>16 DEF op
  <2>. QED  BY <1>4, <1>17, <2>1
<1>19. opened' = plain /\ plain' = plain
  BY <1>1, <1>18 DEF op, rest, out
<1>20. Keyed' /\ end' = "read"
  BY <1>1, SameKey
<1>. QED  BY <1>4, <1>19, <1>20 DEF CipherInv

LEMMA CipherBegins == ASSUME CipherAssumption, CipherInit PROVE CipherInv
<1>. DEFINE c == Context(iv)
            t == [k \in 0..0 |-> c]
<1>1. Keyed /\ end = "open" /\ BlockSize \in Nat /\ iv \in Block
  BY DEF CipherInit, Keyed, CipherAssumption
<1>2. c \in Ctx
  BY <1>1 DEF Context, Ctx
<1>3. /\ wire = <<>> /\ plain = <<>> /\ opened = <<>> /\ sender = c /\ receiver = c
  BY DEF CipherInit
<1>. HIDE DEF c
<1>4. BlockSize \in Nat \ {0}
  BY SizeIs
<1>5. t \in [0..0 -> Ctx] /\ t[0] = c
  BY <1>2
<1>. HIDE DEF t
<1>6. 0 * BlockSize = 0 /\ <<>> \in Seq(Byte) /\ Len(<<>>) = 0
  BY <1>4
<1>7. Enciphers(<<>>, <<>>, c, t, 0)
  BY <1>5, <1>6 DEF Enciphers, c
<1>8. Sealed(<<>>, <<>>, "open") /\ ReadUpTo(<<>>, t, c, <<>>, <<>>, 0)
  BY <1>5, <1>6 DEF Sealed, ReadUpTo
<1>9. OnItsWay(<<>>, t, 0, 0, wire, sender, plain, end, receiver, opened)
  BY <1>1, <1>3, <1>7, <1>8 DEF OnItsWay
<1>. QED  BY <1>1, <1>9 DEF CipherInv

LEMMA CipherSteps == ASSUME CipherAssumption, CipherInv, [CipherNext]_cipherVars PROVE CipherInv'
<1>1. \A n \in 0..(2 * BlockSize) : n \in Nat
  OBVIOUS
<1>2. BlockSize \in Nat
  BY DEF CipherAssumption
<1>3. ASSUME NEW n \in 1..(2 * BlockSize), NEW s \in [1..n -> PlainByte], Encrypt(s)  PROVE CipherInv'
  BY <1>3, EncryptKeeps
<1>4. ASSUME NEW n \in 0..BlockSize, NEW s \in [1..n -> PlainByte], EncryptBytes(s)  PROVE CipherInv'
  BY <1>4, EncryptBytesKeeps
<1>5. ASSUME NEW n \in 1..(2 * BlockSize), Decrypt(n)  PROVE CipherInv'
  BY <1>5, DecryptKeeps
<1>6. ASSUME DecryptBytes  PROVE CipherInv'
  BY <1>6, DecryptBytesKeeps
<1>7. ASSUME UNCHANGED cipherVars  PROVE CipherInv'
  <2>1. UNCHANGED <<mode, cipher, iv>> /\ Keyed
    BY <1>7 DEF cipherVars, CipherInv
  <2>2. CASE end = "read"
    BY <1>7, <2>1, <2>2, SameKey DEF cipherVars, CipherInv
  <2>3. CASE end # "read"
    <3>1. PICK P, t, N, M : OnItsWay(P, t, N, M, wire, sender, plain, end, receiver, opened)
      BY <2>3 DEF CipherInv
    <3>2. PICK w, x, pl, e, rc, o :
            w = wire' /\ x = sender' /\ pl = plain' /\ e = end' /\ rc = receiver' /\ o = opened'
      OBVIOUS
    <3>3. OnItsWay(P, t, N, M, w, x, pl, e, rc, o)
      BY <1>7, <3>1, <3>2 DEF cipherVars
    <3>4. OnItsWay(P, t, N, M, w, x, pl, e, rc, o)'
      BY <2>1, <3>3, StillOnItsWay, Zenon
    <3>5. Keyed' /\ end' \in {"open", "padded", "read"} /\ end' # "read"
      BY <1>7, <2>1, <2>3, SameKey DEF cipherVars, CipherInv
    <3>. QED  BY <3>2, <3>4, <3>5 DEF CipherInv
  <2>. QED  BY <2>2, <2>3
<1>. QED  BY <1>3, <1>4, <1>5, <1>6, <1>7 DEF CipherNext

LEMMA TextIsTold == ASSUME CipherAssumption, CipherInv PROVE Deciphers
<1>1. CASE end = "read"
  BY <1>1 DEF CipherInv, Deciphers, IsPrefix
<1>2. CASE end # "read"
  <2>1. PICK P, t, N, M : OnItsWay(P, t, N, M, wire, sender, plain, end, receiver, opened)
    BY <1>2 DEF CipherInv
  <2>2. /\ plain \in Seq(Byte) /\ \A i \in 1..Len(plain) : P[i] = plain[i]
        /\ opened \in Seq(Byte) /\ Len(opened) <= Len(plain) /\ \A i \in 1..Len(opened) : opened[i] = P[i]
    BY <2>1 DEF OnItsWay, Sealed, ReadUpTo
  <2>3. \A i \in 1..Len(opened) : opened[i] = plain[i]
    BY <2>2
  <2>. QED  BY <1>2, <2>2, <2>3 DEF Deciphers, IsPrefix
<1>. QED  BY <1>1, <1>2

\* However a text is cut on either side, in each mode and with any cipher of
\* blocks, what is decrypted is the text, and all of it once its padding is read
\* (modes.c, module.c).
THEOREM TextsArrive == ASSUME CipherAssumption PROVE CipherSpec => []Deciphers
<1>1. CipherInit => CipherInv
  BY CipherBegins
<1>2. CipherInv /\ [CipherNext]_cipherVars => CipherInv'
  BY CipherSteps
<1>3. CipherInv => Deciphers
  BY TextIsTold
<1>. QED  BY <1>1, <1>2, <1>3, PTL DEF CipherSpec
=============================================================================
