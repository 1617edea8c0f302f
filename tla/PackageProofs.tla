---------------------------- MODULE PackageProofs ----------------------------
(***************************************************************************)
(* Proofs about Package, for any packages, names, definitions of packages  *)
(* and bounds.                                                             *)
(***************************************************************************)
EXTENDS Package, WellFoundedInduction, TLAPS

(***************************************************************************)
(* Searches.                                                               *)
(***************************************************************************)

\* The first of some places is one of them, and before the others.
LEMMA FirstIsLeast ==
  ASSUME NEW places \in SUBSET Nat, places # {}
  PROVE  FirstOf(places) \in places /\ \A j \in places : FirstOf(places) <= j
<1>1. PICK i \in places : \A j \in places : ~(<<j, i>> \in OpToRel(<, Nat))
  BY NatLessThanWellFounded, WFMin, Zenon
<1>2. OpToRel(<, Nat) = {ss \in Nat \X Nat : ss[1] < ss[2]}
  BY DEF OpToRel
<1>3. \A j \in places : i <= j
  <2>1. SUFFICES ASSUME NEW j \in places, j < i
                 PROVE  FALSE
    OBVIOUS
  <2>2. <<j, i>> \in {ss \in Nat \X Nat : ss[1] < ss[2]}
    BY <2>1
  <2>. QED  BY <1>1, <1>2, <2>2
<1>. QED  BY <1>3 DEF FirstOf

LEMMA FirstIsOne ==
  ASSUME NEW places \in SUBSET Nat, places # {}
  PROVE  FirstOf(places) \in places
  BY FirstIsLeast

\* What pkg_find_symbol finds is a symbol of that package and that name, and it
\* finds one if there is one.
LEMMA PkgFindFinds ==
  ASSUME NEW pkg, NEW name, Len(symbols) \in Nat
  PROVE  /\ PkgFind(pkg, name) # NoSymbol <=> Interned(pkg, name) # {}
         /\ PkgFind(pkg, name) # NoSymbol => PkgFind(pkg, name) \in Interned(pkg, name)
         /\ PkgFind(pkg, name) \in Symbol \union {NoSymbol}
<1>1. Interned(pkg, name) \subseteq Symbol /\ NoSymbol \notin Symbol
  BY DEF Interned, Symbol, NoSymbol
<1>. QED  BY <1>1 DEF PkgFind

-----------------------------------------------------------------------------
(***************************************************************************)
(* The types.                                                              *)
(***************************************************************************)

\* What a search for an exported symbol finds is a symbol that the package has
\* or exports.
LEMMA FindExportedFinds ==
  ASSUME TypeOK, NEW pkg \in Pkg, NEW name
  PROVE  /\ FindExported(pkg, name) \in Symbol \union {NoSymbol}
         /\ FindExported(pkg, name) # NoSymbol =>
              /\ symbols[FindExported(pkg, name)].name = name
              /\ \/ symbols[FindExported(pkg, name)].home = pkg
                 \/ Member(FindExported(pkg, name), exported_symbols[pkg])
<1>0. Len(symbols) \in Nat /\ exported_symbols[pkg] \in Seq(Symbol)
  BY DEF TypeOK
<1>1. CASE exported_symbols[pkg] = <<>>
  <2>1. FindExported(pkg, name) = PkgFind(pkg, name)
    BY <1>1 DEF FindExported
  <2>2. \A s \in Interned(pkg, name) :
          s \in Symbol /\ symbols[s].name = name /\ symbols[s].home = pkg
    BY DEF Interned
  <2>. QED  BY <1>0, <2>1, <2>2, PkgFindFinds
<1>2. CASE exported_symbols[pkg] # <<>> /\ ExportedAt(pkg, name) = {}
  BY <1>2 DEF FindExported, NoSymbol
<1>3. CASE exported_symbols[pkg] # <<>> /\ ExportedAt(pkg, name) # {}
  <2>1. ExportedAt(pkg, name) \in SUBSET Nat
    BY <1>0 DEF ExportedAt
  <2>2. FirstOf(ExportedAt(pkg, name)) \in ExportedAt(pkg, name)
    BY <1>3, <2>1, FirstIsOne
  <2>3. FindExported(pkg, name) = exported_symbols[pkg][FirstOf(ExportedAt(pkg, name))]
    BY <1>3 DEF FindExported
  <2>4. PICK i \in DOMAIN exported_symbols[pkg] :
          /\ FindExported(pkg, name) = exported_symbols[pkg][i]
          /\ symbols[exported_symbols[pkg][i]].name = name
    BY <2>2, <2>3 DEF ExportedAt
  <2>. QED  BY <1>0, <2>4 DEF Member
<1>. QED  BY <1>1, <1>2, <1>3

\* What is inherited is what the first of the packages used that exports the
\* name exports.
LEMMA InheritedFinds ==
  ASSUME TypeOK, NEW pkg \in Pkg, NEW name
  PROVE  /\ Inherited(pkg, name) \in Symbol \union {NoSymbol}
         /\ FoundAt(pkg, name) # {} =>
              \E i \in DOMAIN use_list[pkg] :
                /\ Inherited(pkg, name) = FindExported(use_list[pkg][i], name)
                /\ FindExported(use_list[pkg][i], name) # NoSymbol
<1>0. use_list[pkg] \in Seq(Pkg)
  BY DEF TypeOK
<1>1. CASE FoundAt(pkg, name) = {}
  BY <1>1 DEF Inherited, NoSymbol
<1>2. CASE FoundAt(pkg, name) # {}
  <2>1. FoundAt(pkg, name) \in SUBSET Nat
    BY <1>0 DEF FoundAt
  <2>2. FirstOf(FoundAt(pkg, name)) \in FoundAt(pkg, name)
    BY <1>2, <2>1, FirstIsOne
  <2>3. Inherited(pkg, name) = FindExported(use_list[pkg][FirstOf(FoundAt(pkg, name))], name)
    BY <1>2 DEF Inherited
  <2>4. FirstOf(FoundAt(pkg, name)) \in DOMAIN use_list[pkg]
    BY <2>2 DEF FoundAt
  <2>5. use_list[pkg][FirstOf(FoundAt(pkg, name))] \in Pkg
    BY <1>0, <2>4
  <2>6. FindExported(use_list[pkg][FirstOf(FoundAt(pkg, name))], name) # NoSymbol
    BY <2>2 DEF FoundAt
  <2>. QED  BY <2>3, <2>4, <2>5, <2>6, FindExportedFinds
<1>. QED  BY <1>1, <1>2

\* What find_symbol finds is a symbol; it finds what the package has first.
LEMMA FindSymbolFinds ==
  ASSUME TypeOK, NEW pkg \in Pkg, NEW name
  PROVE  /\ FindSymbol(pkg, name) \in Symbol \union {NoSymbol}
         /\ FindSymbol(pkg, name) = NoSymbol => Interned(pkg, name) = {}
<1>1. Len(symbols) \in Nat
  BY DEF TypeOK
<1>. QED  BY <1>1, PkgFindFinds, InheritedFinds DEF FindSymbol

\* A prefix is that of a package, or of none.
LEMMA DesignatedIsPackage ==
  ASSUME TypeOK, NEW pkg \in Pkg, NEW prefix
  PROVE  Designated(pkg, prefix) \in Pkg \union {NoPkg}
<1>0. alias_list[pkg] \in Seq(Pkg \X Pkg)
  BY DEF TypeOK
<1>1. CASE AliasAt(pkg, prefix) # {}
  <2>1. AliasAt(pkg, prefix) \in SUBSET Nat
    BY <1>0 DEF AliasAt
  <2>2. FirstOf(AliasAt(pkg, prefix)) \in AliasAt(pkg, prefix)
    BY <1>1, <2>1, FirstIsOne
  <2>3. FirstOf(AliasAt(pkg, prefix)) \in DOMAIN alias_list[pkg]
    BY <2>2 DEF AliasAt
  <2>4. alias_list[pkg][FirstOf(AliasAt(pkg, prefix))] \in Pkg \X Pkg
    BY <1>0, <2>3
  <2>. QED  BY <1>1, <2>4 DEF Designated
<1>2. CASE AliasAt(pkg, prefix) = {}
  BY <1>2 DEF Designated, TypeOK
<1>. QED  BY <1>1, <1>2

\* A symbol is made in a package where its name was searched for.
LEMMA HomeHasNone ==
  ASSUME TypeOK, NEW prefix, NEW name,
         Read(current, [prefix |-> prefix, name |-> name]) = NoSymbol,
         Home(current, prefix) # NoPkg
  PROVE  /\ Home(current, prefix) \in Pkg
         /\ Interned(Home(current, prefix), name) = {}
<1>0. current \in Pkg /\ KEYWORD \in Pkg /\ Len(symbols) \in Nat
  BY PkgAssumption DEF TypeOK
<1>1. CASE prefix = NoPkg
  BY <1>0, <1>1, FindSymbolFinds DEF Read, Home
<1>2. CASE prefix # NoPkg /\ prefix = KEYWORD
  BY <1>0, <1>2, PkgFindFinds DEF Read, Home
<1>3. CASE prefix # NoPkg /\ prefix # KEYWORD
  BY <1>0, <1>3, PkgFindFinds, DesignatedIsPackage DEF Read, Home
<1>. QED  BY <1>1, <1>2, <1>3

-----------------------------------------------------------------------------

\* Lists that were of symbols are lists of symbols when there are more.
LEMMA ListsGrow ==
  ASSUME NEW m \in Nat, NEW n \in Nat, m <= n, NEW list \in Seq(1..m)
  PROVE  list \in Seq(1..n)
<1>1. 1..m \subseteq 1..n
  OBVIOUS
<1>2. Len(list) \in Nat /\ list \in [1..Len(list) -> 1..n]
  BY <1>1
<1>. QED  BY <1>2

\* A list to which something was added in front is one of the same things.
LEMMA Added ==
  ASSUME NEW S, NEW list \in Seq(S), NEW x \in S
  PROVE  <<x>> \o list \in Seq(S)
  OBVIOUS

\* A list with one package more, or as it was.
LEMMA UsedAgain ==
  ASSUME NEW list \in Seq(Pkg), NEW pkg \in Pkg
  PROVE  (IF Member(pkg, list) THEN list ELSE <<pkg>> \o list) \in Seq(Pkg)
  BY Added

LEMMA InitTypes == Init => TypeOK
<1>1. SUFFICES ASSUME Init
               PROVE  TypeOK
  OBVIOUS
<1>2. \A S : <<>> \in Seq(S)
  OBVIOUS
<1>3. \A S : [p \in Pkg |-> <<>>] \in [Pkg -> Seq(S)]
  BY <1>2
<1>. QED  BY <1>1, <1>2, <1>3, PkgAssumption DEF Init, TypeOK

\* A symbol is added: the lists stay lists of symbols.
LEMMA OneMore ==
  ASSUME TypeOK, NEW name \in Name, NEW home \in Pkg,
         symbols' = Append(symbols, [name |-> name, home |-> home])
  PROVE  /\ symbols' \in Seq([name : Name, home : Pkg \union {NoPkg}])
         /\ Len(symbols) \in Nat /\ Len(symbols') = Len(symbols) + 1
         /\ \A list \in Seq(Symbol) : list \in Seq(Symbol')
<1>1. [name |-> name, home |-> home] \in [name : Name, home : Pkg \union {NoPkg}]
  OBVIOUS
<1>2. /\ symbols \in Seq([name : Name, home : Pkg \union {NoPkg}])
      /\ Len(symbols) \in Nat
  BY DEF TypeOK
<1>3. /\ symbols' \in Seq([name : Name, home : Pkg \union {NoPkg}])
      /\ Len(symbols') = Len(symbols) + 1
  BY <1>1, <1>2
<1>4. \A list \in Seq(1..Len(symbols)) : list \in Seq(1..Len(symbols'))
  BY <1>2, <1>3, ListsGrow
<1>. QED  BY <1>2, <1>3, <1>4 DEF Symbol

\* The symbol that define-package exports is one there is, or the new one.
LEMMA DefinePackageTypes ==
  ASSUME TypeOK, NEW pkg \in Pkg, NEW exports \in Seq(Name), NEW uses \in Seq(Pkg),
         DefinePackage(pkg, exports, uses)
  PROVE  TypeOK'
<1>0. /\ packages \subseteq Pkg /\ current \in packages
      /\ symbols \in Seq([name : Name, home : Pkg \union {NoPkg}])
      /\ use_list \in [Pkg -> Seq(Pkg)]
      /\ exported_symbols \in [Pkg -> Seq(Symbol)]
      /\ alias_list \in [Pkg -> Seq(Pkg \X Pkg)]
  BY DEF TypeOK
<1>1. packages' \subseteq Pkg /\ current' \in packages'
  BY <1>0 DEF DefinePackage
<1>2. alias_list' \in [Pkg -> Seq(Pkg \X Pkg)]
  BY <1>0 DEF DefinePackage
<1>3. use_list' \in [Pkg -> Seq(Pkg)]
  <2>. DEFINE known == {i \in DOMAIN uses : \A j \in 1..i : uses[j] \in packages \union {pkg}}
              Used(list, i) == IF Member(uses[i], list) THEN list ELSE <<uses[i]>> \o list
              once == IF 1 \in known THEN Used(use_list[pkg], 1) ELSE use_list[pkg]
              twice == IF 2 \in known THEN Used(once, 2) ELSE once
  <2>1. use_list' = [use_list EXCEPT ![pkg] = twice]
    BY DEF DefinePackage
  <2>2. \A i \in known : uses[i] \in Pkg
    OBVIOUS
  <2>3. \A list \in Seq(Pkg), i \in known : Used(list, i) \in Seq(Pkg)
    BY <2>2, UsedAgain
  <2>4. use_list[pkg] \in Seq(Pkg)
    BY <1>0
  <2>. HIDE DEF known, Used
  <2>5. once \in Seq(Pkg)
    BY <2>3, <2>4
  <2>. HIDE DEF once
  <2>6. twice \in Seq(Pkg)
    BY <2>3, <2>5
  <2>. QED  BY <1>0, <2>1, <2>6
<1>4. /\ symbols' \in Seq([name : Name, home : Pkg \union {NoPkg}])
      /\ exported_symbols' \in [Pkg -> Seq(Symbol')]
  <2>1. CASE exports = <<>>
    <3>1. symbols' = symbols /\ exported_symbols' = exported_symbols
      BY <2>1 DEF DefinePackage
    <3>. QED  BY <1>0, <3>1 DEF Symbol
  <2>2. CASE exports # <<>>
    <3>1. exports[1] \in Name
      BY <2>2
    <3>2. FindSymbol(pkg, exports[1]) \in Symbol \union {NoSymbol}
      BY FindSymbolFinds
    <3>3. CASE FindSymbol(pkg, exports[1]) # NoSymbol
      <4>1. /\ symbols' = symbols
            /\ exported_symbols' =
                 [exported_symbols EXCEPT ![pkg] = <<FindSymbol(pkg, exports[1])>> \o @]
        BY <2>2, <3>3 DEF DefinePackage
      <4>2. <<FindSymbol(pkg, exports[1])>> \o exported_symbols[pkg] \in Seq(Symbol)
        BY <1>0, <3>2, <3>3, Added
      <4>. QED  BY <1>0, <4>1, <4>2 DEF Symbol
    <3>4. CASE FindSymbol(pkg, exports[1]) = NoSymbol
      <4>1. /\ symbols' = Append(symbols, [name |-> exports[1], home |-> pkg])
            /\ exported_symbols' =
                 [exported_symbols EXCEPT ![pkg] = <<Len(symbols) + 1>> \o @]
        BY <2>2, <3>4 DEF DefinePackage
      <4>2. /\ symbols' \in Seq([name : Name, home : Pkg \union {NoPkg}])
            /\ Len(symbols) \in Nat /\ Len(symbols') = Len(symbols) + 1
            /\ \A list \in Seq(Symbol) : list \in Seq(Symbol')
        BY <3>1, <4>1, OneMore
      <4>3. Len(symbols) + 1 \in Symbol'
        BY <4>2 DEF Symbol
      <4>4. <<Len(symbols) + 1>> \o exported_symbols[pkg] \in Seq(Symbol')
        BY <1>0, <4>2, <4>3, Added
      <4>5. \A p \in Pkg : exported_symbols[p] \in Seq(Symbol')
        BY <1>0, <4>2
      <4>. QED  BY <1>0, <4>1, <4>2, <4>4, <4>5
    <3>. QED  BY <3>3, <3>4
  <2>. QED  BY <2>1, <2>2
<1>. QED  BY <1>1, <1>2, <1>3, <1>4 DEF TypeOK

LEMMA NextTypes == TypeOK /\ [Next]_vars => TypeOK'
<1>. SUFFICES ASSUME TypeOK, [Next]_vars
              PROVE  TypeOK'
  OBVIOUS
<1>0. /\ packages \subseteq Pkg /\ current \in packages
      /\ symbols \in Seq([name : Name, home : Pkg \union {NoPkg}])
      /\ use_list \in [Pkg -> Seq(Pkg)]
      /\ exported_symbols \in [Pkg -> Seq(Symbol)]
      /\ alias_list \in [Pkg -> Seq(Pkg \X Pkg)]
  BY DEF TypeOK
<1>1. ASSUME NEW prefix \in Pkg \union {NoPkg}, NEW name \in Name, Intern(prefix, name)
      PROVE  TypeOK'
  <2>1. /\ symbols' = Append(symbols, [name |-> name, home |-> Home(current, prefix)])
        /\ Home(current, prefix) \in Pkg
    BY <1>1, HomeHasNone DEF Intern
  <2>2. /\ symbols' \in Seq([name : Name, home : Pkg \union {NoPkg}])
        /\ \A list \in Seq(Symbol) : list \in Seq(Symbol')
    BY <2>1, OneMore
  <2>3. exported_symbols \in [Pkg -> Seq(Symbol')]
    BY <1>0, <2>2
  <2>. QED  BY <1>0, <1>1, <2>2, <2>3 DEF TypeOK, Intern
<1>2. ASSUME NEW s \in Symbol, Unintern(s)
      PROVE  TypeOK'
  <2>1. symbols' = [symbols EXCEPT ![s].home = NoPkg]
    BY <1>2 DEF Unintern
  <2>2. /\ symbols' \in Seq([name : Name, home : Pkg \union {NoPkg}])
        /\ Len(symbols') = Len(symbols)
    <3>. DEFINE R == [name : Name, home : Pkg \union {NoPkg}]
                new == [symbols[s] EXCEPT !.home = NoPkg]
    <3>1. symbols \in Seq(R)
      BY <1>0
    <3>2. symbols' = [symbols EXCEPT ![s] = new]
      BY <2>1
    <3>. HIDE DEF R
    <3>3. symbols[s] \in R
      BY <3>1 DEF Symbol
    <3>4. new \in R
      BY <3>3 DEF R
    <3>. HIDE DEF new
    <3>5. symbols' \in Seq(R) /\ Len(symbols') = Len(symbols)
      BY <3>1, <3>2, <3>4 DEF Symbol
    <3>. QED  BY <3>5 DEF R
  <2>. QED  BY <1>0, <1>2, <2>2 DEF TypeOK, Unintern, Symbol
<1>3. ASSUME NEW in \in Pkg, NEW pkg \in Pkg, UsePackage(in, pkg)
      PROVE  TypeOK'
  <2>1. (IF Member(pkg, use_list[in]) THEN use_list[in] ELSE <<pkg>> \o use_list[in]) \in Seq(Pkg)
    BY <1>0, UsedAgain
  <2>2. use_list' \in [Pkg -> Seq(Pkg)]
    BY <1>0, <1>3, <2>1 DEF UsePackage
  <2>. QED  BY <1>0, <1>3, <2>2 DEF TypeOK, UsePackage, Symbol
<1>4. ASSUME NEW in \in Pkg, NEW pkg \in Pkg, NEW alias \in Pkg, UsePackageAs(in, pkg, alias)
      PROVE  TypeOK'
  <2>1. <<<<alias, pkg>>>> \o alias_list[in] \in Seq(Pkg \X Pkg)
    BY <1>0, Added
  <2>2. alias_list' \in [Pkg -> Seq(Pkg \X Pkg)]
    BY <1>0, <1>4, <2>1 DEF UsePackageAs
  <2>. QED  BY <1>0, <1>4, <2>2 DEF TypeOK, UsePackageAs, Symbol
<1>5. ASSUME NEW pkg \in Pkg, InPackage(pkg)
      PROVE  TypeOK'
  BY <1>0, <1>5 DEF TypeOK, InPackage, Symbol
<1>6. ASSUME NEW def \in Defined, DefinePackage(def[1], def[2], def[3])
      PROVE  TypeOK'
  <2>1. def[1] \in Pkg /\ def[2] \in Seq(Name) /\ def[3] \in Seq(Pkg)
    BY PkgAssumption
  <2>. QED  BY <1>6, <2>1, DefinePackageTypes
<1>7. CASE UNCHANGED vars
  BY <1>0, <1>7 DEF TypeOK, vars, Symbol
<1>8. \A use \in Uses : use[1] \in Pkg /\ use[2] \in Pkg
  BY PkgAssumption
<1>9. \A use \in Aliased : use[1] \in Pkg /\ use[2] \in Pkg /\ use[3] \in Pkg
  BY PkgAssumption
<1>. QED  BY <1>1, <1>2, <1>3, <1>4, <1>5, <1>6, <1>7, <1>8, <1>9 DEF Next

\* Packages, symbols and lists are what their names say, whatever packages are
\* defined and symbols made and uninterned (package.c).
THEOREM TypesCorrect == Spec => []TypeOK
  BY InitTypes, NextTypes, PTL DEF Spec

-----------------------------------------------------------------------------
(***************************************************************************)
(* One symbol of a name in a package.                                      *)
(***************************************************************************)

\* A symbol is made only where its name is not that of another.
LEMMA MadeOnce ==
  ASSUME TypeOK, EachNameOnce, NEW name \in Name, NEW home \in Pkg,
         Interned(home, name) = {},
         symbols' = Append(symbols, [name |-> name, home |-> home])
  PROVE  EachNameOnce'
<1>1. Len(symbols) \in Nat
  BY DEF TypeOK
<1>2. /\ Symbol' = 1..(Len(symbols) + 1)
      /\ \A s \in Symbol : symbols'[s] = symbols[s]
      /\ symbols'[Len(symbols) + 1] = [name |-> name, home |-> home]
  BY <1>1 DEF Symbol, TypeOK
<1>3. \A s \in Symbol : symbols'[s] # symbols'[Len(symbols) + 1]
  BY <1>2 DEF Interned
<1>. QED  BY <1>1, <1>2, <1>3 DEF EachNameOnce, Symbol

LEMMA NextOnce == TypeOK /\ EachNameOnce /\ [Next]_vars => EachNameOnce'
<1>. SUFFICES ASSUME TypeOK, EachNameOnce, [Next]_vars
              PROVE  EachNameOnce'
  OBVIOUS
<1>1. ASSUME NEW prefix \in Pkg \union {NoPkg}, NEW name \in Name, Intern(prefix, name)
      PROVE  EachNameOnce'
  BY <1>1, HomeHasNone, MadeOnce DEF Intern
<1>2. ASSUME NEW s \in Symbol, Unintern(s)
      PROVE  EachNameOnce'
  <2>1. symbols' = [symbols EXCEPT ![s] = [@ EXCEPT !.home = NoPkg]]
    BY <1>2 DEF Unintern
  <2>2. symbols \in Seq([name : Name, home : Pkg \union {NoPkg}])
    BY DEF TypeOK
  <2>3. Len(symbols') = Len(symbols)
    BY <2>1, <2>2 DEF Symbol
  <2>4. \A t \in Symbol : symbols'[t].home # NoPkg => symbols'[t] = symbols[t]
    <3>1. symbols'[s].home = NoPkg
      BY <2>1, <2>2 DEF Symbol
    <3>2. \A t \in Symbol : t # s => symbols'[t] = symbols[t]
      BY <2>1, <2>2 DEF Symbol
    <3>. QED  BY <3>1, <3>2
  <2>5. \A t, u \in Symbol :
          symbols'[t].home # NoPkg /\ symbols'[t] = symbols'[u] => symbols'[u].home # NoPkg
    OBVIOUS
  <2>. QED  BY <2>3, <2>4, <2>5 DEF EachNameOnce, Symbol
<1>3. ASSUME NEW def \in Defined, DefinePackage(def[1], def[2], def[3])
      PROVE  EachNameOnce'
  <2>0. def[1] \in Pkg /\ def[2] \in Seq(Name)
    BY PkgAssumption
  <2>1. CASE symbols' = symbols
    BY <2>1 DEF EachNameOnce, Symbol
  <2>2. CASE symbols' # symbols
    <3>1. /\ def[2] # <<>> /\ FindSymbol(def[1], def[2][1]) = NoSymbol
          /\ symbols' = Append(symbols, [name |-> def[2][1], home |-> def[1]])
      BY <1>3, <2>2 DEF DefinePackage
    <3>2. def[2][1] \in Name
      BY <2>0, <3>1
    <3>3. Interned(def[1], def[2][1]) = {}
      BY <2>0, <3>1, FindSymbolFinds
    <3>. QED  BY <2>0, <3>1, <3>2, <3>3, MadeOnce
  <2>. QED  BY <2>1, <2>2
<1>4. ASSUME symbols' = symbols
      PROVE  EachNameOnce'
  BY <1>4 DEF EachNameOnce, Symbol
<1>. QED
  BY <1>1, <1>2, <1>3, <1>4 DEF Next, vars, UsePackage, UsePackageAs, InPackage

\* A name is that of one symbol of a package at most (package.c, intern_symbol
\* and define_package).
THEOREM NamesUnique == Spec => []EachNameOnce
<1>1. Init => EachNameOnce
  BY DEF Init, EachNameOnce, Symbol
<1>. QED  BY <1>1, NextOnce, TypesCorrect, PTL DEF Spec

-----------------------------------------------------------------------------
(***************************************************************************)
(* Writing a symbol and reading it back.                                   *)
(***************************************************************************)

\* The packages of symbols exist.
HomesExist == \A s \in Symbol : symbols[s].home \in packages \union {NoPkg}

\* An alias leads to a package that exists, so do the packages used.
LEMMA InitHomes == Init => HomesExist
  BY DEF Init, HomesExist, Symbol

AliasesExist ==
  \A p \in Pkg : \A i \in DOMAIN alias_list[p] : alias_list[p][i][2] \in packages

LEMMA InitAliases == Init => AliasesExist
  BY DEF Init, AliasesExist

\* A prefix is that of a package that exists, or of none.
LEMMA DesignatedExists ==
  ASSUME TypeOK, AliasesExist, NEW pkg \in Pkg, NEW prefix
  PROVE  Designated(pkg, prefix) \in packages \union {NoPkg}
<1>0. alias_list[pkg] \in Seq(Pkg \X Pkg)
  BY DEF TypeOK
<1>1. CASE AliasAt(pkg, prefix) # {}
  <2>1. AliasAt(pkg, prefix) \in SUBSET Nat
    BY <1>0 DEF AliasAt
  <2>2. FirstOf(AliasAt(pkg, prefix)) \in AliasAt(pkg, prefix)
    BY <1>1, <2>1, FirstIsOne
  <2>3. FirstOf(AliasAt(pkg, prefix)) \in DOMAIN alias_list[pkg]
    BY <2>2 DEF AliasAt
  <2>. QED  BY <1>1, <2>3 DEF Designated, AliasesExist
<1>2. CASE AliasAt(pkg, prefix) = {}
  BY <1>2 DEF Designated
<1>. QED  BY <1>1, <1>2

LEMMA NextHomes ==
  TypeOK /\ AliasesExist /\ HomesExist /\ KEYWORD \in packages /\ [Next]_vars
    => AliasesExist' /\ HomesExist' /\ KEYWORD \in packages'
<1>. SUFFICES ASSUME TypeOK, AliasesExist, HomesExist, KEYWORD \in packages, [Next]_vars
              PROVE  AliasesExist' /\ HomesExist' /\ KEYWORD \in packages'
  OBVIOUS
<1>0. /\ current \in packages /\ packages \subseteq Pkg
      /\ symbols \in Seq([name : Name, home : Pkg \union {NoPkg}])
      /\ alias_list \in [Pkg -> Seq(Pkg \X Pkg)]
  BY DEF TypeOK
<1>1. ASSUME NEW prefix \in Pkg \union {NoPkg}, NEW name \in Name, Intern(prefix, name)
      PROVE  AliasesExist' /\ HomesExist' /\ KEYWORD \in packages'
  <2>1. Home(current, prefix) \in packages \union {NoPkg}
    BY <1>0, DesignatedExists DEF Home
  <2>2. /\ Symbol' = Symbol \union {Len(symbols) + 1}
        /\ \A s \in Symbol : symbols'[s] = symbols[s]
        /\ symbols'[Len(symbols) + 1].home = Home(current, prefix)
    BY <1>0, <1>1 DEF Intern, Symbol
  <2>3. packages' = packages /\ alias_list' = alias_list
    BY <1>1 DEF Intern
  <2>. QED  BY <2>1, <2>2, <2>3 DEF HomesExist, AliasesExist
<1>2. ASSUME NEW s \in Symbol, Unintern(s)
      PROVE  AliasesExist' /\ HomesExist' /\ KEYWORD \in packages'
  <2>1. packages' = packages /\ alias_list' = alias_list
    BY <1>2 DEF Unintern
  <2>2. symbols' = [symbols EXCEPT ![s] = [@ EXCEPT !.home = NoPkg]]
    BY <1>2 DEF Unintern
  <2>3. Symbol' = Symbol
    BY <1>0, <2>2 DEF Symbol
  <2>4. symbols'[s].home = NoPkg /\ \A t \in Symbol : t # s => symbols'[t] = symbols[t]
    BY <1>0, <2>2 DEF Symbol
  <2>. QED  BY <2>1, <2>3, <2>4 DEF HomesExist, AliasesExist
<1>3. ASSUME NEW in \in Pkg, NEW pkg \in Pkg, UsePackage(in, pkg)
      PROVE  AliasesExist' /\ HomesExist' /\ KEYWORD \in packages'
  BY <1>3 DEF UsePackage, HomesExist, AliasesExist, Symbol
<1>4. ASSUME NEW in \in Pkg, NEW pkg \in Pkg, NEW alias \in Pkg, UsePackageAs(in, pkg, alias)
      PROVE  AliasesExist' /\ HomesExist' /\ KEYWORD \in packages'
  <2>1. /\ packages' = packages /\ symbols' = symbols /\ pkg \in packages
        /\ alias_list' = [alias_list EXCEPT ![in] = <<<<alias, pkg>>>> \o @]
    BY <1>4 DEF UsePackageAs
  <2>2. \A i \in DOMAIN (<<<<alias, pkg>>>> \o alias_list[in]) :
          (<<<<alias, pkg>>>> \o alias_list[in])[i][2] \in packages
    <3>1. SUFFICES ASSUME NEW i \in DOMAIN (<<<<alias, pkg>>>> \o alias_list[in])
                   PROVE  (<<<<alias, pkg>>>> \o alias_list[in])[i][2] \in packages
      OBVIOUS
    <3>2. CASE i = 1
      BY <1>0, <2>1, <3>2
    <3>3. CASE i # 1
      <4>1. /\ i - 1 \in DOMAIN alias_list[in]
            /\ (<<<<alias, pkg>>>> \o alias_list[in])[i] = alias_list[in][i - 1]
        BY <1>0, <3>3
      <4>. QED  BY <4>1 DEF AliasesExist
    <3>. QED  BY <3>2, <3>3
  <2>3. AliasesExist'
    BY <1>0, <2>1, <2>2 DEF AliasesExist
  <2>. QED  BY <2>1, <2>3 DEF HomesExist, Symbol
<1>5. ASSUME NEW pkg \in Pkg, InPackage(pkg)
      PROVE  AliasesExist' /\ HomesExist' /\ KEYWORD \in packages'
  BY <1>5 DEF InPackage, HomesExist, AliasesExist, Symbol
<1>6. ASSUME NEW def \in Defined, DefinePackage(def[1], def[2], def[3])
      PROVE  AliasesExist' /\ HomesExist' /\ KEYWORD \in packages'
  <2>1. packages' = packages \union {def[1]} /\ alias_list' = alias_list
    BY <1>6 DEF DefinePackage
  <2>2. \/ symbols' = symbols
        \/ \E name : symbols' = Append(symbols, [name |-> name, home |-> def[1]])
    BY <1>6 DEF DefinePackage
  <2>3. HomesExist'
    <3>1. CASE symbols' = symbols
      BY <2>1, <3>1 DEF HomesExist, Symbol
    <3>2. ASSUME NEW name, symbols' = Append(symbols, [name |-> name, home |-> def[1]])
          PROVE  HomesExist'
      <4>1. /\ Symbol' = Symbol \union {Len(symbols) + 1}
            /\ \A s \in Symbol : symbols'[s] = symbols[s]
            /\ symbols'[Len(symbols) + 1].home = def[1]
        BY <1>0, <3>2 DEF Symbol
      <4>. QED  BY <2>1, <4>1 DEF HomesExist
    <3>. QED  BY <2>2, <3>1, <3>2
  <2>. QED  BY <2>1, <2>3 DEF AliasesExist
<1>7. CASE UNCHANGED vars
  BY <1>7 DEF vars, HomesExist, AliasesExist, Symbol
<1>8. \A use \in Uses : use[1] \in Pkg /\ use[2] \in Pkg
  BY PkgAssumption
<1>9. \A use \in Aliased : use[1] \in Pkg /\ use[2] \in Pkg /\ use[3] \in Pkg
  BY PkgAssumption
<1>. QED  BY <1>1, <1>2, <1>3, <1>4, <1>5, <1>6, <1>7, <1>8, <1>9 DEF Next

\* A symbol is its name and its package.
LEMMA SymbolTyped ==
  ASSUME TypeOK, NEW s \in Symbol
  PROVE  /\ symbols[s] = [name |-> symbols[s].name, home |-> symbols[s].home]
         /\ symbols[s].name \in Name /\ symbols[s].home \in Pkg \union {NoPkg}
<1>. DEFINE R == [name : Name, home : Pkg \union {NoPkg}]
<1>1. symbols \in Seq(R)
  BY DEF TypeOK
<1>. HIDE DEF R
<1>2. symbols[s] \in R
  BY <1>1 DEF Symbol
<1>. QED  BY <1>2 DEF R

\* A symbol of a package is the one found there.
LEMMA FoundAtHome ==
  ASSUME TypeOK, EachNameOnce, NEW s \in Symbol, symbols[s].home # NoPkg
  PROVE  PkgFind(symbols[s].home, symbols[s].name) = s
<1>1. symbols[s] = [name |-> symbols[s].name, home |-> symbols[s].home]
  BY SymbolTyped
<1>2. Interned(symbols[s].home, symbols[s].name) = {s}
  BY <1>1 DEF Interned, EachNameOnce
<1>. QED  BY <1>2 DEF PkgFind

\* A symbol that a package is given, and no other of that name, is the one
\* inherited.
LEMMA FoundInherited ==
  ASSUME TypeOK, EachNameOnce, NEW pkg \in Pkg, NEW s \in Symbol,
         symbols[s].home # NoPkg, symbols[s].home # pkg,
         Member(symbols[s].home, use_list[pkg]),
         Unambiguous(pkg, s), Given(pkg, s)
  PROVE  FindSymbol(pkg, symbols[s].name) = s
<1>. DEFINE home == symbols[s].home
            name == symbols[s].name
<1>0. /\ use_list[pkg] \in Seq(Pkg) /\ Len(symbols) \in Nat
      /\ s # NoSymbol /\ home \in Pkg
  <2>1. use_list[pkg] \in Seq(Pkg) /\ Len(symbols) \in Nat
    BY DEF TypeOK
  <2>2. s # NoSymbol
    BY <2>1 DEF Symbol, NoSymbol
  <2>3. home \in Pkg
    BY SymbolTyped, Zenon
  <2>. QED  BY <2>1, <2>2, <2>3
<1>1. PkgFind(pkg, name) = NoSymbol
  <2>1. SUFFICES ASSUME NEW t \in Interned(pkg, name)
                 PROVE  FALSE
    BY <1>0, PkgFindFinds
  <2>2. t \in Symbol /\ symbols[t].name = name /\ symbols[t].home = pkg
    BY DEF Interned
  <2>. QED  BY <2>2 DEF Unambiguous
<1>2. PICK i \in DOMAIN use_list[pkg] : use_list[pkg][i] = home
  BY DEF Member
<1>3. FindExported(home, name) # NoSymbol
  <2>1. CASE exported_symbols[home] = <<>>
    BY <1>0, <2>1, FoundAtHome DEF FindExported
  <2>2. CASE exported_symbols[home] # <<>>
    <3>1. Member(s, exported_symbols[home])
      BY <2>2 DEF Given
    <3>2. ExportedAt(home, name) # {}
      BY <3>1 DEF Member, ExportedAt
    <3>3. ExportedAt(home, name) \in SUBSET Nat /\ exported_symbols[home] \in Seq(Symbol)
      <4>1. exported_symbols[home] \in Seq(Symbol)
        BY <1>0 DEF TypeOK
      <4>. QED  BY <4>1 DEF ExportedAt
    <3>4. FirstOf(ExportedAt(home, name)) \in DOMAIN exported_symbols[home]
      BY <3>2, <3>3, FirstIsOne DEF ExportedAt
    <3>5. FindExported(home, name) = exported_symbols[home][FirstOf(ExportedAt(home, name))]
      BY <2>2, <3>2 DEF FindExported
    <3>6. FindExported(home, name) \in Symbol
      BY <3>3, <3>4, <3>5
    <3>. QED  BY <3>6 DEF Symbol, NoSymbol
  <2>. QED  BY <2>1, <2>2
<1>4. FoundAt(pkg, name) # {}
  BY <1>2, <1>3 DEF FoundAt
<1>5. PICK j \in DOMAIN use_list[pkg] :
        /\ Inherited(pkg, name) = FindExported(use_list[pkg][j], name)
        /\ FindExported(use_list[pkg][j], name) # NoSymbol
  BY <1>4, InheritedFinds
<1>6. Inherited(pkg, name) = s
  <2>. DEFINE t == Inherited(pkg, name)
  <2>1. use_list[pkg][j] \in Pkg
    BY <1>0
  <2>2. /\ t \in Symbol /\ symbols[t].name = name
        /\ \/ symbols[t].home = use_list[pkg][j]
           \/ Member(t, exported_symbols[use_list[pkg][j]])
    BY <1>5, <2>1, FindExportedFinds
  <2>. QED  BY <2>2 DEF Unambiguous
<1>. QED  BY <1>1, <1>6 DEF FindSymbol

LEMMA ReadBack ==
  TypeOK /\ EachNameOnce /\ HomesExist /\ KEYWORD \in packages => WrittenReadsBack
<1>. SUFFICES ASSUME TypeOK, EachNameOnce, HomesExist, KEYWORD \in packages,
                     NEW pkg \in packages, NEW s \in Symbol,
                     symbols[s].home # NoPkg, Unambiguous(pkg, s), Given(pkg, s),
                     AliasAt(pkg, symbols[s].home) = {}
              PROVE  Read(pkg, QualifiedName(pkg, s)) = s
  BY DEF WrittenReadsBack
<1>. DEFINE home == symbols[s].home
            name == symbols[s].name
<1>0. /\ pkg \in Pkg /\ home \in packages /\ NoPkg \notin Pkg /\ home \in Pkg
      /\ s # NoSymbol /\ Len(symbols) \in Nat
  BY PkgAssumption DEF TypeOK, HomesExist, Symbol, NoSymbol
<1>1. PkgFind(home, name) = s
  BY FoundAtHome
<1>2. CASE PackageInherited(pkg, home)
  <2>1. Read(pkg, QualifiedName(pkg, s)) = FindSymbol(pkg, name)
    <3>1. QualifiedName(pkg, s) = [prefix |-> NoPkg, name |-> name]
      BY <1>2 DEF QualifiedName
    <3>2. /\ QualifiedName(pkg, s).prefix = NoPkg
          /\ QualifiedName(pkg, s).name = name
      BY <3>1
    <3>. QED  BY <1>0, <3>2, PkgAssumption DEF Read
  <2>2. CASE home = pkg
    BY <1>0, <1>1, <2>1, <2>2 DEF FindSymbol
  <2>3. CASE home # pkg
    BY <1>0, <1>2, <2>1, <2>3, FoundInherited DEF PackageInherited
  <2>. QED  BY <2>2, <2>3
<1>3. CASE ~PackageInherited(pkg, home)
  <2>1. QualifiedName(pkg, s) = [prefix |-> home, name |-> name]
    BY <1>3 DEF QualifiedName
  <2>2. CASE home = KEYWORD
    BY <1>0, <1>1, <2>1, <2>2 DEF Read
  <2>3. CASE home # KEYWORD
    <3>1. Designated(pkg, home) = home
      BY <1>0 DEF Designated
    <3>. QED  BY <1>0, <1>1, <2>1, <2>3, <3>1 DEF Read
  <2>. QED  BY <2>2, <2>3
<1>. QED  BY <1>2, <1>3

\* A symbol that is not hidden where it is written is read back as itself, by
\* the prefix it is written with or without one (package.c,
\* dfsch_symbol_qualified_name and dfsch_intern_symbol).
THEOREM SymbolsReadBack == Spec => []WrittenReadsBack
<1>. DEFINE IInv == AliasesExist /\ HomesExist /\ KEYWORD \in packages
<1>1. Init => IInv
  BY InitHomes, InitAliases DEF Init
<1>2. TypeOK /\ IInv /\ [Next]_vars => IInv'
  BY NextHomes
<1>3. TypeOK /\ EachNameOnce /\ IInv => WrittenReadsBack
  BY ReadBack
<1>. HIDE DEF IInv
<1>. QED  BY <1>1, <1>2, <1>3, TypesCorrect, NamesUnique, PTL DEF Spec

-----------------------------------------------------------------------------
(***************************************************************************)
(* What a name means, from one step to the next.                           *)
(***************************************************************************)

\* The first of some places is the one before all of them.
LEMMA FirstIs ==
  ASSUME NEW places \in SUBSET Nat, NEW i \in places, \A j \in places : i <= j
  PROVE  FirstOf(places) = i
<1>1. FirstOf(places) \in places /\ \A j \in places : FirstOf(places) <= j
  BY DEF FirstOf
<1>2. FirstOf(places) <= i /\ i <= FirstOf(places) /\ i \in Nat /\ FirstOf(places) \in Nat
  BY <1>1
<1>. QED  BY <1>2

\* What a name means is the package's own symbol, or the one inherited.
LEMMA OwnOrInherited ==
  ASSUME TypeOK, NEW pkg \in Pkg, NEW name, NEW s, s = FindSymbol(pkg, name), s # NoSymbol
  PROVE  /\ s \in Symbol /\ symbols[s].name = name
         /\ symbols[s].home = pkg => s \in Interned(pkg, name)
         /\ symbols[s].home # pkg =>
              Interned(pkg, name) = {} /\ FoundAt(pkg, name) # {} /\ s = Inherited(pkg, name)
<1>1. Len(symbols) \in Nat /\ use_list[pkg] \in Seq(Pkg)
  BY DEF TypeOK
<1>2. CASE PkgFind(pkg, name) # NoSymbol
  <2>1. s \in Interned(pkg, name)
    BY <1>1, <1>2, PkgFindFinds DEF FindSymbol
  <2>. QED  BY <2>1 DEF Interned
<1>3. CASE PkgFind(pkg, name) = NoSymbol
  <2>1. s = Inherited(pkg, name) /\ Interned(pkg, name) = {}
    BY <1>1, <1>3, PkgFindFinds DEF FindSymbol
  <2>2. FoundAt(pkg, name) # {}
    BY <2>1 DEF Inherited
  <2>3. PICK i \in DOMAIN use_list[pkg] : s = FindExported(use_list[pkg][i], name)
    BY <2>1, <2>2, InheritedFinds
  <2>4. s \in Symbol /\ symbols[s].name = name
    BY <1>1, <2>3, FindExportedFinds
  <2>5. symbols[s].home # pkg
    <3>1. symbols[s] = [name |-> symbols[s].name, home |-> symbols[s].home]
      BY <2>4, SymbolTyped
    <3>. QED  BY <2>1, <2>4, <3>1 DEF Interned
  <2>. QED  BY <2>1, <2>2, <2>4, <2>5
<1>. QED  BY <1>2, <1>3

\* A name means what it did where the packages that are looked in have the same
\* symbols of it, and the same exports.
LEMMA MeansSame ==
  ASSUME TypeOK, NEW pkg \in Pkg, NEW name,
         use_list'[pkg] = use_list[pkg],
         Interned(pkg, name)' = Interned(pkg, name),
         \A p \in Pkg : Member(p, use_list[pkg]) =>
           /\ Interned(p, name)' = Interned(p, name)
           /\ exported_symbols'[p] = exported_symbols[p],
         \A s \in Symbol : symbols'[s].name = symbols[s].name
  PROVE  FindSymbol(pkg, name)' = FindSymbol(pkg, name)
<1>1. use_list[pkg] \in Seq(Pkg) /\ exported_symbols \in [Pkg -> Seq(Symbol)]
  BY DEF TypeOK
<1>2. ASSUME NEW i \in DOMAIN use_list[pkg]
      PROVE  FindExported(use_list[pkg][i], name)' = FindExported(use_list[pkg][i], name)
  <2>. DEFINE p == use_list[pkg][i]
  <2>1. p \in Pkg /\ Member(p, use_list[pkg]) /\ use_list'[pkg][i] = p
    BY <1>1 DEF Member
  <2>2. Interned(p, name)' = Interned(p, name) /\ exported_symbols'[p] = exported_symbols[p]
    BY <2>1
  <2>3. PkgFind(p, name)' = PkgFind(p, name)
    BY <2>2 DEF PkgFind
  <2>4. \A j \in DOMAIN exported_symbols[p] : exported_symbols[p][j] \in Symbol
    BY <1>1, <2>1
  <2>5. ExportedAt(p, name)' = ExportedAt(p, name)
    BY <2>2, <2>4 DEF ExportedAt
  <2>. QED  BY <2>1, <2>2, <2>3, <2>5 DEF FindExported
<1>3. FoundAt(pkg, name)' = FoundAt(pkg, name)
  BY <1>2 DEF FoundAt
<1>4. Inherited(pkg, name)' = Inherited(pkg, name)
  <2>1. CASE FoundAt(pkg, name) = {}
    BY <1>3, <2>1 DEF Inherited
  <2>2. CASE FoundAt(pkg, name) # {}
    <3>1. FoundAt(pkg, name) \in SUBSET Nat
      BY <1>1 DEF FoundAt
    <3>2. FirstOf(FoundAt(pkg, name)) \in DOMAIN use_list[pkg]
      BY <2>2, <3>1, FirstIsOne DEF FoundAt
    <3>. QED  BY <1>2, <1>3, <2>2, <3>2 DEF Inherited
  <2>. QED  BY <2>1, <2>2
<1>5. PkgFind(pkg, name)' = PkgFind(pkg, name)
  BY DEF PkgFind
<1>. QED  BY <1>4, <1>5 DEF FindSymbol

\* A package has one symbol of a name, or none.
LEMMA HasOne ==
  ASSUME TypeOK, EachNameOnce, NEW pkg \in Pkg, NEW name, NEW s \in Interned(pkg, name)
  PROVE  Interned(pkg, name) = {s} /\ PkgFind(pkg, name) = s
<1>1. Interned(pkg, name) = {s}
  BY PkgAssumption DEF Interned, EachNameOnce
<1>. QED  BY <1>1 DEF PkgFind

\* A package that has its own symbol of a name looks no further.
LEMMA OwnMeans ==
  ASSUME TypeOK, TypeOK', EachNameOnce', NEW pkg \in Pkg, NEW name,
         NEW s, s \in Interned(pkg, name)'
  PROVE  FindSymbol(pkg, name)' = s
<1>1. Interned(pkg, name)' = {s}
  BY PkgAssumption DEF Interned, EachNameOnce
<1>2. PkgFind(pkg, name)' = s
  BY <1>1 DEF PkgFind
<1>3. s # NoSymbol
  BY DEF Interned, Symbol, NoSymbol
<1>. QED  BY <1>2, <1>3 DEF FindSymbol

\* A symbol may be made and exported, and packages used.
LEMMA MadeMeans ==
  ASSUME TypeOK, TypeOK', EachNameOnce',
         NEW new, symbols' = symbols \/ symbols' = Append(symbols, new)
  PROVE  MeaningKept
<1>. DEFINE Looked(p, pkg) == p = pkg \/ Member(p, use_list[pkg])
<1>. SUFFICES ASSUME NEW pkg \in Pkg, NEW name \in Name, NEW s, s = FindSymbol(pkg, name),
                     s # NoSymbol,
                     ~ /\ symbols[s].home # pkg
                       /\ \/ use_list'[pkg] # use_list[pkg]
                          \/ \E p \in Pkg : /\ Member(p, use_list[pkg])
                                            /\ exported_symbols'[p] # exported_symbols[p]
                          \/ \E p \in Pkg : /\ Looked(p, pkg) /\ Len(symbols') > Len(symbols)
                                            /\ symbols'[Len(symbols')] = [name |-> name, home |-> p]
              PROVE  FindSymbol(pkg, name)' = s
  BY DEF MeaningKept
<1>1. /\ Symbol \subseteq Symbol' /\ \A t \in Symbol : symbols'[t] = symbols[t]
      /\ \/ symbols' = symbols
         \/ Symbol' = Symbol \union {Len(symbols')} /\ Len(symbols') > Len(symbols)
  <2>1. symbols \in Seq([name : Name, home : Pkg \union {NoPkg}]) /\ Len(symbols) \in Nat
    BY DEF TypeOK
  <2>2. CASE symbols' = symbols
    BY <2>2 DEF Symbol
  <2>3. CASE symbols' = Append(symbols, new)
    <3>1. Len(symbols') = Len(symbols) + 1 /\ \A t \in 1..Len(symbols) : symbols'[t] = symbols[t]
      BY <2>1, <2>3
    <3>. QED  BY <2>1, <3>1 DEF Symbol
  <2>. QED  BY <2>2, <2>3
<1>2. symbols[s].home = pkg => s \in Interned(pkg, name)
  BY OwnOrInherited
<1>3. CASE symbols[s].home = pkg
  <2>1. s \in Interned(pkg, name)
    BY <1>2, <1>3
  <2>2. s \in Interned(pkg, name)'
    BY <1>1, <2>1 DEF Interned
  <2>. QED  BY <2>2, OwnMeans
<1>4. CASE symbols[s].home # pkg
  <2>1. ASSUME NEW p \in Pkg, Looked(p, pkg)
        PROVE  Interned(p, name)' = Interned(p, name)
    <3>1. CASE symbols' = symbols
      BY <3>1 DEF Interned, Symbol
    <3>2. CASE Symbol' = Symbol \union {Len(symbols')} /\ Len(symbols') > Len(symbols)
      <4>1. symbols'[Len(symbols')] # [name |-> name, home |-> p]
        BY <1>4, <2>1, <3>2
      <4>. QED  BY <1>1, <3>2, <4>1 DEF Interned
    <3>. QED  BY <1>1, <3>1, <3>2
  <2>2. use_list'[pkg] = use_list[pkg] /\ Interned(pkg, name)' = Interned(pkg, name)
    BY <1>4, <2>1
  <2>3. ASSUME NEW p \in Pkg, Member(p, use_list[pkg])
        PROVE  Interned(p, name)' = Interned(p, name) /\ exported_symbols'[p] = exported_symbols[p]
    BY <1>4, <2>1, <2>3
  <2>4. \A t \in Symbol : symbols'[t].name = symbols[t].name
    BY <1>1
  <2>. QED  BY <2>2, <2>3, <2>4, MeansSame
<1>. QED  BY <1>3, <1>4

\* A symbol is uninterned.
LEMMA UninternedMeans ==
  ASSUME TypeOK, TypeOK', EachNameOnce, NEW u \in Symbol, Unintern(u)
  PROVE  MeaningKept
<1>. SUFFICES ASSUME NEW pkg \in Pkg, NEW name \in Name, NEW s, s = FindSymbol(pkg, name),
                     s # NoSymbol,
                     ~(symbols'[s].home = NoPkg /\ symbols[s].home # NoPkg)
              PROVE  FindSymbol(pkg, name)' = s
  BY DEF MeaningKept
<1>1. /\ symbols' = [symbols EXCEPT ![u] = [@ EXCEPT !.home = NoPkg]]
      /\ use_list' = use_list /\ exported_symbols' = exported_symbols
      /\ use_list[pkg] \in Seq(Pkg) /\ exported_symbols \in [Pkg -> Seq(Symbol)]
      /\ Len(symbols) \in Nat /\ symbols \in Seq([name : Name, home : Pkg \union {NoPkg}])
  BY DEF Unintern, TypeOK
<1>2. /\ Symbol' = Symbol /\ symbols'[u].home = NoPkg /\ symbols'[u].name = symbols[u].name
      /\ \A t \in Symbol : t # u => symbols'[t] = symbols[t]
  BY <1>1, SymbolTyped DEF Symbol
<1>3. \A t \in Symbol : symbols'[t].name = symbols[t].name
  BY <1>2
<1>4. ASSUME NEW p \in Pkg
      PROVE  Interned(p, name)' = Interned(p, name) \ {u}
  BY <1>2, PkgAssumption DEF Interned
<1>5. /\ s \in Symbol /\ symbols[s].name = name
      /\ symbols[s].home = pkg => s \in Interned(pkg, name)
      /\ symbols[s].home # pkg =>
           Interned(pkg, name) = {} /\ FoundAt(pkg, name) # {} /\ s = Inherited(pkg, name)
  BY OwnOrInherited
<1>6. CASE symbols[s].home = pkg
  <2>1. s # u
    BY <1>2, <1>6, PkgAssumption
  <2>2. Interned(pkg, name) = {s}
    BY <1>5, <1>6, HasOne
  <2>3. PkgFind(pkg, name)' = s
    BY <1>4, <2>1, <2>2 DEF PkgFind
  <2>. QED  BY <2>3 DEF FindSymbol
<1>7. CASE symbols[s].home # pkg /\ s = u
  <2>1. symbols[u].home = NoPkg
    BY <1>2, <1>7
  <2>2. [symbols[u] EXCEPT !.home = NoPkg] = symbols[u]
    BY <2>1, SymbolTyped
  <2>3. symbols' = symbols
    BY <1>1, <2>2
  <2>4. \A p : Interned(p, name)' = Interned(p, name)
    BY <2>3 DEF Interned, Symbol
  <2>. QED  BY <1>1, <1>3, <2>4, MeansSame
<1>8. CASE symbols[s].home # pkg /\ s # u
  <2>1. ASSUME NEW p \in Pkg
        PROVE  \/ FindExported(p, name)' = FindExported(p, name)
               \/ FindExported(p, name) = u /\ FindExported(p, name)' = NoSymbol
    <3>1. \/ PkgFind(p, name)' = PkgFind(p, name)
          \/ PkgFind(p, name) = u /\ PkgFind(p, name)' = NoSymbol
      <4>1. CASE u \in Interned(p, name)
        <5>1. Interned(p, name) = {u} /\ PkgFind(p, name) = u
          BY <4>1, HasOne
        <5>2. Interned(p, name)' = {}
          BY <1>4, <5>1
        <5>3. PkgFind(p, name)' = NoSymbol
          BY <5>2 DEF PkgFind, NoSymbol
        <5>. QED  BY <5>1, <5>3
      <4>2. CASE u \notin Interned(p, name)
        <5>1. Interned(p, name)' = Interned(p, name)
          BY <1>4, <4>2
        <5>. QED  BY <5>1 DEF PkgFind
      <4>. QED  BY <4>1, <4>2
    <3>2. \A j \in DOMAIN exported_symbols[p] : exported_symbols[p][j] \in Symbol
      BY <1>1
    <3>3. ExportedAt(p, name)' = ExportedAt(p, name)
      BY <1>1, <1>3, <3>2 DEF ExportedAt
    <3>. QED  BY <1>1, <3>1, <3>3 DEF FindExported, NoSymbol
  <2>2. ASSUME NEW j \in DOMAIN use_list[pkg]
        PROVE  \/ FindExported(use_list[pkg][j], name)' = FindExported(use_list[pkg][j], name)
               \/ /\ FindExported(use_list[pkg][j], name) = u
                  /\ FindExported(use_list[pkg][j], name)' = NoSymbol
    <3>1. use_list[pkg][j] \in Pkg /\ use_list'[pkg][j] = use_list[pkg][j]
      BY <1>1
    <3>. QED  BY <2>1, <3>1
  <2>3. FoundAt(pkg, name) \in SUBSET Nat
    BY <1>1 DEF FoundAt
  <2>4. PICK i \in FoundAt(pkg, name) : i = FirstOf(FoundAt(pkg, name))
    BY <1>5, <1>8, <2>3, FirstIsLeast
  <2>5. /\ i \in DOMAIN use_list[pkg] /\ s = FindExported(use_list[pkg][i], name)
        /\ \A j \in FoundAt(pkg, name) : i <= j
    BY <1>5, <1>8, <2>3, <2>4, FirstIsLeast DEF Inherited, FoundAt
  <2>6. FindExported(use_list[pkg][i], name)' = s
    BY <1>8, <2>2, <2>5
  <2>7. FoundAt(pkg, name)' \in SUBSET FoundAt(pkg, name) /\ i \in FoundAt(pkg, name)'
    BY <1>1, <2>2, <2>5, <2>6 DEF FoundAt, NoSymbol
  <2>8. FirstOf(FoundAt(pkg, name)') = i
    BY <2>3, <2>5, <2>7, FirstIs
  <2>9. Inherited(pkg, name)' = s
    BY <1>1, <2>6, <2>7, <2>8 DEF Inherited
  <2>10. PkgFind(pkg, name)' = NoSymbol
    BY <1>4, <1>5, <1>8 DEF PkgFind
  <2>. QED  BY <2>9, <2>10 DEF FindSymbol
<1>. QED  BY <1>6, <1>7, <1>8

\* What a name means in a package changes only as MeaningKept says, whatever
\* becomes of other packages and symbols (package.c, find_symbol).
THEOREM NamesKeepMeaning == Spec => MeaningsKept
<1>1. TypeOK /\ TypeOK' /\ EachNameOnce /\ EachNameOnce' /\ [Next]_vars => [MeaningKept]_vars
  <2>. SUFFICES ASSUME TypeOK, TypeOK', EachNameOnce, EachNameOnce', Next
                PROVE  MeaningKept
    OBVIOUS
  <2>1. ASSUME NEW prefix \in Pkg \union {NoPkg}, NEW name \in Name, Intern(prefix, name)
        PROVE  MeaningKept
    BY <2>1, MadeMeans DEF Intern
  <2>2. ASSUME NEW s \in Symbol, Unintern(s)
        PROVE  MeaningKept
    BY <2>2, UninternedMeans
  <2>3. ASSUME NEW def \in Defined, DefinePackage(def[1], def[2], def[3])
        PROVE  MeaningKept
    <3>1. symbols' = symbols \/ \E new : symbols' = Append(symbols, new)
      BY <2>3 DEF DefinePackage
    <3>. QED  BY <3>1, MadeMeans
  <2>4. ASSUME symbols' = symbols
        PROVE  MeaningKept
    BY <2>4, MadeMeans
  <2>. QED  BY <2>1, <2>2, <2>3, <2>4 DEF Next, UsePackage, UsePackageAs, InPackage
<1>. QED  BY <1>1, TypesCorrect, NamesUnique, PTL DEF Spec, MeaningsKept
=============================================================================
