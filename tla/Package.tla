------------------------------ MODULE Package -------------------------------
(***************************************************************************)
(* Packages and symbols, src/src/package.c: which symbol a name means in a *)
(* package, and how a symbol is written so that it is read back.           *)
(*                                                                         *)
(* A symbol is a number, the index of its name and its package in symbols; *)
(* NoSymbol is NULL.  The table of the symbols of a package is SymbolTable, *)
(* here it is the symbols whose package it is.                             *)
(***************************************************************************)
EXTENDS Integers, Sequences

CONSTANTS
  Pkg,          \* names of packages
  KEYWORD,      \* the keyword package
  User,         \* the package that is current at the beginning
  Name,         \* names of symbols
  NoPkg,        \* the package of an uninterned symbol; no prefix of a symbol
  Defined,      \* <<package, exports, uses>>, the arguments of define-package
  Uses,         \* <<package, package it uses>>, the arguments of use-package
  Aliased,      \* <<package, alias, package>>, the arguments of use-package-as
  MaxSymbols,   \* bound: how many symbols are made
  MaxListed     \* bound: how many aliases and exports a package is given

ASSUME PkgAssumption ==
  /\ KEYWORD \in Pkg /\ User \in Pkg /\ NoPkg \notin Pkg
  /\ Defined \subseteq Pkg \X Seq(Name) \X Seq(Pkg)
  /\ Uses \subseteq Pkg \X Pkg /\ Aliased \subseteq Pkg \X Pkg \X Pkg

VARIABLES
  packages,         \* the packages there are
  symbols,
  use_list,         \* of each package, the last used first
  exported_symbols, \* of each package, the last exported first
  alias_list,       \* of each package, <<alias, package>>, the last given first
  current           \* current_package of the thread

vars == <<packages, symbols, use_list, exported_symbols, alias_list, current>>

NoSymbol == 0
Symbol == 1..Len(symbols)

Member(x, list) == \E i \in DOMAIN list : list[i] = x

\* The first place of a list that is in a set of places.
FirstOf(places) == CHOOSE i \in places : \A j \in places : i <= j

-----------------------------------------------------------------------------
(* Finding symbols.                                                        *)

Interned(pkg, name) == {s \in Symbol : symbols[s] = [name |-> name, home |-> pkg]}

\* pkg_find_symbol
PkgFind(pkg, name) ==
  IF Interned(pkg, name) = {} THEN NoSymbol ELSE CHOOSE s \in Interned(pkg, name) : TRUE

ExportedAt(pkg, name) ==
  {i \in DOMAIN exported_symbols[pkg] : symbols[exported_symbols[pkg][i]].name = name}

\* pkg_find_exported_symbol: a package without exports exports everything; of
\* one with exports what is not found is NULL, though nothing is returned.
FindExported(pkg, name) ==
  IF exported_symbols[pkg] = <<>> THEN PkgFind(pkg, name)
  ELSE IF ExportedAt(pkg, name) = {} THEN NoSymbol
  ELSE exported_symbols[pkg][FirstOf(ExportedAt(pkg, name))]

FoundAt(pkg, name) ==
  {i \in DOMAIN use_list[pkg] : FindExported(use_list[pkg][i], name) # NoSymbol}

Inherited(pkg, name) ==
  IF FoundAt(pkg, name) = {} THEN NoSymbol
  ELSE FindExported(use_list[pkg][FirstOf(FoundAt(pkg, name))], name)

\* Variant: the packages used are looked in first.
FindInherited(pkg, name) ==
  IF Inherited(pkg, name) # NoSymbol THEN Inherited(pkg, name) ELSE PkgFind(pkg, name)

\* find_symbol
FindSymbol(pkg, name) ==
  IF PkgFind(pkg, name) # NoSymbol THEN PkgFind(pkg, name) ELSE Inherited(pkg, name)

\* find_package_by_alias, then dfsch_find_package; NoPkg if there is none.
AliasAt(pkg, alias) == {i \in DOMAIN alias_list[pkg] : alias_list[pkg][i][1] = alias}
Designated(pkg, prefix) ==
  IF AliasAt(pkg, prefix) # {} THEN alias_list[pkg][FirstOf(AliasAt(pkg, prefix))][2]
  ELSE IF prefix \in packages THEN prefix ELSE NoPkg

\* dfsch_intern_symbol finds it: a name without a prefix, with an empty one, or
\* with that of a package.
Read(pkg, text) ==
  CASE text.prefix = NoPkg -> FindSymbol(pkg, text.name)
    [] text.prefix = KEYWORD -> PkgFind(KEYWORD, text.name)
    [] OTHER -> PkgFind(Designated(pkg, text.prefix), text.name)

\* Variant: a symbol with a prefix is made in the current package.
HomeCurrent(pkg, prefix) == IF prefix = KEYWORD THEN KEYWORD ELSE pkg

\* Where dfsch_intern_symbol makes the symbol it does not find.
Home(pkg, prefix) ==
  CASE prefix = NoPkg -> pkg
    [] prefix = KEYWORD -> KEYWORD
    [] OTHER -> Designated(pkg, prefix)

\* Variant: a package inherits what the packages it uses inherit.
InheritsFar(pkg, home) ==
  \/ home = pkg
  \/ \E i \in DOMAIN use_list[pkg] :
       use_list[pkg][i] = home \/ Member(home, use_list[use_list[pkg][i]])

\* package_inherited
PackageInherited(pkg, home) == home = pkg \/ Member(home, use_list[pkg])

\* dfsch_symbol_qualified_name of an interned symbol.  A keyword is written
\* with an empty prefix.
QualifiedName(pkg, s) ==
  [prefix |-> IF PackageInherited(pkg, symbols[s].home) THEN NoPkg ELSE symbols[s].home,
   name |-> symbols[s].name]

-----------------------------------------------------------------------------

Init ==
  /\ packages = {KEYWORD, User}
  /\ symbols = <<>>
  /\ use_list = [p \in Pkg |-> <<>>]
  /\ exported_symbols = [p \in Pkg |-> <<>>]
  /\ alias_list = [p \in Pkg |-> <<>>]
  /\ current = User

Intern(prefix, name) ==
  LET home == Home(current, prefix)
  IN  /\ Read(current, [prefix |-> prefix, name |-> name]) = NoSymbol
      /\ home # NoPkg
      /\ Len(symbols) < MaxSymbols
      /\ symbols' = Append(symbols, [name |-> name, home |-> home])
      /\ UNCHANGED <<packages, use_list, exported_symbols, alias_list, current>>

Unintern(s) ==
  /\ s \in Symbol
  /\ symbols' = [symbols EXCEPT ![s].home = NoPkg]
  /\ UNCHANGED <<packages, use_list, exported_symbols, alias_list, current>>

\* dfsch_use_package
UsePackage(in, pkg) ==
  /\ in \in packages /\ pkg \in packages
  /\ use_list' = [use_list EXCEPT ![in] = IF Member(pkg, @) THEN @ ELSE <<pkg>> \o @]
  /\ UNCHANGED <<packages, symbols, exported_symbols, alias_list, current>>

\* dfsch_use_package_as; given again, an alias is put in front of the old one.
UsePackageAs(in, pkg, alias) ==
  /\ in \in packages /\ pkg \in packages
  /\ Len(alias_list[in]) < MaxListed
  /\ alias_list' = [alias_list EXCEPT ![in] = <<<<alias, pkg>>>> \o @]
  /\ UNCHANGED <<packages, symbols, use_list, exported_symbols, current>>

\* Variant: a package that is only named becomes current.
InPackageNamed(pkg) ==
  /\ current' = pkg
  /\ UNCHANGED <<packages, symbols, use_list, exported_symbols, alias_list>>

InPackage(pkg) ==
  /\ pkg \in packages
  /\ current' = pkg
  /\ UNCHANGED <<packages, symbols, use_list, exported_symbols, alias_list>>

\* define-package with no exports or one, and the packages it uses: they are
\* used in order until one does not exist, which is an error after the package
\* was made and its symbol exported.
DefinePackage(pkg, exports, uses) ==
  LET found == IF exports = <<>> THEN NoSymbol ELSE FindSymbol(pkg, exports[1])
      new == Len(symbols) + 1
      known == {i \in DOMAIN uses : \A j \in 1..i : uses[j] \in packages \union {pkg}}
      Used(list, i) == IF Member(uses[i], list) THEN list ELSE <<uses[i]>> \o list
      before == use_list[pkg]
      once == IF 1 \in known THEN Used(before, 1) ELSE before
  IN  /\ Len(exports) <= 1 /\ Len(uses) <= 2
      /\ exports # <<>> =>
           Len(symbols) < MaxSymbols /\ Len(exported_symbols[pkg]) < MaxListed
      /\ packages' = packages \union {pkg}
      /\ IF exports = <<>> THEN UNCHANGED <<symbols, exported_symbols>>
         ELSE /\ symbols' = IF found # NoSymbol THEN symbols
                            ELSE Append(symbols, [name |-> exports[1], home |-> pkg])
              /\ exported_symbols' =
                   [exported_symbols EXCEPT ![pkg] =
                      <<IF found # NoSymbol THEN found ELSE new>> \o @]
      /\ use_list' = [use_list EXCEPT ![pkg] = IF 2 \in known THEN Used(once, 2) ELSE once]
      /\ UNCHANGED <<alias_list, current>>

Next ==
  \/ \E prefix \in Pkg \union {NoPkg}, name \in Name : Intern(prefix, name)
  \/ \E s \in Symbol : Unintern(s)
  \/ \E use \in Uses : UsePackage(use[1], use[2])
  \/ \E use \in Aliased : UsePackageAs(use[1], use[3], use[2])
  \/ \E pkg \in Pkg : InPackage(pkg)
  \/ \E def \in Defined : DefinePackage(def[1], def[2], def[3])

Spec == Init /\ [][Next]_vars

-----------------------------------------------------------------------------
(* Properties.                                                             *)

\* Whatever a package lists or is called by exists: exported symbols, used
\* packages and aliases (package.c).
TypeOK ==
  /\ packages \subseteq Pkg /\ current \in packages
  /\ symbols \in Seq([name : Name, home : Pkg \union {NoPkg}])
  /\ use_list \in [Pkg -> Seq(Pkg)]
  /\ exported_symbols \in [Pkg -> Seq(Symbol)]
  /\ alias_list \in [Pkg -> Seq(Pkg \X Pkg)]

\* A name is that of one symbol of a package at most, though a package may be
\* defined again, export what it inherits and lose symbols (package.c,
\* intern_symbol and define_package).
EachNameOnce ==
  \A s, t \in Symbol : symbols[s].home # NoPkg /\ symbols[s] = symbols[t] => s = t

\* Nothing but s has its name in a package or in one it uses.
Unambiguous(pkg, s) ==
  \A t \in Symbol \ {s} : symbols[t].name = symbols[s].name =>
    /\ symbols[t].home # pkg
    /\ \A i \in DOMAIN use_list[pkg] :
         symbols[t].home # use_list[pkg][i] /\ ~Member(t, exported_symbols[use_list[pkg][i]])

\* A package that uses the package of a symbol is given the symbol.
Given(pkg, s) ==
  LET home == symbols[s].home
  IN  Member(home, use_list[pkg]) /\ home # pkg =>
        exported_symbols[home] = <<>> \/ Member(s, exported_symbols[home])

\* What a symbol is written as, with a prefix or without, is read as that
\* symbol in the same package, if the name is not ambiguous there, the symbol
\* not hidden by exports and its package not by an alias (package.c,
\* dfsch_symbol_qualified_name and dfsch_intern_symbol).
WrittenReadsBack ==
  \A pkg \in packages, s \in Symbol :
    /\ symbols[s].home # NoPkg
    /\ Unambiguous(pkg, s) /\ Given(pkg, s)
    /\ AliasAt(pkg, symbols[s].home) = {}
    => Read(pkg, QualifiedName(pkg, s)) = s

\* What a name means in a package changes only when the symbol is uninterned
\* or, for one that the package inherits, when it gets its own symbol of that
\* name, uses another package, or one it uses exports something or gets another
\* symbol of that name, far away from the code that reads it (package.c,
\* find_symbol).
MeaningKept ==
  \A pkg \in Pkg, name \in Name :
    LET s == FindSymbol(pkg, name)
        inherited(p) == Member(p, use_list[pkg])
    IN  s # NoSymbol /\ FindSymbol(pkg, name)' # s =>
          \/ symbols'[s].home = NoPkg /\ symbols[s].home # NoPkg
          \/ /\ symbols[s].home # pkg
             /\ \/ use_list'[pkg] # use_list[pkg]
                \/ \E p \in Pkg : inherited(p) /\ exported_symbols'[p] # exported_symbols[p]
                \/ \E p \in Pkg : /\ p = pkg \/ inherited(p)
                                  /\ Len(symbols') > Len(symbols)
                                  /\ symbols'[Len(symbols')] = [name |-> name, home |-> p]

MeaningsKept == [][MeaningKept]_vars
=============================================================================
