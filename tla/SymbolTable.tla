---------------------------- MODULE SymbolTable -----------------------------
(***************************************************************************)
(* The table of the symbols of one package in src/src/package.c: open      *)
(* addressing where entries die.  A package made at run time refers to its *)
(* symbols weakly: the collector clears the entry of a symbol nobody uses  *)
(* and unintern takes the package from a symbol; both leave the hash.      *)
(***************************************************************************)
EXTENDS Integers, FiniteSets, FiniteSetsExt

CONSTANTS
  SymbolName,
  symbol_hash,            \* of each
  INITIAL_PACKAGE_MASK,
  FREE, DEAD              \* an entry without a hash; one whose symbol is gone

\* An initial mask of 3 fills up: there are 63.
ASSUME SymbolAssumption ==
  /\ symbol_hash \in [SymbolName -> Nat]
  /\ INITIAL_PACKAGE_MASK \in Nat /\ INITIAL_PACKAGE_MASK > 3
  /\ FREE \notin SymbolName /\ DEAD \notin SymbolName /\ FREE # DEAD

VARIABLES
  symbol_entries,   \* a function from 0..mask to FREE, DEAD or the name of a symbol
  sym_count,
  interned          \* history: the names that are symbols of the package

symbolVars == <<symbol_entries, sym_count, interned>>

FreeSymbols(mask) == [i \in 0..mask |-> FREE]
SymbolMask(e) == Cardinality(DOMAIN e) - 1
Alive(e) == {i \in DOMAIN e : e[i] \in SymbolName}

SymbolPlace(e, name, n) == (symbol_hash[name] + n) % (SymbolMask(e) + 1)

\* Variant: the search ends at a dead entry.
FindsNext(e, name) ==
  \E n \in DOMAIN e : /\ e[SymbolPlace(e, name, n)] = name
                      /\ \A m \in 0..(n - 1) : e[SymbolPlace(e, name, m)] \in SymbolName

\* pkg_find_symbol: the search goes past dead entries to a free one.
Finds(e, name) ==
  \E n \in DOMAIN e : /\ e[SymbolPlace(e, name, n)] = name
                      /\ \A m \in 0..(n - 1) : e[SymbolPlace(e, name, m)] # FREE

\* pkg_low_put_symbol: the first entry that is free or dead.
LowPut(e, name) ==
  LET open == {n \in DOMAIN e : e[SymbolPlace(e, name, n)] \in {FREE, DEAD}}
  IN  [e EXCEPT ![SymbolPlace(e, name, Min(open))] = name]

\* The mask for a number of symbols: 7 or more, and at least twice the number.
MaskFor(n) ==
  LET mask[i \in 0..n] ==   \* when the loop has gone round i times
        IF i = 0 THEN 7
        ELSE IF mask[i - 1] \div 2 < n THEN 2 * mask[i - 1] + 1 ELSE mask[i - 1]
  IN  mask[n]

\* pkg_grow: the dead entries are left behind.
Grow(e) ==
  LET moved[n \in 0..(SymbolMask(e) + 1)] ==   \* when n entries are
        IF n = 0 THEN FreeSymbols(MaskFor(Cardinality(Alive(e))))
        ELSE IF e[n - 1] \in SymbolName THEN LowPut(moved[n - 1], e[n - 1])
        ELSE moved[n - 1]
  IN  moved[SymbolMask(e) + 1]

Crowded(e, n) == n \div 2 > SymbolMask(e) \div 3

-----------------------------------------------------------------------------

SymbolInit ==
  /\ symbol_entries = FreeSymbols(INITIAL_PACKAGE_MASK)
  /\ sym_count = 0
  /\ interned = {}

\* intern_symbol_in_package.  A table that grows counts its symbols anew,
\* without the one that is put after that.
InternSymbol(name) ==
  /\ interned' = interned \union {name}
  /\ IF Finds(symbol_entries, name) THEN UNCHANGED <<symbol_entries, sym_count>>
     ELSE IF Crowded(symbol_entries, sym_count + 1)
     THEN /\ symbol_entries' = LowPut(Grow(symbol_entries), name)
          /\ sym_count' = Cardinality(Alive(symbol_entries))
     ELSE /\ symbol_entries' = LowPut(symbol_entries, name)
          /\ sym_count' = sym_count + 1

\* dfsch_unintern_symbol, or the collector
Die(name) ==
  /\ name \in interned
  /\ interned' = interned \ {name}
  /\ symbol_entries' = [i \in DOMAIN symbol_entries |->
                          IF symbol_entries[i] = name THEN DEAD ELSE symbol_entries[i]]
  /\ UNCHANGED sym_count

SymbolNext == \E name \in SymbolName : InternSymbol(name) \/ Die(name)

SymbolSpec == SymbolInit /\ [][SymbolNext]_symbolVars

-----------------------------------------------------------------------------

\* A table is a set of names: what is interned is found in spite of the dead
\* entries in its way and is in one entry only, and nothing else is found; and
\* however symbols come and go some entry stays free, so that a put finds a
\* place ("Package full? WTF?") and a search for what is not there ends before
\* it has gone round (package.c, pkg_find_symbol, pkg_low_put_symbol, pkg_grow).
IsSet ==
  /\ \A name \in SymbolName : Finds(symbol_entries, name) <=> name \in interned
  /\ Cardinality(Alive(symbol_entries)) = Cardinality(interned)
  /\ \E i \in DOMAIN symbol_entries : symbol_entries[i] = FREE
=============================================================================
