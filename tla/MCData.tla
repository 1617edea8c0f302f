------------------------------- MODULE MCData -------------------------------
(***************************************************************************)
(* An instance for TLC of what computes, reads and writes objects: the     *)
(* circular printer with the parser that reads what it printed, tokens     *)
(* typed to the parser, texts fed to the tokenizer, the serializer with    *)
(* its deserializer, exact numbers, JSON texts, enciphered texts,          *)
(* strings of characters, and lists.  A behaviour is one of one of them:   *)
(* which says of which, and the variables of the others stay empty.        *)
(***************************************************************************)
EXTENDS CipherModes, Integers, Sequences, SequencesExt, FiniteSets

CONSTANTS MaxTyped, MapLength, MaxObjects, Limit

VARIABLES
  which,
  heap, pass, marks, counter, todo, out, parser, read,   \* PrintAndRead
  typed, typedParser,                                    \* Typed
  text, fed, ctx, first, apart, failed,                  \* Tokenizer
  stored, canonical, roots, ser, des, results,           \* Serializer
  number, exact, rough,                                  \* Numbers
  json, origin, jfed, jp,                                \* Json
  str, meant, alive,                                     \* Strings
  linked, old, call, its, got, res, last, phase, result, met  \* Lists

printing == <<heap, pass, marks, counter, todo, out, parser, read>>
typing == <<typed, typedParser>>
feeding == <<text, fed, ctx, first, apart, failed>>
storing == <<stored, canonical, roots, ser, des, results>>
calculating == <<number, exact, rough>>
parsing == <<json, origin, jfed, jp>>
spelling == <<str, meant, alive>>
listing == <<linked, old, call, its, got, res, last, phase, result, met>>
formats == <<parsing, cipherVars, spelling, listing>>
vars == <<which, printing, typing, feeding, storing, calculating, formats>>

-----------------------------------------------------------------------------
(* Heaps of three cells: the others are reached from the first one.        *)

Refs == -1..3
Cell(kind, elems) == [kind |-> kind, elems |-> elems]
Linked(h) ==
  /\ 2 \in Range(h[1].elems)
  /\ 3 \in Range(h[1].elems) \union Range(h[2].elems)
HeapsOf(a, b, c) == {h \in {<<x, y, z>> : x \in a, y \in b, z \in c} : Linked(h)}

Cells(kind) == {Cell(kind, e) : e \in Refs \X Refs}

PrintedHeaps ==
  UNION {HeapsOf(Cells("pair"), Cells(kind), Cells("pair")) : kind \in {"pair", "vector"}}
    \union HeapsOf(Cells("vector"), Cells("pair"), Cells("pair"))

Table == Cells("table")
Ends(kind) == {Cell(kind, e) : e \in {-1, 1} \X Refs}
Followed(c) == {Cell("more", <<e, c + 1>>) : e \in Refs}
Instances == {Cell("instance", <<3, e>>) : e \in Refs}
Class == {Cell("canonical", <<>>)}
Opaque == {Cell("opaque", <<>>)}

StoredHeaps ==
  HeapsOf(Cells("vector"), Followed(2), Cells("last"))
    \union HeapsOf(Table, Cells("vector"), Ends("pair"))
    \union HeapsOf(Cells("vector"), Table, Ends("vector"))
    \union HeapsOf(Cells("vector"), Instances, Class)
    \union HeapsOf(Cells("pair"), Opaque, Cells("pair"))

-----------------------------------------------------------------------------
(* Tokens and texts.                                                       *)

Tok(type) == [type |-> type, of |-> IF type = "atom" THEN -1 ELSE 0]
TypedTokens ==
  {Tok(type) : type \in {"open", "close", "dot", "vector", "quote", "eval", "atom"}}

ShortTexts == [1..3 -> {" ", "(", ")", "a", ".", ",", "@", "#", "x", "\"", "\\", ";", "="}]

LongTexts ==
  { <<"(", "a", " ", ".", "#", "\\", "a", " ", "(", ")", ")", "~", "@", "a", "\n">>,
    <<"#", "=", "(", "a", " ", "#", "(", "#", "#", ")", "'", "#", "#", ")">>,
    <<"#", "\"", "a", "\\", "\"", "x", "\"", "\"", "\\", "\\", "\"", "#", "x", "0", " ">>,
    <<"(", "a", ".", ".", "a", " ", ",", "(", "#", "n", ",", "@", "a", ")", ")">>,
    <<"#", "0", "0", "=", "#", ":", "x", " ", "#", "0", "#", "#", "!", "a", "\n", "x", ")">>,
    <<"a", " ", "#", "x", "x", " ", "a", " ", ";", "x", "\n", "a", "(">> }

\* Operands of one word, two and three, with words that are zero or full.
MCOperand == {-65, -64, -9, -1, 0, 3, 8, 40, 193, 448}

-----------------------------------------------------------------------------
(* JSON texts and the objects they may be emitted for.                     *)

JsonChar == {"[", "]", "{", "}", ",", ":", "\"", "\\", "1", " "}
JsonTexts == [1..4 -> JsonChar]

Str(s) == [is |-> "string", chars |-> s]
NilObject == [is |-> "nil"]
Ten == [is |-> "number", digits |-> <<"1", "0">>]
ObjectOf(pairs) == [is |-> "object", pairs |-> pairs]
ObjectsOf(S) ==
  {ObjectOf(<<>>)}
    \union {ObjectOf(<<<<k, v>>>>) : k \in {Str(<<"a">>), Str(<<>>)}, v \in S}
    \union {ObjectOf(<<<<Str(<<"a">>), v>>, <<Ten, w>>>>) : v \in S, w \in S}

Strings == {Str(s) : s \in UNION {[1..n -> {"a", "\"", "\\", "n", "\n"}] : n \in 0..2}}
Simple == {NilObject, Ten, Str(<<"]">>), Str(<<"\"">>), Str(<<"\\", "\"">>)}
Arrays(S) == {[is |-> "array", items |-> s] : s \in {<<v>> : v \in S} \union (S \X S)}
JsonValues ==
  {NilObject, [is |-> "true"], Ten} \union Strings \union Arrays(Simple)
    \union ObjectsOf(Simple) \union Arrays(ObjectsOf({NilObject, Ten}))
    \union ObjectsOf(Arrays({NilObject, Str(<<",">>)}))

\* Ciphers of blocks of two bytes of two bits.
BlockOf(n) == <<n % 4, n \div 4>>
CipherBy(k) == [b \in [1..2 -> 0..3] |-> BlockOf((k * (b[1] + 4 * b[2]) + 5) % 16)]
MCCipher == {CipherBy(3), CipherBy(7)}
MCIV == {<<3, 2>>, <<2, 3>>}

\* The bits that are in one of two bytes of two bits and not in the other.
XorBits(a, b) ==
  LET bit(n, i) == (n \div 2^i) % 2
  IN  MapThenSumSet(LAMBDA i : 2^i, {i \in 0..1 : bit(a, i) # bit(b, i)})

\* Characters of one byte to four, one that gets shorter in upper case, and a mark.
UpperCase == [c \in {97, 233, 305} |-> CASE c = 97 -> 65 [] c = 233 -> 201 [] c = 305 -> 73]
LowerCase == [c \in {65, 201} |-> CASE c = 65 -> 97 [] c = 201 -> 233]
Words(S, n) == UNION {[1..k -> S] : k \in 0..n}
Texts ==
  Words({44, 97, 233}, 3) \union Words({44, 8364, 128512}, 3) \union Words({97, 305, 769}, 3)
    \union Words({95, 50, 100}, 2)
Needles ==
  {<<>>, <<44>>, <<201>>, <<97>>, <<8364>>, <<44, 97>>, <<97, 97>>, <<128512>>, <<45>>, <<95, 50, 100>>}

\* Heaps of three pairs with the items 1, 2 and 3, linked in all ways.  One of the
\* last two may be immutable if the first one links to them, but no pair is made
\* that is immutable and its own cdr.
Linkable(car, cdr, mutable) == [car |-> car, cdr |-> cdr, mutable |-> mutable]
ListHeaps ==
  {h \in {<<Linkable(1, x, TRUE), Linkable(2, y, m[1]), Linkable(3, z, m[2])>> :
            x \in Refs, y \in Refs, z \in Refs,
            m \in {<<TRUE, TRUE>>, <<FALSE, TRUE>>, <<TRUE, FALSE>>}} :
     \A c \in 2..3 : ~h[c].mutable => h[c].cdr # c /\ h[1].cdr = 2}
VisitedHeaps ==
  {<<Linkable(1, 2, TRUE), Linkable(2, y, TRUE), Linkable(3, z, TRUE)>> : y \in {0, 3, -1}, z \in {0, 1}}
ListArguments ==
  Words(Refs, 2) \union {<<a, b, c>> : a \in {0, 1}, b \in 0..2, c \in {-1, 0, 1, 3}}

\* A vector has a length, and a list none.
Coll(at, len) == [at |-> at, len |-> len]
ListCollections ==
  {<<>>, <<Coll(1, 3)>>, <<Coll(1, 2), Coll(1, 0)>>, <<Coll(0, 0), Coll(-1, 0)>>}
    \union {<<Coll(a, 0)>> : a \in {-1, 0, 1, 3}}
    \union {<<Coll(1, 0), Coll(a, 0)>> : a \in {0, 2}}
Unequal == {<<1, 2>>, <<2, 3>>, <<1, 3>>, <<2, 1>>, <<3, 1>>, <<3, 2>>}

-----------------------------------------------------------------------------

\* What the theorem about the ciphers assumes holds.
ASSUME CiphersAndBytes == CipherAssumption

PR == INSTANCE PrintAndRead WITH Heaps <- PrintedHeaps
TY == INSTANCE Typed WITH TypedToken <- TypedTokens, parser <- typedParser
TK == INSTANCE Tokenizer WITH Text <- ShortTexts \union LongTexts
SE == INSTANCE Serializer WITH Heaps <- StoredHeaps, Canonical <- {{}, {-1}}, heap <- stored
NU == INSTANCE Numbers WITH
        WORD_BITS <- 3, BYTE_BITS <- 2, FIXNUM_MAX <- 31, INT_BITS <- 9, Operand <- MCOperand,
        Count <- {1, 2, 3, 5, 9}, Modulus <- {7, 12, 37, 65, 100}, MaxDenominator <- 3
JS == INSTANCE Json WITH Text <- JsonTexts, Value <- JsonValues, text <- json, fed <- jfed
ST == INSTANCE Strings WITH
        Text <- Texts, Needle <- Needles, Replacement <- {<<>>, <<97, 8364>>},
        Upper <- UpperCase, Lower <- LowerCase, Letter <- {65, 97, 73, 201, 233, 305},
        Mark <- {769}, MaxLength <- 3
LI == INSTANCE Lists WITH
        Heap <- ListHeaps, Arguments <- ListArguments, Visited <- VisitedHeaps,
        Collections <- ListCollections, Comparisons <- SUBSET Unequal,
        Replies <- {-1, 0, 2, 3}, MaxMet <- 3, heap <- linked

NoPrint ==
  /\ heap = <<>> /\ pass = 0 /\ marks = <<>> /\ counter = 0 /\ todo = <<>> /\ out = <<>>
  /\ parser = <<>> /\ read = 0
NoType == typed = <<>> /\ typedParser = <<>>
NoFeed == text = <<>> /\ fed = 0 /\ ctx = <<>> /\ first = <<>> /\ apart = FALSE /\ failed = FALSE
NoStore ==
  /\ stored = <<>> /\ canonical = {} /\ roots = <<>> /\ ser = <<>> /\ des = <<>>
  /\ results = <<>>
NoNumber == number = <<>> /\ exact = <<>> /\ rough = FALSE
NoJson == json = <<>> /\ origin = <<>> /\ jfed = 0 /\ jp = <<>>
NoCipher ==
  /\ mode = "none" /\ cipher = <<>> /\ iv = <<>> /\ sender = <<>> /\ receiver = <<>>
  /\ plain = <<>> /\ wire = <<>> /\ opened = <<>> /\ end = "none"

NoString == str = <<>> /\ meant = <<>> /\ alive = FALSE
NoList ==
  /\ linked = <<>> /\ old = <<>> /\ call = <<>> /\ its = <<>> /\ got = <<>> /\ res = 0 /\ last = 0
  /\ phase = "none" /\ result = <<>> /\ met = <<>>

Alone(name) ==
  /\ which = name
  /\ name \notin {"json", "decipher", "spell", "list"} => NoJson /\ NoCipher /\ NoString
  /\ name # "list" => NoList
  /\ name \in {"json", "decipher", "spell", "list"} =>
       NoPrint /\ NoType /\ NoFeed /\ NoStore /\ NoNumber

Init ==
  \/ Alone("print") /\ PR!PInit /\ NoType /\ NoFeed /\ NoStore /\ NoNumber
  \/ Alone("type") /\ TY!TypedInit /\ NoPrint /\ NoFeed /\ NoStore /\ NoNumber
  \/ Alone("feed") /\ TK!Init /\ NoPrint /\ NoType /\ NoStore /\ NoNumber
  \/ Alone("store") /\ SE!Init /\ NoPrint /\ NoType /\ NoFeed /\ NoNumber
  \/ Alone("calculate") /\ NU!Init /\ NoPrint /\ NoType /\ NoFeed /\ NoStore
  \/ Alone("json") /\ JS!Init /\ NoCipher /\ NoString
  \/ Alone("decipher") /\ CipherInit /\ NoJson /\ NoString
  \/ Alone("spell") /\ ST!Init /\ NoJson /\ NoCipher
  \/ Alone("list") /\ LI!ListsInit /\ NoJson /\ NoCipher /\ NoString

Write ==
  /\ which = "print" /\ PR!Write
  /\ UNCHANGED <<which, typing, feeding, storing, calculating, formats>>

Next ==
  \/ Write
  \/ /\ which = "print" /\ PR!Read
     /\ UNCHANGED <<which, typing, feeding, storing, calculating, formats>>
  \/ /\ which = "type" /\ TY!TypedNext
     /\ UNCHANGED <<which, printing, feeding, storing, calculating, formats>>
  \/ /\ which = "feed" /\ TK!Next
     /\ UNCHANGED <<which, printing, typing, storing, calculating, formats>>
  \/ /\ which = "store" /\ SE!Step
     /\ UNCHANGED <<which, printing, typing, feeding, calculating, formats>>
  \/ /\ which = "calculate" /\ NU!Next
     /\ UNCHANGED <<which, printing, typing, feeding, storing, formats>>
  \/ /\ which = "json" /\ JS!Next
     /\ UNCHANGED <<which, printing, typing, feeding, storing, calculating>>
     /\ UNCHANGED <<cipherVars, spelling, listing>>
  \/ /\ which = "decipher" /\ CipherNext
     /\ UNCHANGED <<which, printing, typing, feeding, storing, calculating>>
     /\ UNCHANGED <<parsing, spelling, listing>>
  \/ /\ which = "spell" /\ ST!Next
     /\ UNCHANGED <<which, printing, typing, feeding, storing, calculating>>
     /\ UNCHANGED <<parsing, cipherVars, listing>>
  \/ /\ which = "list" /\ LI!ListsNext
     /\ UNCHANGED <<which, printing, typing, feeding, storing, calculating>>
     /\ UNCHANGED <<parsing, cipherVars, spelling>>

Spec == Init /\ [][Next]_vars /\ WF_vars(Write)

-----------------------------------------------------------------------------

\* What is printed reads back (writer.c, parse.c), so does an object emitted as
\* JSON (json.c), and what is deserialized is what was serialized, with tables that
\* are read with keys that are complete (serdes.c, hash.c).
ReadsBack ==
  /\ which = "print" => PR!ReadsBack
  /\ which = "json" => JS!ReadsBack
  /\ which = "store" => SE!RoundTrip /\ SE!KeysComplete

\* Printing ends (writer.c).
WritingEnds == (which = "print" /\ pass = 1 /\ PR!Tidy) ~> (pass = 3)

\* Tokens are read as the grammar says (parse.c).
ReadsGrammar == which = "type" => TY!ReadsGrammar

\* How a text is cut does not matter (parse.c, json.c, modes.c).
PiecesDoNotMatter ==
  /\ which = "feed" => TK!PiecesDoNotMatter
  /\ which = "json" => JS!PiecesDoNotMatter
  /\ which = "decipher" => AsWhole

\* What is computed is exact: numbers (number.c, bignum.c), strings, which are
\* read, ordered, searched, cut and named by their characters (strings.c), and
\* lists, whose items are neither lost nor met twice (types.c, primitives.c).
Exact ==
  /\ which = "calculate" => NU!Exact
  /\ which = "spell" =>
       /\ ST!ReadAsMeant /\ ST!Ordered /\ ST!Found
       /\ ST!SplitInParts /\ ST!PartIsMeant /\ ST!FilenamesUnique
  /\ which = "list" =>
       /\ LI!MeasuredRight /\ LI!NothingLost /\ LI!ListsMean /\ LI!SortedStable
       /\ LI!EachMetOnce /\ LI!MetThoughUnlinked /\ LI!FollowsFromAnswers

\* A string is split at the separators that are in it.
SplitSeparates == which = "spell" => ST!SplitSeparates
=============================================================================
