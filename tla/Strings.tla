------------------------------ MODULE Strings ------------------------------
(***************************************************************************)
(* The strings of src/src/strings.c: bytes in UTF-8 that are read, written *)
(* and walked by characters.  A position is the number of a byte, and Null *)
(* where the code has a null pointer.                                      *)
(*                                                                         *)
(* A string is kept with what it means, a sequence of characters, and each *)
(* operation is said a second time by what it is to mean.                  *)
(***************************************************************************)
EXTENDS Integers, Sequences, SequencesExt, FiniteSets, FiniteSetsExt

CONSTANTS
  Text,           \* the sequences of characters that strings are made of
  Needle,         \* those that are looked for
  Replacement,    \* those that replace others
  Upper, Lower,   \* characters with another case
  Letter, Mark,   \* categories of characters
  MaxLength       \* bound: the characters of a string

VARIABLES str, meant, alive
vars == <<str, meant, alive>>

Null == 0
End(s) == Len(s) + 1
Invalid == 65533   \* the replacement character

-----------------------------------------------------------------------------
(* Characters in UTF-8.                                                    *)

Tail6(c, n) == 128 + ((c \div 64^n) % 64)
Encoded(c) ==
  CASE c <= 127 -> <<c>>
    [] c \in 128..2047 -> <<192 + (c \div 64), Tail6(c, 0)>>
    [] c \in 2048..65535 -> <<224 + (c \div 4096), Tail6(c, 1), Tail6(c, 0)>>
    [] OTHER -> <<240 + (c \div 262144), Tail6(c, 2), Tail6(c, 1), Tail6(c, 0)>>

ListToString(l) == FlattenSeq([i \in DOMAIN l |-> Encoded(l[i])])

Continues(b) == b \div 64 = 2

\* Variant: any byte begins a character.
AllBytes(s, p) == (p + 1)..Len(s)

Heads(s, p) == {q \in (p + 1)..Len(s) : ~Continues(s[q])}
NextChar(s, p) == IF Heads(s, p) = {} THEN Null ELSE Min(Heads(s, p))

\* The positions of a walk by next_char: it begins at p, whatever is there.
Starts(s, p) == IF p = Null THEN <<>> ELSE <<p>> \o SetToSortSeq(Heads(s, p), <)

\* The bytes that follow the first one, by its upper bits.
Following(b) ==
  CASE b < 128 -> 0
    [] b \div 32 = 6 -> 1
    [] b \div 16 = 14 -> 2
    [] b \div 8 = 30 -> 3
    [] OTHER -> 4

\* A zero byte is behind every string.  Four bytes are masked like three.
GetChar(s, p) ==
  LET n == IF p > Len(s) THEN 0 ELSE Following(s[p])
      ch == FoldLeft(LAMBDA acc, q : acc * 64 + (s[p + q] % 64), s[p] % 32, [q \in 1..n |-> q])
      least == <<0, 128, 2048, 0>>[n + 1]
  IN  CASE p > Len(s) -> 0
        [] p <= Len(s) /\ n = 0 -> s[p]
        [] n = 4 -> Invalid
        [] n \in 1..3 /\ (p + n > Len(s) \/ \E q \in 1..n : ~Continues(s[p + q])) -> Invalid
        [] OTHER -> IF (ch < least /\ ~(n = 1 /\ ch = 0)) \/ ch > 1114111 THEN Invalid ELSE ch

\* The characters of a walk from p, and those of a whole string.
Walked(s, p) == LET st == Starts(s, p) IN [i \in DOMAIN st |-> GetChar(s, st[i])]
StringToList(s) == IF s = <<>> THEN <<>> ELSE Walked(s, 1)

Up(c) == IF c \in DOMAIN Upper THEN Upper[c] ELSE c
Down(c) == IF c \in DOMAIN Lower THEN Lower[c] ELSE c
Ups(l) == [i \in DOMAIN l |-> Up(l[i])]

-----------------------------------------------------------------------------
(* Comparing and searching.                                                *)

\* memcmp of the bytes both have, then the lengths.
Cmp(a, b) ==
  LET n == Min({Len(a), Len(b)})
      differ == {i \in 1..n : a[i] # b[i]}
  IN  CASE differ # {} -> IF a[Min(differ)] < b[Min(differ)] THEN -1 ELSE 1
        [] Len(a) = Len(b) -> 0
        [] OTHER -> IF Len(a) < Len(b) THEN -1 ELSE 1

CmpCi(a, b) == Cmp(Ups(Walked(a, 1)), Ups(Walked(b, 1)))

Missing == -1
Killed == -2

\* Variant: what is counted is the bytes before n.
SearchByByte(n, s, p) ==
  LET found == {q \in p..End(s) : q + Len(n) <= End(s) /\ SubSeq(s, q, q + Len(n) - 1) = n}
  IN  IF found = {} THEN Missing ELSE Min(found) - p

\* The number of characters before n in the string from p.  The search goes on
\* with a null pointer when the last character is as long as what is sought.
Search(n, s, p) ==
  LET st == Starts(s, p)
      found == {k \in DOMAIN st : /\ st[k] + Len(n) <= End(s)
                                  /\ SubSeq(s, st[k], st[k] + Len(n) - 1) = n}
  IN  CASE n = <<>> -> 0
        [] n # <<>> /\ found # {} -> Min(found) - 1
        [] n # <<>> /\ found = {} -> IF End(s) - Last(st) >= Len(n) THEN Killed ELSE Missing

CiPrefix(n, s, p) == IsPrefix(Ups(Walked(n, 1)), Ups(Walked(s, p)))

SearchCi(n, s, p) ==
  LET st == Starts(s, p)
      found == {k \in DOMAIN st : CiPrefix(n, s, st[k])}
  IN  CASE n = <<>> -> 0
        [] n # <<>> /\ found # {} -> Min(found) - 1
        [] OTHER -> Missing

SkipChars(s, p, n) ==
  LET st == Starts(s, p) IN IF n < Len(st) THEN st[n + 1] ELSE Null

-----------------------------------------------------------------------------
(* Splitting and joining.  A cut is where a separator begins and where what*)
(* follows it does; left is the number of cuts that may be made, if any.   *)

DeadCut == <<0, 0>>
OrEnd(s, p) == IF p = Null THEN End(s) ELSE p

RECURSIVE Cuts(_, _, _, _, _)
Cuts(sep, s, sensitive, left, p) ==
  LET pos == IF sensitive THEN Search(sep, s, p) ELSE SearchCi(sep, s, p)
      at == SkipChars(s, p, pos)
      after == SkipChars(s, at, Len(StringToList(sep)))
  IN  CASE p = Null \/ left = 0 -> <<>>
        [] p # Null /\ left # 0 /\ pos = Missing -> <<>>
        [] p # Null /\ left # 0 /\ pos = Killed -> <<DeadCut>>
        [] OTHER -> <<<<at, OrEnd(s, after)>>>> \o Cuts(sep, s, sensitive, left - 1, after)

Dies(cuts) == DeadCut \in Range(cuts)

\* Variant: the separator stays before the part that follows it.
PartsWithSeparator(s, cuts, keep) ==
  LET parts == [i \in 1..(Len(cuts) + 1) |->
                  SubSeq(s, IF i = 1 THEN 1 ELSE cuts[i - 1][1],
                            IF i > Len(cuts) THEN Len(s) ELSE cuts[i][1] - 1)]
  IN  IF keep THEN parts ELSE SelectSeq(parts, LAMBDA part : part # <<>>)

Parts(s, cuts, keep) ==
  LET parts == [i \in 1..(Len(cuts) + 1) |->
                  SubSeq(s, IF i = 1 THEN 1 ELSE cuts[i - 1][2],
                            IF i > Len(cuts) THEN Len(s) ELSE cuts[i][1] - 1)]
  IN  IF keep THEN parts ELSE SelectSeq(parts, LAMBDA part : part # <<>>)

Limited(cuts, max) == IF max = -1 THEN cuts ELSE SubSeq(cuts, 1, Min({max - 1, Len(cuts)}))

SplitCuts(s, sep, max, sensitive) == Cuts(sep, s, sensitive, IF max = -1 THEN -1 ELSE max - 1, 1)

ContainsChar(bag, c) == c \in Range(Walked(bag, 1))

\* A separator that ends the string leaves a null pointer to the last part.
CharCuts(s, bag, max) ==
  LET at == SelectSeq(Starts(s, 1), LAMBDA p : ContainsChar(bag, GetChar(s, p)))
      cuts == Limited([i \in DOMAIN at |-> <<at[i], NextChar(s, at[i])>>], max)
  IN  IF cuts # <<>> /\ Last(cuts)[2] = Null THEN <<DeadCut>> ELSE cuts

ByteCuts(s, bag, max) ==
  LET at == SelectSeq([i \in DOMAIN s |-> i], LAMBDA p : s[p] \in Range(bag))
  IN  Limited([i \in DOMAIN at |-> <<at[i], at[i] + 1>>], max)

Join(parts, sep) ==
  FlattenSeq([i \in DOMAIN parts |-> IF i = 1 THEN parts[i] ELSE sep \o parts[i]])

Replace(s, from, to, max, sensitive) ==
  LET cuts == Cuts(from, s, sensitive, max, 1)
  IN  IF Dies(cuts) THEN <<Killed>> ELSE Join(Parts(s, cuts, TRUE), to)

-----------------------------------------------------------------------------
(* Strings from strings.                                                   *)

\* The end may be left open by -1, and both may count from the end.
Substring(s, start, end) ==
  LET len == Len(StringToList(s))
      both == start < 0 \/ end < -1
      b == IF both /\ start < 0 THEN len + start + 1 ELSE start
      e == IF both /\ end < 0 THEN len + end + 1 ELSE end
      sp == IF b = len THEN (IF e = len THEN End(s) ELSE Null) ELSE SkipChars(s, 1, b)
      ep == CASE e = -1 -> End(s)
              [] e = len -> End(s)
              [] e # -1 /\ e # len -> IF e \in 0..len THEN SkipChars(s, 1, e) ELSE Null
  IN  IF (b > e /\ e # -1) \/ s = <<>> \/ b < 0 \/ sp = Null \/ ep = Null
      THEN <<Missing>> ELSE SubSeq(s, sp, ep - 1)

\* Variant: whatever is not a letter begins a word.
TitledAfterMark(acc, c) ==
  CASE c \in Letter -> [out |-> Append(acc.out, IF acc.first THEN Up(c) ELSE c), first |-> FALSE]
    [] OTHER -> [out |-> Append(acc.out, c), first |-> TRUE]

Titled(acc, c) ==
  CASE c \in Letter -> [out |-> Append(acc.out, IF acc.first THEN Up(c) ELSE c), first |-> FALSE]
    [] c \notin Letter -> [out |-> Append(acc.out, c), first |-> acc.first \/ c \notin Mark]

StringCase(s, m) ==
  LET l == StringToList(s)
  IN  ListToString(CASE m = "up" -> Ups(l)
                     [] m = "down" -> [i \in DOMAIN l |-> Down(l[i])]
                     [] m = "title" -> FoldLeft(Titled, [out |-> <<>>, first |-> TRUE], l).out)

Delete == -1
TranslateChar(c, from, to) ==
  LET f == StringToList(from)
      t == StringToList(to)
      at == {i \in DOMAIN f : f[i] = c}
  IN  CASE at = {} -> c
        [] at # {} /\ Min(at) \in DOMAIN t -> t[Min(at)]
        [] OTHER -> Delete

Translate(s, from, to) ==
  LET l == StringToList(s)
  IN  ListToString(SelectSeq([i \in DOMAIN l |-> TranslateChar(l[i], from, to)],
                             LAMBDA c : c # Delete))

\* Side is -1 for the right edge, 1 for the left one, 0 for both.  Without a
\* character that stays, the right edge has a null pointer for its end.
Trim(s, bag, side) ==
  LET st == Starts(s, 1)
      kept == {k \in DOMAIN st : ~ContainsChar(bag, GetChar(s, st[k]))}
      sp == IF side = -1 THEN 1 ELSE st[Min(kept)]
      ep == IF side = 1 THEN End(s) ELSE OrEnd(s, NextChar(s, st[Max(kept)]))
  IN  CASE kept = {} /\ side >= 0 -> <<>>
        [] kept = {} /\ side = -1 -> <<Killed>>
        [] OTHER -> SubSeq(s, sp, ep - 1)

Hex(n) == IF n < 10 THEN 48 + n ELSE 87 + n

\* Variant: the character that escapes is not escaped.
SafeByteOnce(b, upper, hyphen) ==
  CASE b \in (97..122) \union (48..57) \union {95} \/ (upper /\ b \in 65..90) -> <<b>>
    [] b = hyphen -> <<45>>
    [] OTHER -> <<95, Hex(b \div 16), Hex(b % 16)>>

SafeByte(b, upper, hyphen) ==
  CASE b \in (97..122) \union (48..57) \/ (upper /\ b \in 65..90) -> <<b>>
    [] b = hyphen -> <<45>>
    [] b = 95 -> <<95, 95>>
    [] OTHER -> <<95, Hex(b \div 16), Hex(b % 16)>>
SafeFilename(s, upper, hyphen) ==
  IF s = <<>> THEN <<95>>
  ELSE FlattenSeq([i \in DOMAIN s |-> SafeByte(s[i], upper, hyphen)])

-----------------------------------------------------------------------------
(* What the operations are to mean, for sequences of characters.           *)

\* The characters that are read: one above U+FFFF is not read as what it is.
Seen(l) == [i \in DOMAIN l |-> IF l[i] > 65535 THEN Invalid ELSE l[i]]
Chars == Seen(meant)

SameIn(sensitive, l) == IF sensitive THEN l ELSE Ups(Seen(l))
Occurs(n, l, i) == i + Len(n) <= Len(l) + 1 /\ SubSeq(l, i, i + Len(n) - 1) = n
First(n, l) ==
  LET at == {i \in 1..(Len(l) + 1) : Occurs(n, l, i)}
  IN  IF at = {} THEN Missing ELSE Min(at) - 1

\* The longest run of first separators from the left that do not overlap.
FirstCuts(n, l) ==
  LET at == {i \in DOMAIN l : Occurs(n, l, i)}
      taken[i \in Nat] == i \in at /\ \A j \in 1..(i - 1) : taken[j] => j + Len(n) <= i
  IN  SetToSortSeq({i \in at : taken[i]}, <)
CutOut(n, l, left) ==
  LET at == FirstCuts(n, l)
      few == IF left < 0 THEN at ELSE SubSeq(at, 1, Min({left, Len(at)}))
  IN  [k \in DOMAIN few |-> <<few[k], few[k] + Len(n)>>]

Recased(m) ==
  CASE m = "up" -> Ups(Chars)
    [] m = "down" -> [i \in DOMAIN Chars |-> Down(Chars[i])]
    [] m = "title" ->
         [i \in DOMAIN Chars |->
            LET before == {j \in 1..(i - 1) : Chars[j] \notin Mark}
            IN  IF Chars[i] \in Letter /\ (before = {} \/ Chars[Max(before)] \notin Letter)
                THEN Up(Chars[i]) ELSE Chars[i]]

Translated(from, to) ==
  LET at(c) == First(<<c>>, Seen(from)) + 1
  IN  FlattenSeq([i \in DOMAIN Chars |->
        CASE at(Chars[i]) = 0 -> <<Chars[i]>>
          [] at(Chars[i]) \in DOMAIN to -> <<Seen(to)[at(Chars[i])]>>
          [] OTHER -> <<>>])

Replaced(from, to, max, sensitive) ==
  Join(Parts(meant, CutOut(SameIn(sensitive, from), SameIn(sensitive, meant), max), TRUE), to)

Trimmed(bag, side) ==
  LET kept == {i \in DOMAIN Chars : Chars[i] \notin Range(Seen(bag))}
  IN  IF kept = {} THEN <<>>
      ELSE SubSeq(meant, IF side = -1 THEN 1 ELSE Min(kept), IF side = 1 THEN Len(Chars) ELSE Max(kept))

-----------------------------------------------------------------------------

Init ==
  /\ meant \in Text
  /\ str = ListToString(meant)
  /\ alive = TRUE

\* A call that goes through a null pointer ends the process.
Become(s, m) ==
  /\ alive
  /\ Len(m) <= MaxLength
  /\ IF s = <<Killed>> THEN alive' = FALSE /\ UNCHANGED <<str, meant>>
                       ELSE str' = s /\ meant' = m /\ UNCHANGED alive

Recase(m) == Become(StringCase(str, m), Recased(m))
DoTranslate(from, to) == Become(Translate(str, ListToString(from), ListToString(to)), Translated(from, to))
DoReplace(from, to, max, sensitive) ==
  Become(Replace(str, ListToString(from), ListToString(to), max, sensitive),
         Replaced(from, to, max, sensitive))
DoTrim(bag, side) == Become(Trim(str, ListToString(bag), side), Trimmed(bag, side))

Next ==
  \/ \E m \in {"up", "down", "title"} : Recase(m)
  \/ \E from \in Needle, to \in Replacement : DoTranslate(from, to)
  \/ \E from \in Needle, to \in Replacement, max \in {-1, 1}, sensitive \in BOOLEAN :
       from # <<>> /\ DoReplace(from, to, max, sensitive)
  \/ \E bag \in Needle, side \in -1..1 : DoTrim(bag, side)

Spec == Init /\ [][Next]_vars

-----------------------------------------------------------------------------

\* Whatever was done to a string, it is read as the characters it is to mean
\* (get_char, next_char and the operations).
ReadAsMeant == StringToList(str) = Chars

\* The order of bytes is that of characters, also of those without case, and the
\* order regardless of case is that of the characters in upper case, one for one.
Ordered ==
  \A n \in Needle \ {<<>>} : meant # <<>> =>
    /\ Cmp(str, ListToString(n)) = Cmp(meant, n)
    /\ CmpCi(str, ListToString(n)) = Cmp(Ups(Chars), Ups(Seen(n)))

\* A search finds the first place, in characters, where what is sought occurs.
\* What does not occur may end the process instead (search_impl).
Found ==
  \A n \in Needle :
    LET b == ListToString(n) IN
    /\ Search(b, str, 1) \in {First(n, meant)} \union (IF First(n, meant) = Missing THEN {Killed} ELSE {})
    /\ SearchCi(b, str, 1) = First(Ups(Seen(n)), Ups(Chars))

\* The parts of a string are what is between separators, and together with the
\* separators they are the string.
PartsOf(s, cuts, keep) ==
  LET parts == Parts(s, cuts, keep) IN [i \in DOMAIN parts |-> StringToList(parts[i])]
IsSplit(cuts, separators) ==
  Dies(cuts) \/ \A keep \in BOOLEAN : PartsOf(str, cuts, keep) = Parts(Chars, separators, keep)
OneOf(bag) ==
  LET at == SelectSeq([i \in DOMAIN Chars |-> i], LAMBDA i : Chars[i] \in Range(Seen(bag)))
  IN  [k \in DOMAIN at |-> <<at[k], at[k] + 1>>]
SplitInParts ==
  \A n \in Needle \ {<<>>}, max \in {-1, 2} :
    LET b == ListToString(n) IN
    /\ \A sensitive \in BOOLEAN :
         IsSplit(SplitCuts(str, b, max, sensitive),
                 CutOut(SameIn(sensitive, n), SameIn(sensitive, meant), IF max = -1 THEN -1 ELSE max - 1))
    /\ IsSplit(CharCuts(str, b, max), Limited(OneOf(n), max))
    /\ \A sensitive \in {TRUE} :
         LET cuts == SplitCuts(str, b, max, sensitive)
         IN  Dies(cuts) \/ Join(Parts(str, cuts, TRUE), b) = str

\* A string is split at the separators that are in it ("Split string into parts
\* separated by separator").
SplitSeparates ==
  \A n \in Needle \ {<<>>} : ~Dies(SplitCuts(str, ListToString(n), -1, TRUE))

\* A part of a string is given by characters counted from either end, but for the
\* empty string and an empty part at the end that is left open (string_substring).
PartIsMeant ==
  \A start, end \in (-2)..MaxLength :
    LET len == Len(Chars)
        b == IF start < 0 THEN len + start + 1 ELSE start
        e == IF end < 0 THEN len + end + 1 ELSE end
        sub == Substring(str, start, end)
    IN  IF sub = <<Missing>> THEN (b \notin 0..e \/ e > len \/ len = 0 \/ (b = len /\ end = -1))
        ELSE StringToList(sub) = SubSeq(Chars, b + 1, e)

\* No two strings have one file name ("both unique and easily reversable").
FilenamesUnique ==
  \A n \in Needle, upper \in BOOLEAN, hyphen \in {45, 95, 97} :
    SafeFilename(str, upper, hyphen) = SafeFilename(ListToString(n), upper, hyphen) =>
      str = ListToString(n)
=============================================================================
