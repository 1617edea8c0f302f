------------------------------- MODULE Bignum -------------------------------
(***************************************************************************)
(* The integers of any length of src/src/bignum.c: words of WORD_BITS bits *)
(* with the least significant one first, in variables one bit wider, and   *)
(* a sign.  Words after the last one read as zero, which is how objects    *)
(* are allocated.  This is the build with words of 15 bits, of which the   *)
(* product fits an int.  With DFSCH_32BIT_BIGNUM, which nothing defines,   *)
(* the product of two words is cut to 32 bits before it is added           *)
(* (bignum.c:536), and is not what is modelled here.                       *)
(***************************************************************************)
EXTENDS Integers, Sequences, SequencesExt, FiniteSetsExt, Bitwise

CONSTANTS
  WORD_BITS,   \* 15, at least 3 here
  BYTE_BITS    \* 8; two bytes are one bit longer than a word, as in a build
               \* with words of 15 bits

WORD_BASE == 2^WORD_BITS
WORD_MASK == WORD_BASE - 1
word_t(n) == n % (2 * WORD_BASE)

Big(negative, words) == [negative |-> negative, words |-> words]

Upto(n) == [i \in 1..n |-> i]
At(words, i) == IF i \in DOMAIN words THEN words[i] ELSE 0
Longest(a, b) == Max({Len(a), Len(b)})

Normalize(words) == SubSeq(words, 1, Max({0} \union {i \in DOMAIN words : words[i] # 0}))

\* dfsch_make_bignum_int64
MakeBignum(n) ==
  LET abs == IF n < 0 THEN -n ELSE n
  IN  Big(n < 0, Normalize([i \in 1..8 |-> (abs \div WORD_BASE^(i - 1)) % WORD_BASE]))

\* dfsch_bignum_cmp_abs and dfsch_bignum_cmp
CmpAbs(a, b) ==
  LET differ == {i \in DOMAIN a : a[i] # b[i]}
  IN  CASE Len(a) < Len(b) -> -1
        [] Len(a) > Len(b) -> 1
        [] differ = {} -> 0
        [] OTHER -> IF a[Max(differ)] < b[Max(differ)] THEN -1 ELSE 1
Cmp(a, b) ==
  CASE a.negative /\ ~b.negative -> -1
    [] b.negative /\ ~a.negative -> 1
    [] OTHER -> IF a.negative THEN CmpAbs(b.words, a.words) ELSE CmpAbs(a.words, b.words)

-----------------------------------------------------------------------------
(* Sums.                                                                   *)

\* The words made so far, with one made of the low bits of cy.
With(acc, cy) == [cy |-> cy, words |-> Append(acc.words, cy % WORD_BASE)]
NoWords == [cy |-> 0, words |-> <<>>]
Carried(acc) == Normalize(Append(acc.words, acc.cy \div WORD_BASE))

AddAbs(a, b) ==
  LET add(acc, i) == With(acc, acc.cy \div WORD_BASE + At(a, i) + At(b, i))
  IN  Carried(FoldLeft(add, NoWords, Upto(Longest(a, b))))

\* bignum_sub_abs, with the sign of the difference
SubAbs(a, b) ==
  LET swapped == Len(a) < Len(b) \/ (Len(a) = Len(b) /\ CmpAbs(a, b) = -1)
      x == IF swapped THEN b ELSE a
      y == IF swapped THEN a ELSE b
      sub(acc, i) == With(acc, word_t(At(x, i) - At(y, i) - ((acc.cy \div WORD_BASE) % 2)))
  IN  IF a = b THEN Big(FALSE, <<>>)
      ELSE Big(swapped, Normalize(FoldLeft(sub, NoWords, Upto(Len(x))).words))

Add(a, b) ==
  IF a.negative = b.negative THEN Big(a.negative, AddAbs(a.words, b.words))
  ELSE IF a.negative THEN SubAbs(b.words, a.words)
  ELSE SubAbs(a.words, b.words)

Sub(a, b) ==
  LET turned(d) == Big(d.negative # a.negative, d.words)
  IN  IF a.negative # b.negative THEN Big(a.negative, AddAbs(a.words, b.words))
      ELSE turned(SubAbs(a.words, b.words))

Neg(a) == Big(~a.negative, a.words)

-----------------------------------------------------------------------------
(* Products.                                                               *)

\* Row by row, each from the i-th word on.
MulAbs(a, b) ==
  LET step(row, acc, i, j) == With(acc, acc.cy \div WORD_BASE + At(row, i + j - 1) + a[i] * b[j])
      ended(row, acc, i) == SubSeq(row, 1, i - 1) \o Append(acc.words, acc.cy \div WORD_BASE)
      added(row, i) == ended(row, FoldLeft(LAMBDA acc, j : step(row, acc, i, j), NoWords,
                                           Upto(Len(b))), i)
  IN  Normalize(FoldLeft(added, <<>>, Upto(Len(a))))

Mul(a, b) == Big(a.negative # b.negative, MulAbs(a.words, b.words))

\* bignum_muladd_digit, which adds nothing
MulDigit(a, q) ==
  LET step(acc, i) == With(acc, q * a[i] + acc.cy \div WORD_BASE)
  IN  Carried(FoldLeft(step, NoWords, Upto(Len(a))))

-----------------------------------------------------------------------------
(* Quotients: a record of quotient and remainder, the words of which are   *)
(* to be normalized.                                                       *)

DivDigit(a, b) ==
  LET step(acc, i) ==
        LET r == acc.r * WORD_BASE + a[i]
        IN  [r |-> r - (r \div b) * b, q |-> <<(r \div b) % WORD_BASE>> \o acc.q]
  IN  FoldLeft(step, [r |-> 0, q |-> <<>>], Reverse(Upto(Len(a))))

\* The digit tried at the i-th word of x, from the two highest words of y.
TryDigit(x, y, i) ==
  LET high == At(x, i + 1)
      top == y[Len(y)]
      most == IF high = top THEN WORD_MASK ELSE (high * WORD_BASE + x[i]) \div top
      fits(d) == y[Len(y) - 1] * d <= (high * WORD_BASE + x[i] - d * top) * WORD_BASE + x[i - 1]
  IN  Max({d \in 0..most : fits(d)})

\* d times y is taken from x at its j-th word; cy is what is left over.
TakeOff(x, y, j, d) ==
  LET n == Min({Len(y), Len(x) - j + 1})
      step(acc, k) ==
        LET cy == acc.cy + acc.x[k + j - 1] - ((y[k] * d) % WORD_BASE)
        IN  [x |-> [acc.x EXCEPT ![k + j - 1] = cy % WORD_BASE],
             cy |-> cy \div WORD_BASE - (y[k] * d) \div WORD_BASE]
      ended(acc) == IF n + j > Len(x) THEN acc
                    ELSE [x |-> [acc.x EXCEPT ![n + j] = 0], cy |-> acc.cy + acc.x[n + j]]
  IN  ended(FoldLeft(step, [x |-> x, cy |-> 0], Upto(n)))

\* It was one time too many.
AddBack(x, y, j) ==
  LET step(acc, k) ==
        LET cy == acc.cy + acc.x[k + j - 1] + y[k]
        IN  [x |-> [acc.x EXCEPT ![k + j - 1] = cy % WORD_BASE], cy |-> cy \div WORD_BASE]
  IN  FoldLeft(step, [x |-> x, cy |-> 0], Upto(Min({Len(y), Len(x) - j + 1}))).x

\* Variant: the digit is right although nothing is added back.
DigitKept(q, y, j, d, off) == [x |-> off.x, q |-> <<d>> \o q]

\* Anything else left over aborts the process.
Digit(q, y, j, d, off) ==
  CASE off.cy = 0 -> [x |-> off.x, q |-> <<d>> \o q]
    [] off.cy = -1 -> [x |-> AddBack(off.x, y, j), q |-> <<d - 1>> \o q]
    [] OTHER -> [x |-> off.x, q |-> <<"aborted">>]

\* bignum_div_big, for divisors of two words or more, which are made to begin
\* with a high word
DivBig(a, b) ==
  LET next(y, acc, j, d) == Digit(acc.q, y, j, d, TakeOff(acc.x, y, j, d))
      step(y, acc, j) == next(y, acc, j, TryDigit(acc.x, y, j + Len(y) - 1))
      digits(x, y) == FoldLeft(LAMBDA acc, j : step(y, acc, j), [x |-> x, q |-> <<>>],
                               Reverse(Upto(Len(x) - Len(y) + 1)))
      back(acc, l) == [q |-> acc.q, r |-> DivDigit(Normalize(acc.x), l).q]
      scaled(l) == back(digits(MulDigit(a, l), MulDigit(b, l)), l)
  IN  scaled(WORD_BASE \div (b[Len(b)] + 1))

\* dfsch_bignum_div; b is not zero.
Div(a, b) ==
  LET signed(d) == [q |-> Big(a.negative # b.negative, Normalize(d.q)),
                    r |-> Big(a.negative, Normalize(d.r))]
      one(d) == [q |-> d.q, r |-> <<d.r>>]
  IN  signed(CASE CmpAbs(a.words, b.words) < 0 -> [q |-> <<>>, r |-> a.words]
               [] Len(b.words) = 1 -> one(DivDigit(a.words, b.words[1]))
               [] OTHER -> DivBig(a.words, b.words))

-----------------------------------------------------------------------------
(* Powers.                                                                 *)

One == Big(FALSE, <<1>>)
ShlWords(a, n) == Big(FALSE, [i \in 1..n |-> 0] \o a.words)
ShrWords(a, n) == Big(FALSE, SubSeq(a.words, n + 1, Len(a.words)))
CopyWords(a, n) == Big(a.negative, SubSeq(a.words, 1, Min({n, Len(a.words)})))

BarretPrepare(m) == Div(ShlWords(One, 2 * Len(m.words)), m).q

RECURSIVE Reduced(_, _)
Reduced(r, m) == IF Cmp(r, m) >= 0 THEN Reduced(Sub(r, m), m) ELSE r

\* The remainder of x, from an estimate of the quotient by the product with mu.
BarretReduce(x, m, mu) ==
  LET k == Len(m.words)
      q3 == ShrWords(Mul(ShrWords(x, k - 1), mu), k + 1)
      raised(r) == IF r.negative THEN Add(r, ShlWords(One, k + 1)) ELSE r
  IN  IF Len(x.words) >= 2 * k THEN Div(x, m).r
      ELSE Reduced(raised(Sub(CopyWords(x, k + 1), CopyWords(Mul(q3, m), k + 1))), m)

\* dfsch_bignum_exp: Reduce is barret_reduce, or nothing without a modulus.
Power(b, e, Reduce(_)) ==
  LET bit(n) == (e.words[n \div WORD_BITS + 1] \div 2^(n % WORD_BITS)) % 2
      times(square, n) == IF bit(n - 1) = 1 THEN Reduce(Mul(square, b)) ELSE square
      step(r, n) == times(Reduce(Mul(r, r)), n)
  IN  FoldLeft(step, One, Reverse(Upto(Len(e.words) * WORD_BITS)))

Exp(b, e) == Power(b, e, LAMBDA x : x)
ExpModBy(b, e, m, mu) == Power(b, e, LAMBDA x : BarretReduce(x, m, mu))
ExpMod(b, e, m) == ExpModBy(b, e, m, BarretPrepare(m))

-----------------------------------------------------------------------------
(* Bits.                                                                   *)

\* bignum_add_abs_digit and bignum_sub_abs_digit of 1.  The first word is not
\* cut to WORD_BITS bits.
AddOne(a) ==
  LET step(acc, i) == With(acc, a[i] + acc.cy \div WORD_BASE)
      first == [cy |-> a[1] + 1, words |-> <<a[1] + 1>>]
  IN  IF a = <<>> THEN <<1>> ELSE Carried(FoldLeft(step, first, Tail(Upto(Len(a)))))

SubOne(a) ==
  LET step(acc, i) == With(acc, a[i] - ((acc.cy \div WORD_BASE) % 2))
      first == [cy |-> a[1] - 1, words |-> <<word_t(a[1] - 1)>>]
      ended(acc) == Normalize(Append(acc.words, (acc.cy \div WORD_BASE) % 2))
  IN  IF a = <<>> THEN <<1>> ELSE ended(FoldLeft(step, first, Tail(Upto(Len(a)))))

LogNot(a) == Big(~a.negative, IF a.negative THEN SubOne(a.words) ELSE AddOne(a.words))

\* logop: the words of a negative number are those of its complement,
\* inverted; a negative result is computed inverted, and so are the operands of
\* "and" and "ior" then.
LogOp(a, b, op) ==
  LET inv == CASE op = "and" -> a.negative /\ b.negative
               [] op = "ior" -> a.negative \/ b.negative
               [] OTHER -> a.negative # b.negative
      swap == inv /\ op # "xor"
      words(n) == IF n.negative THEN LogNot(n).words ELSE n.words
      word(n, i, inverted) == At(words(n), i) ^^ (IF inverted THEN WORD_MASK ELSE 0)
      x(i) == word(a, i, a.negative # inv)
      y(i) == word(b, i, b.negative # swap)
      both(i) == CASE op = "xor" -> x(i) ^^ y(i)
                   [] (op = "and") # swap -> x(i) & y(i)
                   [] OTHER -> x(i) | y(i)
      r == Big(FALSE, Normalize([i \in 1..Longest(words(a), words(b)) |-> both(i)]))
  IN  IF inv THEN LogNot(r) ELSE r

Shr(a, n) ==
  LET ws == n \div WORD_BITS
      bs == 2^(n % WORD_BITS)
      word(i) == (At(a.words, i + ws) \div bs + At(a.words, i + ws + 1) * (WORD_BASE \div bs))
                   % WORD_BASE
  IN  Big(a.negative, Normalize([i \in 1..(Len(a.words) - ws) |-> word(i)]))

Shl(a, n) ==
  LET ws == n \div WORD_BITS
      bs == 2^(n % WORD_BITS)
      word(i) == (At(a.words, i - ws) * bs + At(a.words, i - ws - 1) \div (WORD_BASE \div bs))
                   % WORD_BASE
  IN  Big(a.negative, Normalize([i \in 1..(Len(a.words) + ws + 1) |-> word(i)]))

-----------------------------------------------------------------------------
(* Conversions.                                                            *)

\* dfsch_bignum_to_string: digits, the highest first
RECURSIVE Digits(_, _)
Digits(words, base) ==
  LET further(d) == Append(Digits(Normalize(d.q), base), d.r)
  IN  IF words = <<>> THEN <<>> ELSE further(DivDigit(words, base))

\* dfsch_bignum_to_bytes: bytes, the highest first
ToBytes(words) ==
  LET byte(n) ==
        LET w == n \div WORD_BITS + 1
            s == n % WORD_BITS
            low == words[w] \div 2^s
        IN  IF s < WORD_BITS - BYTE_BITS THEN low % 2^BYTE_BITS
            ELSE (low + At(words, w + 1) * 2^(WORD_BITS - s)) % 2^BYTE_BITS
      count == (Len(words) * WORD_BITS + BYTE_BITS - 1) \div BYTE_BITS
  IN  Reverse(Normalize([i \in 1..count |-> byte((i - 1) * BYTE_BITS)]))

\* dfsch_bignum_from_bytes: a byte goes into one word or the ends of two.
FromBytes(bytes, negative) ==
  LET put(words, i) ==
        LET n == (i - 1) * BYTE_BITS
            w == n \div WORD_BITS + 1
            s == n % WORD_BITS
            v == bytes[Len(bytes) - i + 1]
        IN  [words EXCEPT ![w] = (@ + v * 2^s) % WORD_BASE,
                          ![w + 1] = @ + v \div 2^(WORD_BITS - s)]
      signed(words) == Big(negative /\ words # <<>>, words)
  IN  signed(Normalize(FoldLeft(put, [i \in 1..(2 * Len(bytes) + 1) |-> 0], Upto(Len(bytes)))))
=============================================================================
