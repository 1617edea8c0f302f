------------------------------- MODULE Numbers ------------------------------
(***************************************************************************)
(* The exact numbers of src/src/number.c: a fixnum where an integer fits   *)
(* one, a bignum where it does not, and fractions in lowest terms.  What   *)
(* is modelled is a calculation: a number, and operations with operands    *)
(* that take it across the boundary between fixnums and bignums and back.  *)
(***************************************************************************)
EXTENDS Bignum

CONSTANTS
  FIXNUM_MAX,
  INT_BITS,      \* of int64_t, which a fixnum has three less of
  Operand,       \* integers
  Count,         \* counts of bits to shift by, and exponents
  Modulus,
  Limit,         \* bound: how large a numerator
  MaxDenominator \* bound: how large a denominator

VARIABLES
  number,
  exact,    \* history: what it should be, as numerator and denominator
  rough     \* history: an operation does not have the result it should have

vars == <<number, exact, rough>>

FIXNUM_MIN == -FIXNUM_MAX - 1
InFixnum(n) == FIXNUM_MIN <= n /\ n <= FIXNUM_MAX
Fix(n) == [is |-> "fix", n |-> n]

\* dfsch_make_number_from_int64
FromInt(n) == IF InFixnum(n) THEN Fix(n) ELSE [is |-> "big", big |-> MakeBignum(n)]

\* dfsch_bignum_to_int64
ToInt(b) ==
  LET abs == FoldLeft(LAMBDA acc, i : acc * WORD_BASE + (b.words[i] % WORD_BASE),
                      0, Reverse(Upto(Len(b.words))))
  IN  IF b.negative THEN -abs ELSE abs

\* dfsch_bignum_to_number
ToNumber(b) == IF InFixnum(ToInt(b)) THEN Fix(ToInt(b)) ELSE [is |-> "big", big |-> b]

\* dfsch_bignum_from_number
FromNumber(a) == IF a.is = "fix" THEN MakeBignum(a.n) ELSE a.big

BothFix(a, b) == a.is = "fix" /\ b.is = "fix"

Absolute(n) == IF n < 0 THEN -n ELSE n

\* Division of C, which rounds to zero.
Quotient(a, b) ==
  LET q == Absolute(a) \div Absolute(b)
  IN  IF (a < 0) # (b < 0) THEN -q ELSE q
Remainder(a, b) == a - b * Quotient(a, b)

-----------------------------------------------------------------------------
(* Integers.                                                               *)

\* The sum, the difference or the product of two fixnums is a fixnum where it
\* fits, as that of doubles tells; the others are those of bignums.
IntAdd(a, b) ==
  IF BothFix(a, b) /\ InFixnum(a.n + b.n) THEN Fix(a.n + b.n)
  ELSE ToNumber(Add(FromNumber(a), FromNumber(b)))

IntSub(a, b) ==
  IF BothFix(a, b) /\ InFixnum(a.n - b.n) THEN Fix(a.n - b.n)
  ELSE ToNumber(Sub(FromNumber(a), FromNumber(b)))

IntMul(a, b) ==
  IF BothFix(a, b) /\ InFixnum(a.n * b.n) THEN Fix(a.n * b.n)
  ELSE ToNumber(Mul(FromNumber(a), FromNumber(b)))

IntNeg(a) == IF a.is = "fix" THEN FromInt(-a.n) ELSE ToNumber(Neg(a.big))

\* dfsch_number_div_i and dfsch_number_mod
Divided(a, b) ==
  LET numbers(d) == [q |-> ToNumber(d.q), r |-> ToNumber(d.r)]
  IN  IF BothFix(a, b) THEN [q |-> FromInt(Quotient(a.n, b.n)), r |-> FromInt(Remainder(a.n, b.n))]
      ELSE numbers(Div(FromNumber(a), FromNumber(b)))

IntCmp(a, b) ==
  IF BothFix(a, b) THEN (IF a = b THEN 0 ELSE IF a.n < b.n THEN -1 ELSE 1)
  ELSE Cmp(FromNumber(a), FromNumber(b))
IntSign(a) == IntCmp(a, Fix(0))
IntAbs(a) == IF IntSign(a) < 0 THEN IntNeg(a) ELSE a

\* dfsch_number_gcd, of the larger one and the smaller one
RECURSIVE GcdOf(_, _)
GcdOf(a, b) ==
  LET further(r) == IF IntCmp(r, b) < 0 THEN <<b, r>> ELSE <<r, b>>
      next(p) == GcdOf(p[1], p[2])
  IN  IF IntSign(b) = 0 THEN a ELSE next(further(Divided(a, b).r))
Ordered(x, y) == IF IntCmp(x, y) < 0 THEN <<y, x>> ELSE <<x, y>>
GcdOfPair(p) == GcdOf(p[1], p[2])
Gcd(a, b) == GcdOfPair(Ordered(IntAbs(a), IntAbs(b)))

\* dfsch_number_mod_inv
RECURSIVE Bezout(_, _, _, _)
Bezout(a, b, x, lx) ==
  LET further(d) == Bezout(b, d.r, IntSub(lx, IntMul(d.q, x)), x)
  IN  IF b = Fix(0) THEN lx ELSE further(Divided(a, b))
ModInv(n, m) ==
  LET inverse(lx) == IF IntSign(lx) < 0 THEN IntAdd(lx, m) ELSE lx
  IN  inverse(Bezout(Divided(n, m).r, m, Fix(0), Fix(1)))

IntExp(b, e) == ToNumber(Exp(FromNumber(b), FromNumber(e)))
IntExpMod(b, e, m) == ToNumber(ExpMod(FromNumber(b), FromNumber(e), FromNumber(m)))

\* The bits of two fixnums make a fixnum.
Bits(n) == FoldLeft(LAMBDA acc, i : acc + 2^i * ((n \div 2^i) % 2), 0, Upto(12)) + (n % 2)
Signed(n) == IF n < 2^12 THEN n ELSE n - 2^13
OfBits(a, b, op) ==
  CASE op = "and" -> Signed(Bits(a) & Bits(b))
    [] op = "ior" -> Signed(Bits(a) | Bits(b))
    [] OTHER -> Signed(Bits(a) ^^ Bits(b))
IntLogOp(a, b, op) ==
  IF BothFix(a, b) THEN Fix(OfBits(a.n, b.n, op))
  ELSE ToNumber(LogOp(FromNumber(a), FromNumber(b), op))
IntLogNot(a) == IF a.is = "fix" THEN Fix(-a.n - 1) ELSE ToNumber(LogNot(a.big))

\* What an integer is as int64_t.
InInt(n) == -(2^(INT_BITS - 1)) <= n /\ n < 2^(INT_BITS - 1)
Wrapped(n) == ((n + 2^(INT_BITS - 1)) % 2^INT_BITS) - 2^(INT_BITS - 1)

\* How far a word is shifted: by as many bits as it has, or by more, is undefined,
\* and either leaves none of them or is done by what is left of the count.
ShiftCounts(n) == IF n < INT_BITS THEN {n} ELSE {n % INT_BITS, n}

\* A fixnum is shifted as a word, and loses what does not fit it; a bignum grows.
IntShr(a, n) ==
  IF a.is = "fix" THEN {Fix(a.n \div 2^c) : c \in ShiftCounts(n)} ELSE {ToNumber(Shr(a.big, n))}
IntShl(a, n) ==
  IF a.is = "fix" THEN {FromInt(Wrapped(a.n * 2^c)) : c \in ShiftCounts(n)}
  ELSE {ToNumber(Shl(a.big, n))}

\* dfsch_number_lcm and the other operations of two integers
IntOp(op, a, b) ==
  CASE op = "add" -> IntAdd(a, b)
    [] op = "sub" -> IntSub(a, b)
    [] op = "mul" -> IntMul(a, b)
    [] op = "div_i" -> Divided(a, b).q
    [] op = "mod" -> Divided(a, b).r
    [] op = "gcd" -> Gcd(a, b)
    [] op = "lcm" -> Divided(IntAbs(IntMul(a, b)), Gcd(a, b)).q

-----------------------------------------------------------------------------
(* Fractions.                                                              *)

Numerator(a) == IF a.is = "frac" THEN a.num ELSE a
Denominator(a) == IF a.is = "frac" THEN a.denom ELSE Fix(1)

\* dfsch_number_frac_cons: the absolute values are divided by x, their greatest
\* common divisor.
FracCons(num, denom) ==
  LET negative == (IntSign(num) < 0) # (IntSign(denom) < 0)
      signed(n) == IF negative THEN IntNeg(n) ELSE n
      made(n, d) == IF d = Fix(1) THEN n ELSE [is |-> "frac", num |-> n, denom |-> d]
      lowest(n, d, x) == made(signed(Divided(n, x).q), Divided(d, x).q)
      positive(n, d) == lowest(n, d, Gcd(n, d))
  IN  positive(IntAbs(num), IntAbs(denom))

\* The numerator and the denominator of the result of an operation, before they
\* are divided by what they have in common.
Parts(op, a, b) ==
  CASE op = "add" -> <<IntAdd(IntMul(Numerator(a), Denominator(b)),
                              IntMul(Numerator(b), Denominator(a))),
                       IntMul(Denominator(a), Denominator(b))>>
    [] op = "sub" -> <<IntSub(IntMul(Numerator(a), Denominator(b)),
                              IntMul(Numerator(b), Denominator(a))),
                       IntMul(Denominator(a), Denominator(b))>>
    [] op = "mul" -> <<IntMul(Numerator(a), Numerator(b)),
                       IntMul(Denominator(b), Denominator(a))>>
    [] op = "div" -> <<IntMul(Numerator(a), Denominator(b)),
                       IntMul(Denominator(a), Numerator(b))>>

\* dfsch_number_add and the others
NumberOp(op, a, b) ==
  LET fraction(p) == FracCons(p[1], p[2])
  IN  IF op = "div" \/ (op \in {"add", "sub", "mul"} /\ "frac" \in {a.is, b.is})
      THEN fraction(Parts(op, a, b)) ELSE IntOp(op, a, b)

-----------------------------------------------------------------------------
(* The calculation.                                                        *)

RECURSIVE ExactGcd(_, _)
ExactGcd(a, b) ==
  IF b = 0 THEN Absolute(a) ELSE ExactGcd(b, a % Absolute(b))

Ratio(n, d) ==
  LET g == ExactGcd(n, d) * (IF d < 0 THEN -1 ELSE 1)
  IN  <<Quotient(n, g), Quotient(d, g)>>

\* What operations of rational numbers, p and q, and of integers are.
ExactOp(op, p, q) ==
  CASE op = "add" -> Ratio(p[1] * q[2] + q[1] * p[2], p[2] * q[2])
    [] op = "sub" -> Ratio(p[1] * q[2] - q[1] * p[2], p[2] * q[2])
    [] op = "mul" -> Ratio(p[1] * q[1], p[2] * q[2])
    [] op = "div" -> Ratio(p[1] * q[2], p[2] * q[1])
    [] op = "div_i" -> <<Quotient(p[1], q[1]), 1>>
    [] op = "mod" -> <<Remainder(p[1], q[1]), 1>>
    [] op = "gcd" -> <<ExactGcd(p[1], q[1]), 1>>
    [] op = "lcm" -> <<Absolute(Quotient(p[1] * q[1], ExactGcd(p[1], q[1]))), 1>>

Init == number = Fix(1) /\ exact = <<1, 1>> /\ rough = FALSE

Integer == exact[2] = 1
OfIntegers == {"div_i", "mod", "gcd", "lcm"}

Bounded ==
  /\ ~rough
  /\ -Limit <= exact'[1] /\ exact'[1] <= Limit /\ exact'[2] <= MaxDenominator

\* The number, or an operand, is the left one.
Calculate(op, p, q) ==
  /\ op \in OfIntegers => p[2] = 1 /\ q[2] = 1
  /\ op \in {"div", "div_i", "mod", "lcm"} => q[1] # 0
  /\ exact' = ExactOp(op, p, q)
  /\ Bounded /\ rough' = FALSE
  /\ number' = NumberOp(op, IF p = exact THEN number ELSE FromInt(p[1]),
                            IF q = exact THEN number ELSE FromInt(q[1]))

ExactPower(n, e, m) == FoldLeft(LAMBDA acc, i : (acc * n) % m, 1, Upto(e))
ExactInverse(n, m) == CHOOSE x \in 0..(m - 1) : (n * x) % m = 1 % m

Becomes(value, n) == exact' = <<n, 1>> /\ Bounded /\ number' = value

Invert(m) ==
  /\ Integer /\ exact[1] >= 0 /\ ExactGcd(exact[1], m) = 1 /\ rough' = FALSE
  /\ Becomes(ModInv(number, FromInt(m)), ExactInverse(exact[1], m))

Raise(e) ==
  /\ Integer /\ Absolute(exact[1]) < WORD_BASE /\ rough' = FALSE
  /\ Becomes(IntExp(number, Fix(e)), exact[1]^e)

RaiseModulo(e, m) ==
  /\ Integer /\ exact[1] >= 0 /\ rough' = FALSE
  /\ Becomes(IntExpMod(number, Fix(e), FromInt(m)), ExactPower(exact[1], e, m))

\* Its complement, or that it is the complement of, carries or borrows in the
\* first word, which is not cut to WORD_BITS bits.
Crooked(n) == n < 0 /\ n % WORD_BASE = 0

CombineBits(b, op) ==
  LET n == OfBits(exact[1], b, op)
  IN  /\ Integer
      /\ Becomes(IntLogOp(number, FromInt(b), op), n)
      /\ rough' = (~BothFix(number, FromInt(b)) /\ \E c \in {exact[1], b, n} : Crooked(c))

Complement ==
  /\ Integer
  /\ Becomes(IntLogNot(number), -exact[1] - 1)
  /\ rough' = (number.is = "big" /\ \E c \in {exact[1], -exact[1] - 1} : Crooked(c))

ShiftLeft(n) ==
  /\ Integer
  /\ \E shifted \in IntShl(number, n) : Becomes(shifted, exact[1] * 2^n)
  /\ rough' = (number.is = "fix" /\ ~InInt(exact[1] * 2^n))

\* Bits shifted out of a negative bignum are lost, where a fixnum rounds down.
ShiftRight(n) ==
  /\ Integer
  /\ number.is = "big" => n \div WORD_BITS < Len(number.big.words)
  /\ \E shifted \in IntShr(number, n) : Becomes(shifted, exact[1] \div 2^n)
  /\ rough' = IF number.is = "fix" THEN n >= INT_BITS
               ELSE exact[1] < 0 /\ exact[1] % 2^n # 0

Op == {"add", "sub", "mul", "div"} \union OfIntegers

Next ==
  \/ \E op \in Op, q \in {<<b, 1>> : b \in Operand} \union {exact},
        left \in {TRUE, FALSE} :
       Calculate(op, IF left THEN exact ELSE q, IF left THEN q ELSE exact)
  \/ \E m \in Modulus : Invert(m)
  \/ \E e \in Count : Raise(e)
  \/ \E e \in Count, m \in Modulus : RaiseModulo(e, m)
  \/ \E b \in Operand, op \in {"and", "ior", "xor"} : CombineBits(b, op)
  \/ Complement
  \/ \E n \in Count : ShiftLeft(n) \/ ShiftRight(n)

Spec == Init /\ [][Next]_vars

-----------------------------------------------------------------------------

\* What an exact number is represented as
Canonical(q) ==
  IF q[2] = 1 THEN FromInt(q[1])
  ELSE [is |-> "frac", num |-> FromInt(q[1]), denom |-> FromInt(q[2])]

RECURSIVE ExactDigits(_, _)
ExactDigits(n, base) ==
  IF n = 0 THEN <<>> ELSE Append(ExactDigits(n \div base, base), n % base)

\* The digits and the bytes a bignum is written as are those of its value, and
\* it is read from the bytes.
Written(a, n) ==
  /\ \A base \in {2, 7} : Digits(a.words, base) = ExactDigits(n, base)
  /\ ToBytes(a.words) = ExactDigits(n, 2^BYTE_BITS)
  /\ FromBytes(ToBytes(a.words), a.negative) = a

\* Whatever operations a number comes from, across the boundary of fixnums and
\* back, it is the exact one, has the one representation that an integer is
\* compared and hashed by (a fraction is compared with itself, number.c:696),
\* is less and greater than what it should be, and is written as digits and
\* bytes that are its value.  Three things give another number, and the
\* calculation ends with them: the complement of words that carry, a bit
\* shifted out of a negative bignum, and a fixnum that is shifted to the left
\* out of an int64_t, or by all the bits that one has (number.c and bignum.c).
Exact ==
  ~rough =>
    /\ number = Canonical(exact)
    /\ number.is = "big" => Written(number.big, Absolute(exact[1]))
    /\ Integer => \A b \in Operand :
         LET c == IntCmp(number, FromInt(b))
         IN  (c < 0) = (exact[1] < b) /\ (c = 0) = (exact[1] = b)
=============================================================================
