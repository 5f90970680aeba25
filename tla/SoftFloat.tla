------------------------------ MODULE SoftFloat -----------------------------
(***************************************************************************)
(* softfloat.c: double precision arithmetic for a hart without floating    *)
(* point, linked into the matrix benchmark.  A double is a record of sign, *)
(* exponent and mantissa; its widths are parameters, and so are those of   *)
(* single precision, of int and of the 64-bit words the C code works in.   *)
(***************************************************************************)
EXTENDS Integers, FiniteSetsExt, Functions

CONSTANTS
  M, E,          \* bits of a double's mantissa and exponent: 52 and 11
  SM, SE,        \* of a single's: 23 and 8
  IntBits,       \* of an int: 32
  WordBits,      \* of a uint64_t: 64
  Far,           \* exponents further apart than that do not interact: 63
  Arguments      \* what the functions are called with: doubles a, b and c, the
                 \* single f and the int n

ASSUME WidthAssumption ==
  /\ {M, E, SM, SE, IntBits, WordBits, Far} \subseteq Nat \ {0}
  /\ SM + 3 <= M /\ SE < E /\ IntBits < M + 1 /\ M + 1 < Far
  /\ M % 2 = 0 /\ M + 2 <= WordBits /\ WordBits <= 2 * M

VARIABLES args,      \* the arguments
          call,      \* the function called, or "none"
          result
floatVars == <<args, call, result>>
a == args.a
b == args.b

EXP_MASK == 2^E - 1
EXP_BIAS == 2^(E - 1) - 1
SEXP_MASK == 2^SE - 1
SEXP_BIAS == 2^(SE - 1) - 1
Implicit == 2^M

Double == [s: {0, 1}, e: 0 .. EXP_MASK, m: 0 .. Implicit - 1]
Single == [s: {0, 1}, e: 0 .. SEXP_MASK, m: 0 .. 2^SM - 1]
Float(s, e, m) == [s |-> s, e |-> e, m |-> m]
Zero(s) == Float(s, 0, 0)
Inf(s) == Float(s, EXP_MASK, 0)
NaN == Float(0, EXP_MASK, Implicit \div 2)
IsZero(x) == x.e = 0 /\ x.m = 0
IsNaN(x) == x.e = EXP_MASK /\ x.m # 0
Mantissa(x) == IF x.e = 0 THEN x.m ELSE Implicit + x.m
Flip(x) == [x EXCEPT !.s = 1 - x.s]

\* Too large is infinite; what would be subnormal is 0.
Packed(s, e, m) ==
  IF e <= 0 THEN Zero(s) ELSE IF e >= EXP_MASK THEN Inf(s) ELSE Float(s, e, m % Implicit)

\* How far m moves left until its leading bit is the implicit one.
Shift(m) == CHOOSE k \in 0 .. M : m * 2^k \in Implicit .. 2 * Implicit - 1

-----------------------------------------------------------------------------
(* Addition                                                                *)

\* m moved right by d, what falls out kept in the lowest bit.
Aligned(m, d) ==
  LET kept == m \div 2^d
      lost == m % 2^d # 0
  IN IF d > Far THEN 0
     ELSE IF lost /\ kept % 2 = 0 THEN kept + 1 ELSE kept

\* Mutant: a sum that reaches the next power of 2 keeps its exponent.
SumNoCarry(s, e, sum) ==
  IF sum < 2 * Implicit THEN Packed(s, e, sum) ELSE Packed(s, e, (sum \div 2) + (sum % 2))
\* A sum that reaches the next power of 2 is halved, and a half rounds up.
Sum(s, e, sum) ==
  LET half == (sum \div 2) + (sum % 2)
  IN IF sum < 2 * Implicit THEN Packed(s, e, sum)
     ELSE IF half < 2 * Implicit THEN Packed(s, e + 1, half)
     ELSE Packed(s, e + 2, half \div 2)

Difference(s, e, diff) ==
  LET k == Min({Shift(diff), e})
  IN IF diff = 0 THEN Zero(0) ELSE Packed(s, e - k, diff * 2^k)

\* x has the larger exponent.
SumOf(x, y) ==
  LET mx == Mantissa(x)
      my == Aligned(Mantissa(y), x.e - y.e)
  IN IF x.s = y.s THEN Sum(x.s, x.e, mx + my)
     ELSE IF mx >= my THEN Difference(x.s, x.e, mx - my)
     ELSE Difference(y.s, x.e, my - mx)

adddf3(x, y) ==
  IF x.e = EXP_MASK THEN x
  ELSE IF y.e = EXP_MASK \/ IsZero(x) THEN y
  ELSE IF IsZero(y) THEN x
  ELSE IF x.e < y.e THEN SumOf(y, x) ELSE SumOf(x, y)
subdf3(x, y) == adddf3(x, Flip(y))

-----------------------------------------------------------------------------
(* Multiplication and division                                             *)

\* The product of two mantissas, from those of their halves: low and high are the
\* words it is added up in, and a sum less than what it was added to has carried.
Product(m, n) ==
  LET half == 2^(M \div 2)
      Cut(v) == v % 2^WordBits
      Carry(old, v) == IF Cut(old + v) < old THEN 1 ELSE 0
      p00 == (m % half) * (n % half)
      p01 == (m % half) * (n \div half)
      p10 == (m \div half) * (n % half)
      p11 == (m \div half) * (n \div half)
      add1 == Cut(p01 * half)
      add2 == Cut(p10 * half)
      add3 == Cut((p11 % Implicit) * Implicit)
      low1 == Cut(p00 + add1)
      low2 == Cut(low1 + add2)
      low == Cut(low2 + add3)
      high == Carry(p00, add1) + Carry(low1, add2) + Carry(low2, add3)
                + (p11 \div 2^(WordBits - M))
                + (p01 \div 2^(WordBits - M \div 2)) + (p10 \div 2^(WordBits - M \div 2))
      m_hi == Cut(high * 2^(WordBits - M - 1)) + (low \div 2^(M + 1))
  IN (m_hi % 2^(M + 1)) * 2^(M + 1) + (low % 2^(M + 1))

\* A product of twice M + 1 bits: above half it rounds up, without a carry into
\* the exponent; one that reaches the next power of 2 is cut off.
Normalized(p, e, s) ==
  LET mr == p \div Implicit
      up == IF p % Implicit > Implicit \div 2 THEN 1 ELSE 0
      k == Shift(p)
      low == (p * 2^k) % Implicit
  IN IF p = 0 THEN Zero(s)
     ELSE IF mr = 0 THEN Packed(s, e - k, low + (IF low = 0 THEN 0 ELSE 1))
     ELSE IF mr >= 2 * Implicit THEN Packed(s, e + 1, mr \div 2)
     ELSE Packed(s, e, (mr % Implicit) + up)

Sign(x, y) == (x.s + y.s) % 2

muldf3(x, y) ==
  IF IsNaN(x) \/ IsNaN(y) THEN NaN
  ELSE IF x.e = EXP_MASK \/ y.e = EXP_MASK THEN Inf(Sign(x, y))
  ELSE IF IsZero(x) \/ IsZero(y) THEN Zero(Sign(x, y))
  ELSE Normalized(Product(Mantissa(x), Mantissa(y)), x.e + y.e - EXP_BIAS, Sign(x, y))

\* The long division, k bits of it: remainder and quotient are words, and a
\* remainder the divisor goes into more than once is not reduced.
Divided(m, n, bits) ==
  LET Cut(v) == v % 2^WordBits
      go[k \in 0 .. bits] ==
        IF k = 0 THEN [rem |-> m, quo |-> 0]
        ELSE LET last == go[k - 1]
                 r == Cut(2 * last.rem)
             IN IF r >= n THEN [rem |-> r - n, quo |-> Cut(2 * last.quo + 1)]
                ELSE [rem |-> r, quo |-> Cut(2 * last.quo)]
  IN go

\* The quotients the division may deliver: a shift by more than a word, when the
\* remainder vanishes early, is undefined.
Quotients(m, n) ==
  LET bits == 2 * (M + 1)
      go == Divided(m, n, bits)
  IN IF go[bits - WordBits].rem = 0 THEN 0 .. 2^WordBits - 1 ELSE {go[bits].quo}

divdf3(x, y) ==
  IF IsNaN(x) \/ IsNaN(y) THEN {NaN}
  ELSE IF x.e = EXP_MASK \/ y.e = EXP_MASK \/ IsZero(x) \/ IsZero(y) THEN {Inf(Sign(x, y))}
  ELSE {Normalized(q, x.e - y.e + EXP_BIAS, Sign(x, y)) : q \in Quotients(Mantissa(x), Mantissa(y))}

-----------------------------------------------------------------------------
(* Comparison and conversion                                               *)

Magnitude(x) == x.e * Implicit + x.m
\* Mutant: negative numbers are ordered by their magnitude.
cmpMagnitude(x, y) ==
  IF x = y THEN 0
  ELSE IF x.s # y.s THEN (IF x.s = 1 THEN -1 ELSE 1)
  ELSE IF Magnitude(x) > Magnitude(y) THEN 1 ELSE -1
cmpdf3(x, y) ==
  IF x = y THEN 0
  ELSE IF x.s # y.s THEN (IF x.s = 1 THEN -1 ELSE 1)
  ELSE IF (Magnitude(x) > Magnitude(y)) = (x.s = 0) THEN 1 ELSE -1

Compared(x, y) ==
  LET c == cmpdf3(x, y)
  IN [eq |-> c = 0, ne |-> c # 0, gt |-> c > 0, ge |-> c >= 0, lt |-> c < 0, le |-> c <= 0]

IntMin == -(2^(IntBits - 1))
ToInt(v) == LET w == v % 2^IntBits IN IF w < -IntMin THEN w ELSE w - 2^IntBits

\* The ints the conversion may deliver: a shift by a word or more is undefined.
fixdfsi(x) ==
  LET shift == M - (x.e - EXP_BIAS)
      int == (Implicit + x.m) \div 2^shift
  IN IF IsZero(x) THEN {0}
     ELSE IF x.e = EXP_MASK THEN {IntMin}
     ELSE IF shift < 0 THEN {IF x.s = 1 THEN IntMin ELSE -IntMin - 1}
     ELSE IF shift >= WordBits THEN IntMin .. -IntMin - 1
     ELSE {ToInt(IF x.s = 1 THEN -int ELSE int)}

floatunsidf(n) ==
  IF n = 0 THEN Zero(0)
  ELSE Float(0, EXP_BIAS + IntBits - 1 - Shift(n), (n * 2^Shift(n)) % Implicit)
floatsidf(n) == IF n < 0 THEN Flip(floatunsidf(-n)) ELSE floatunsidf(n)

extendsfdf2(x) ==
  IF x.e = 0 /\ x.m = 0 THEN Zero(x.s)
  ELSE IF x.e = SEXP_MASK THEN (IF x.m = 0 THEN Inf(x.s) ELSE NaN)
  ELSE Float(x.s, x.e + EXP_BIAS - SEXP_BIAS, x.m * 2^(M - SM))

truncdfsf2(x) ==
  LET e == x.e - EXP_BIAS + SEXP_BIAS
      drop == 2^(M - SM)
      full == (Implicit + x.m) \div drop
      up == IF x.m % drop > drop \div 2 THEN full + 1 ELSE full
  IN IF x.e = EXP_MASK /\ x.m # 0 THEN Float(0, SEXP_MASK, 2^(SM - 1))
     ELSE IF IsZero(x) \/ (x.e # EXP_MASK /\ e <= 0) THEN Zero(x.s)
     ELSE IF e >= SEXP_MASK THEN Float(x.s, SEXP_MASK, 0)
     ELSE IF up = 2^(SM + 1) THEN Float(x.s, e + 1, 0)
     ELSE Float(x.s, e, up % 2^SM)

fma(x, y, z) == adddf3(muldf3(x, y), z)
fabs(x) == [x EXCEPT !.s = 0]

-----------------------------------------------------------------------------
(* The program calls one function at a time                                *)

Call(f, values) == call = "none" /\ call' = f /\ result' \in values /\ UNCHANGED args

Add == Call("__adddf3", {adddf3(a, b)})
Sub == Call("__subdf3", {subdf3(a, b)})
Mul == Call("__muldf3", {muldf3(a, b)})
Div == Call("__divdf3", divdf3(a, b))
Compare == Call("compare", {Compared(a, b)})
Fma == Call("fma", {fma(a, b, args.c)})
Fabs == Call("fabs", {fabs(a)})
Fix == Call("__fixdfsi", fixdfsi(a))
FloatInt == Call("__floatsidf", {floatsidf(args.n)})
Truncate == Call("__truncdfsf2", {truncdfsf2(a)})
Extend == Call("__extendsfdf2", {extendsfdf2(args.f)})

\* The C types of the arguments.
ASSUME ArgumentsAssumption ==
  Arguments \subseteq [a: Double, b: Double, c: Double, f: Single, n: IntMin .. -IntMin - 1]

FloatInit == args \in Arguments /\ call = "none" /\ result = Zero(0)
FloatNext == Add \/ Sub \/ Mul \/ Div \/ Compare \/ Fma \/ Fix \/ FloatInt \/ Truncate \/ Extend \/ Fabs
FloatSpec == FloatInit /\ [][FloatNext]_floatVars

-----------------------------------------------------------------------------
(* Properties                                                              *)

\* The number x stands for, in units of the least subnormal.
Value(x) == (IF x.s = 1 THEN -1 ELSE 1) * Mantissa(x) * 2^(IF x.e = 0 THEN 0 ELSE x.e - 1)
Abs(n) == IF n < 0 THEN -n ELSE n
Normal(x) == x.e \in 1 .. EXP_MASK - 1
Huge == 2^(M + EXP_MASK - 1)

\* Sum and difference of normal numbers are less than one unit in the last place of
\* the largest of operands and result off: a sum of equal signs is one of its two
\* neighbours, if not the nearer one, while a difference that cancels may be twice what
\* it should be.  Only what is less than the least normal number becomes 0, only
\* what reaches the largest becomes infinite.
SumNear(x, y) ==
  LET exact == Value(x) + Value(y)
      ulp == 2^(Max({x.e, y.e, result.e}) - 1)
  IN \/ Normal(result) /\ Abs(Value(result) - exact) < ulp
     \/ IsZero(result) /\ Abs(exact) < Implicit
     \/ result.e = EXP_MASK /\ result.m = 0 /\ Abs(exact) >= Huge - ulp

\* The product p of two mantissas.  Below 2 it is rounded to the nearest mantissa, but
\* for the last half unit, where the carry into the exponent is lost and the result is
\* half of what it should be; from 2 on it is cut off.
ProductRounded(z, p, e) ==
  \/ /\ p < 2^(2 * M + 1) /\ z.e = e
     /\ \/ 2 * Abs(Mantissa(z) * 2^M - p) <= 2^M
        \/ z.m = 0 /\ 2 * (2^(2 * M + 1) - p) < 2^M
  \/ /\ p >= 2^(2 * M + 1) /\ z.e = e + 1
     /\ p - Mantissa(z) * 2^(M + 1) \in 0 .. 2^(M + 1) - 1

\* Only a product less than the least normal number becomes 0, only one that reaches the
\* largest becomes infinite.
ProductNear(x, y) ==
  LET p == Mantissa(x) * Mantissa(y)
      e == x.e + y.e - EXP_BIAS
  IN \/ Normal(result) /\ result.s = Sign(x, y) /\ ProductRounded(result, p, e)
     \/ result = Zero(Sign(x, y)) /\ e <= 0 /\ p < 2^(2 * M + 1 - e)
     \/ result = Inf(Sign(x, y)) /\ (e >= EXP_MASK \/ p >= 2^(2 * M + EXP_MASK - e))

\* How far softfloat.c's arithmetic and narrowing conversions may be off, whatever
\* exponents, signs, cancellation and roundings meet: sums by less than a unit, products
\* by half a unit below 2 and a unit from there, but for the carry that is lost; the
\* single is the nearest, the int the integer part.  Less than __adddf3's "round to
\* nearest, ties to even" and than test_softfloat.c, which wants the host's bits: sums
\* and products are one unit away from those in places, and half in one.
ErrorsBounded ==
  LET one == 2^(EXP_BIAS + M - 1)
  IN Normal(a) /\ Normal(b) =>
       /\ call = "__adddf3" => SumNear(a, b)
       /\ call = "__subdf3" => SumNear(a, Flip(b))
       /\ call = "__muldf3" => ProductNear(a, b)
       /\ call = "__truncdfsf2" /\ result.e \in 1 .. SEXP_MASK - 1 =>
            2 * Abs(Value(extendsfdf2(result)) - Value(a)) <= 2^(a.e - 1 + M - SM)
       /\ call = "__fixdfsi" /\ Abs(Value(a)) < -IntMin * one /\ 2^WordBits * Abs(Value(a)) >= one * 2^(M + 1) =>
            result = (IF a.s = 1 THEN -1 ELSE 1) * (Abs(Value(a)) \div one)

\* The comparisons agree with one another and with the numbers, but for NaN and
\* the two zeros; a single that is not subnormal or a NaN comes back unchanged
\* from double precision.
OrderIsNumeric ==
  /\ call = "compare" /\ ~IsNaN(a) /\ ~IsNaN(b) /\ ~(IsZero(a) /\ IsZero(b)) =>
       result = [eq |-> Value(a) = Value(b), ne |-> Value(a) # Value(b),
                 gt |-> Value(a) > Value(b), ge |-> Value(a) >= Value(b),
                 lt |-> Value(a) < Value(b), le |-> Value(a) <= Value(b)]
  /\ call = "__extendsfdf2" =>
       \/ args.f.m # 0 /\ args.f.e \in {0, SEXP_MASK}
       \/ truncdfsf2(result) = args.f
=============================================================================
