-------------------------- MODULE SoftFloatProofs ---------------------------
(***************************************************************************)
(* Proofs about softfloat.c, for every format that WidthAssumption admits, *)
(* double precision and single precision among them: comparisons follow    *)
(* the numbers, singles survive the way to a double and back, and sums,    *)
(* products and narrowed numbers are off by no more than ErrorsBounded     *)
(* says.                                                                   *)
(*                                                                         *)
(* A state of the system is one call, so the invariant (Returned) only     *)
(* says what was called; the work is in the functions.  Each is followed   *)
(* branch by branch with its numbers as products of a mantissa and a power *)
(* of two.  Powers have any exponent here: what the proofs need of them    *)
(* comes from the library's theorem on the number of subsets (Doubling).   *)
(***************************************************************************)
EXTENDS SoftFloat, TLAPS, WellFoundedInduction, FiniteSetTheorems, FunctionTheorems

-----------------------------------------------------------------------------
(* Powers of two.                                                          *)

\* A set of naturals that holds 0 and the successor of each of its members.
LEMMA NatSetInduction ==
  ASSUME NEW T \in SUBSET Nat, 0 \in T, \A n \in T : n + 1 \in T
  PROVE  T = Nat
<1>1. SUFFICES ASSUME Nat \ T # {}  PROVE FALSE
  OBVIOUS
<1>2. IsWellFoundedOn(OpToRel(<, Nat), Nat)
  BY NatLessThanWellFounded
<1>3. PICK n \in Nat \ T : \A m \in Nat \ T : ~(<<m, n>> \in OpToRel(<, Nat))
  BY <1>1, <1>2, WFMin
<1>4. \A m \in Nat \ T : ~(m < n)
  BY <1>3, Zenon DEF OpToRel
<1>5. QED
  BY <1>4, n - 1 \in Nat

\* The library gives 2^n as the number of subsets of a set with n elements.
LEMMA Subsets ==
  ASSUME NEW n \in Nat
  PROVE  IsFiniteSet(SUBSET (1 .. n)) /\ Cardinality(SUBSET (1 .. n)) = 2^n
<1>1. IsFiniteSet(1 .. n) /\ Cardinality(1 .. n) = n
  BY FS_Interval
<1>2. QED
  BY <1>1, FS_SUBSET

\* One more element doubles the number of subsets.
LEMMA Doubling ==
  ASSUME NEW n \in Nat
  PROVE  2^n \in Nat /\ 2^n >= 1 /\ 2^(n + 1) = 2 * 2^n
<1> DEFINE Old == SUBSET (1 .. n)
           New == {S \union {n + 1} : S \in Old}
           f == [S \in Old |-> S \union {n + 1}]
<1>1. IsFiniteSet(Old) /\ Cardinality(Old) = 2^n
  BY Subsets
<1>2. n + 1 \in Nat
  OBVIOUS
<1>3. Cardinality(SUBSET (1 .. n + 1)) = 2^(n + 1)
  BY <1>2, Subsets
<1>4. Old # {}
  OBVIOUS
<1>5. 2^n \in Nat /\ 2^n # 0
  BY <1>1, <1>4, FS_CardinalityType, FS_EmptySet
<1>6. f \in Bijection(Old, New)
  <2>1. f \in [Old -> New]
    OBVIOUS
  <2>2. \A S, T \in Old : f[S] = f[T] => S = T
    <3>1. \A S \in Old : n + 1 \notin S
      OBVIOUS
    <3>2. QED
      BY <3>1
  <2>3. \A T \in New : \E S \in Old : f[S] = T
    OBVIOUS
  <2>4. QED
    BY <2>1, <2>2, <2>3, Fun_IsBij
<1>7. IsFiniteSet(New) /\ Cardinality(New) = 2^n
  BY <1>1, <1>6, FS_Bijection DEF ExistsBijection
<1>8. SUBSET (1 .. n + 1) = Old \union New
  <2>1. 1 .. n + 1 = (1 .. n) \union {n + 1}
    OBVIOUS
  <2>2. ASSUME NEW S \in SUBSET (1 .. n + 1)  PROVE S \in Old \union New
    <3>1. CASE n + 1 \in S
      <4>1. S \ {n + 1} \in Old /\ (S \ {n + 1}) \union {n + 1} = S
        BY <2>1, <3>1
      <4>2. QED
        BY <4>1
    <3>2. CASE n + 1 \notin S
      BY <2>1, <3>2
    <3>3. QED
      BY <3>1, <3>2
  <2>3. Old \union New \subseteq SUBSET (1 .. n + 1)
    BY <2>1
  <2>4. QED
    BY <2>2, <2>3
<1>9. Old \cap New = {}
  OBVIOUS
<1> HIDE DEF Old, New, f
<1>10. Cardinality(Old \union New) = Cardinality(Old) + Cardinality(New) - 0
  BY <1>1, <1>7, <1>9, FS_Union, FS_EmptySet
<1>11. 2^(n + 1) = 2^n + 2^n - 0
  BY <1>1, <1>3, <1>7, <1>8, <1>10
<1>12. \A p \in Nat : p # 0 => p >= 1 /\ p + p - 0 = 2 * p
  OBVIOUS
<1>13. QED
  BY <1>5, <1>11, <1>12

\* The exponents of a product of powers add up.
LEMMA PowerSum ==
  ASSUME NEW m \in Nat, NEW n \in Nat
  PROVE  2^(m + n) = 2^m * 2^n
<1> DEFINE T == {k \in Nat : 2^(m + k) = 2^m * 2^k}
<1>1. 0 \in T
  <2>1. 2^0 = 1 /\ 2^m \in Nat /\ m + 0 = m
    BY Doubling
  <2>2. QED
    BY <2>1
<1>2. ASSUME NEW k \in T  PROVE k + 1 \in T
  <2>1. m + k \in Nat /\ (m + k) + 1 = m + (k + 1)
    OBVIOUS
  <2>2. 2^(m + (k + 1)) = 2 * 2^(m + k) /\ 2^(k + 1) = 2 * 2^k
    BY <2>1, Doubling
  <2>3. 2^k \in Nat /\ 2^m \in Nat /\ 2^(m + k) = 2^m * 2^k
    BY Doubling
  <2>4. 2^m * (2 * 2^k) = 2 * (2^m * 2^k)
    BY <2>3
  <2>5. QED
    BY <2>2, <2>3, <2>4
<1>3. T \in SUBSET Nat
  OBVIOUS
<1> HIDE DEF T
<1>4. T = Nat
  BY <1>1, <1>2, <1>3, NatSetInduction
<1>5. n \in T
  BY <1>4
<1>6. QED
  BY <1>5 DEF T

LEMMA PowerLess ==
  ASSUME NEW m \in Nat, NEW n \in Nat, m < n
  PROVE  2 * 2^m <= 2^n
<1>1. n - (m + 1) \in Nat /\ m + 1 \in Nat /\ (m + 1) + (n - (m + 1)) = n
  OBVIOUS
<1>2. PICK r \in Nat : r = 2^(n - (m + 1)) /\ r >= 1
  BY <1>1, Doubling
<1>3. 2^n = 2^(m + 1) * r
  BY <1>1, <1>2, PowerSum
<1>4. 2^m \in Nat /\ 2^(m + 1) = 2 * 2^m
  BY Doubling
<1>5. \A p, q \in Nat : q >= 1 => p <= p * q
  OBVIOUS
<1>6. QED
  BY <1>2, <1>3, <1>4, <1>5

-----------------------------------------------------------------------------
(* Widths and numbers.                                                     *)

LEMMA TimesLess ==
  ASSUME NEW p \in Nat, NEW q \in Nat, NEW r \in Nat, p < q, r >= 1
  PROVE  p * r < q * r
<1>1. q - p \in Nat /\ q - p >= 1 /\ q = p + (q - p)
  OBVIOUS
<1>2. \A d \in Nat : d >= 1 => (p + d) * r = p * r + d * r /\ d * r >= 1
  OBVIOUS
<1>3. p * r \in Nat /\ (q - p) * r \in Nat
  BY <1>1
<1>4. QED
  BY <1>1, <1>2, <1>3

LEMMA TimesAtMost ==
  ASSUME NEW p \in Nat, NEW q \in Nat, NEW r \in Nat, p <= q
  PROVE  p * r <= q * r /\ r * p <= r * q
<1>1. q - p \in Nat /\ q = p + (q - p)
  OBVIOUS
<1>2. \A d \in Nat : (p + d) * r = p * r + d * r /\ d * r \in Nat
  OBVIOUS
<1>3. p * r \in Nat /\ p * r = r * p /\ q * r = r * q
  OBVIOUS
<1>4. QED
  BY <1>1, <1>2, <1>3

LEMMA Widths ==
  /\ Implicit \in Nat /\ Implicit >= 2 /\ Implicit % 2 = 0
  /\ EXP_BIAS \in Nat /\ EXP_BIAS >= 1 /\ EXP_MASK = 2 * EXP_BIAS + 1
  /\ SEXP_BIAS \in Nat /\ SEXP_MASK = 2 * SEXP_BIAS + 1 /\ SEXP_BIAS < EXP_BIAS
<1>1. /\ M \in Nat /\ E \in Nat /\ SE \in Nat /\ M >= 4 /\ SE >= 1 /\ SE < E
      /\ M - 1 \in Nat /\ E - 1 \in Nat /\ SE - 1 \in Nat
      /\ (M - 1) + 1 = M /\ (E - 1) + 1 = E /\ (SE - 1) + 1 = SE
  BY WidthAssumption
<1>2. Implicit = 2 * 2^(M - 1) /\ 2^(M - 1) \in Nat /\ 2^(M - 1) >= 1
  BY <1>1, Doubling DEF Implicit
<1>3. 2^E = 2 * 2^(E - 1) /\ 2^(E - 1) \in Nat /\ 2^(E - 1) >= 1
  BY <1>1, Doubling
<1>4. 2^SE = 2 * 2^(SE - 1) /\ 2^(SE - 1) \in Nat /\ 2^(SE - 1) >= 1
  BY <1>1, Doubling
<1>5. 2 * 2^(SE - 1) <= 2^(E - 1)
  BY <1>1, PowerLess
<1>6. Implicit \in Nat /\ Implicit >= 2 /\ Implicit % 2 = 0
  BY <1>2
<1>7. QED
  BY <1>3, <1>4, <1>5, <1>6 DEF EXP_BIAS, EXP_MASK, SEXP_BIAS, SEXP_MASK

\* The weight of the lowest bit of x's mantissa, and the absolute value of x.
Unit(x) == 2^(IF x.e = 0 THEN 0 ELSE x.e - 1)
Size(x) == Mantissa(x) * Unit(x)

LEMMA DoubleType ==
  ASSUME NEW x \in Double
  PROVE  /\ x = Float(x.s, x.e, x.m)
         /\ x.s \in {0, 1} /\ x.e \in Nat /\ x.e <= EXP_MASK /\ x.m \in Nat /\ x.m < Implicit
         /\ Mantissa(x) \in Nat /\ Mantissa(x) < 2 * Implicit /\ (x.e # 0 => Mantissa(x) >= Implicit)
         /\ Unit(x) \in Nat /\ Unit(x) >= 1 /\ Size(x) \in Nat
<1>1. /\ x = Float(x.s, x.e, x.m)
      /\ x.s \in {0, 1} /\ x.e \in Nat /\ x.e <= EXP_MASK /\ x.m \in Nat /\ x.m < Implicit
  BY Widths DEF Double, Float
<1>2. Mantissa(x) \in Nat /\ Mantissa(x) < 2 * Implicit /\ (x.e # 0 => Mantissa(x) >= Implicit)
  BY <1>1, Widths DEF Mantissa
<1>3. Unit(x) \in Nat /\ Unit(x) >= 1
  <2>1. (IF x.e = 0 THEN 0 ELSE x.e - 1) \in Nat
    BY <1>1
  <2>2. QED
    BY <2>1, Doubling DEF Unit
<1>4. Size(x) \in Nat
  BY <1>2, <1>3 DEF Size
<1>5. QED
  BY <1>1, <1>2, <1>3, <1>4

LEMMA ValueSize ==
  ASSUME NEW x \in Double
  PROVE  Value(x) = IF x.s = 1 THEN -Size(x) ELSE Size(x)
<1>1. Mantissa(x) \in Nat /\ Unit(x) \in Nat
  BY DoubleType
<1>2. Value(x) = (IF x.s = 1 THEN -1 ELSE 1) * Mantissa(x) * Unit(x)
  BY DEF Value, Unit
<1>3. \A p, q \in Nat : (-1) * p * q = -(p * q) /\ 1 * p * q = p * q
  OBVIOUS
<1>4. QED
  BY <1>1, <1>2, <1>3 DEF Size

-----------------------------------------------------------------------------
(* Comparison.                                                             *)

\* Doubles that differ in exponent or mantissa differ in size the same way.
LEMMA UnitOrder ==
  ASSUME NEW x \in Double, NEW y \in Double, x.e < y.e
  PROVE  x.e # 0 => 2 * Unit(x) <= Unit(y)
<1>1. x.e \in Nat /\ y.e \in Nat
  BY DoubleType
<1>2. SUFFICES ASSUME x.e # 0  PROVE 2 * Unit(x) <= Unit(y)
  OBVIOUS
<1>3. x.e - 1 \in Nat /\ y.e - 1 \in Nat /\ x.e - 1 < y.e - 1 /\ y.e # 0
  BY <1>1, <1>2
<1>4. QED
  BY <1>2, <1>3, PowerLess DEF Unit

LEMMA SizeOrder ==
  ASSUME NEW x \in Double, NEW y \in Double, x.e < y.e
  PROVE  Size(x) < Size(y)
<1>1. PICK p, q \in Nat, u, v \in Nat :
        p = Mantissa(x) /\ q = Mantissa(y) /\ u = Unit(x) /\ v = Unit(y)
  BY DoubleType
<1>2. u >= 1 /\ v >= 1 /\ p < 2 * Implicit /\ q >= Implicit /\ Implicit \in Nat
  BY <1>1, DoubleType, Widths
<1>3. Implicit * v <= q * v
  BY <1>2, TimesAtMost
<1>4. CASE x.e = 0
  <2>1. p < Implicit /\ u = 1
    <3>1. p < Implicit
      BY <1>1, <1>4, DoubleType DEF Mantissa
    <3>2. 2^0 = 1
      OBVIOUS
    <3>3. QED
      BY <1>1, <1>4, <3>1, <3>2 DEF Unit
  <2>2. Implicit * 1 <= Implicit * v
    BY <1>2, TimesAtMost
  <2>3. p * u = p /\ Implicit * 1 = Implicit /\ q * v \in Nat /\ Implicit * v \in Nat
    BY <1>2, <2>1
  <2>4. QED
    BY <1>1, <1>2, <1>3, <2>1, <2>2, <2>3 DEF Size
<1>5. CASE x.e # 0
  <2>1. 2 * u <= v
    BY <1>1, <1>5, UnitOrder
  <2>2. p * u < (2 * Implicit) * u
    BY <1>2, TimesLess
  <2>3. Implicit * (2 * u) <= Implicit * v
    BY <1>2, <2>1, TimesAtMost
  <2>4. (2 * Implicit) * u = Implicit * (2 * u) /\ p * u \in Nat /\ q * v \in Nat
        /\ Implicit * v \in Nat /\ Implicit * (2 * u) \in Nat
    BY <1>2
  <2>5. QED
    BY <1>1, <1>3, <2>2, <2>3, <2>4 DEF Size
<1>6. QED
  BY <1>4, <1>5

LEMMA MagnitudeOrder ==
  ASSUME NEW x \in Double, NEW y \in Double
  PROVE  /\ Magnitude(x) > Magnitude(y) <=> Size(x) > Size(y)
         /\ Size(x) = Size(y) <=> (x.e = y.e /\ x.m = y.m)
         /\ Size(x) = 0 <=> IsZero(x)
<1>1. /\ x.e \in Nat /\ y.e \in Nat /\ x.m \in Nat /\ y.m \in Nat /\ x.m < Implicit /\ y.m < Implicit
      /\ Implicit \in Nat /\ Size(x) \in Nat /\ Size(y) \in Nat
  BY DoubleType, Widths
<1>2. ASSUME NEW v \in Double, NEW w \in Double, v.e < w.e
      PROVE  Magnitude(v) < Magnitude(w)
  <2>1. v.e \in Nat /\ w.e \in Nat /\ v.m \in Nat /\ w.m \in Nat /\ v.m < Implicit /\ v.e + 1 <= w.e
    BY <1>2, DoubleType
  <2>2. (v.e + 1) * Implicit <= w.e * Implicit
    BY <1>1, <2>1, TimesAtMost
  <2>3. \A p, q \in Nat : (p + 1) * q = p * q + q /\ p * q \in Nat
    OBVIOUS
  <2>4. QED
    BY <1>1, <2>1, <2>2, <2>3 DEF Magnitude
<1>3. ASSUME NEW v \in Double, NEW w \in Double, v.e = w.e, v.m < w.m
      PROVE  Magnitude(v) < Magnitude(w) /\ Size(v) < Size(w)
  <2>1. Magnitude(v) < Magnitude(w)
    <3>1. v.e * Implicit \in Nat /\ v.m \in Nat /\ w.m \in Nat
      BY <1>1, DoubleType
    <3>2. QED
      BY <1>3, <3>1 DEF Magnitude
  <2>2. Mantissa(v) < Mantissa(w) /\ Unit(v) = Unit(w)
    <3>1. v.m \in Nat /\ w.m \in Nat
      BY DoubleType
    <3>2. QED
      BY <1>1, <1>3, <3>1 DEF Mantissa, Unit
  <2>3. Size(v) < Size(w)
    BY <2>2, DoubleType, TimesLess DEF Size
  <2>4. QED
    BY <2>1, <2>3
<1>4. Magnitude(x) \in Nat /\ Magnitude(y) \in Nat
  <2>1. \A p, q, r \in Nat : p * q + r \in Nat
    OBVIOUS
  <2>2. QED
    BY <1>1, <2>1 DEF Magnitude
<1>5. Size(x) = 0 <=> IsZero(x)
  <2>1. PICK p \in Nat, u \in Nat : p = Mantissa(x) /\ u = Unit(x) /\ u >= 1
    BY DoubleType
  <2>2. p * u = 0 <=> p = 0
    BY <2>1
  <2>3. p = 0 <=> IsZero(x)
    BY <1>1, <2>1, Widths DEF Mantissa, IsZero
  <2>4. QED
    BY <2>1, <2>2, <2>3 DEF Size
<1>6. CASE x.e < y.e
  BY <1>1, <1>2, <1>4, <1>5, <1>6, SizeOrder
<1>7. CASE y.e < x.e
  BY <1>1, <1>2, <1>4, <1>5, <1>7, SizeOrder
<1>8. CASE x.e = y.e /\ x.m < y.m
  BY <1>1, <1>3, <1>4, <1>5, <1>8
<1>9. CASE x.e = y.e /\ y.m < x.m
  BY <1>1, <1>3, <1>4, <1>5, <1>9
<1>10. CASE x.e = y.e /\ x.m = y.m
  <2>1. Magnitude(x) = Magnitude(y) /\ Size(x) = Size(y)
    BY <1>10 DEF Magnitude, Size, Mantissa, Unit
  <2>2. QED
    BY <1>1, <1>4, <1>5, <1>10, <2>1
<1>11. QED
  BY <1>1, <1>6, <1>7, <1>8, <1>9, <1>10

LEMMA ComparedIsNumeric ==
  ASSUME NEW x \in Double, NEW y \in Double, ~(IsZero(x) /\ IsZero(y))
  PROVE  Compared(x, y) = [eq |-> Value(x) = Value(y), ne |-> Value(x) # Value(y),
                           gt |-> Value(x) > Value(y), ge |-> Value(x) >= Value(y),
                           lt |-> Value(x) < Value(y), le |-> Value(x) <= Value(y)]
<1>1. PICK p, q \in Nat : p = Size(x) /\ q = Size(y)
  BY DoubleType
<1>2. PICK v, w \in Int : v = Value(x) /\ w = Value(y)
  BY <1>1, ValueSize
<1>3. v = (IF x.s = 1 THEN -p ELSE p) /\ w = (IF y.s = 1 THEN -q ELSE q)
  BY <1>1, <1>2, ValueSize
<1>4. x.s \in {0, 1} /\ y.s \in {0, 1} /\ ~(p = 0 /\ q = 0)
  BY <1>1, DoubleType, MagnitudeOrder
<1>5. x = y <=> (x.s = y.s /\ p = q)
  <2>1. x = Float(x.s, x.e, x.m) /\ y = Float(y.s, y.e, y.m)
    BY DoubleType
  <2>2. p = q <=> (x.e = y.e /\ x.m = y.m)
    BY <1>1, MagnitudeOrder
  <2>3. QED
    BY <2>1, <2>2
<1>6. cmpdf3(x, y) = IF v = w THEN 0 ELSE IF v > w THEN 1 ELSE -1
  <2>1. Magnitude(x) > Magnitude(y) <=> p > q
    BY <1>1, MagnitudeOrder
  <2>2. cmpdf3(x, y) = IF x.s = y.s /\ p = q THEN 0
                       ELSE IF x.s # y.s THEN (IF x.s = 1 THEN -1 ELSE 1)
                       ELSE IF (p > q) = (x.s = 0) THEN 1 ELSE -1
    BY <1>5, <2>1 DEF cmpdf3
  <2>3. QED
    BY <1>3, <1>4, <2>2
<1>7. PICK k : k = cmpdf3(x, y)
  OBVIOUS
<1>8. /\ (k = 0) = (v = w) /\ (k # 0) = (v # w) /\ (k > 0) = (v > w)
      /\ (k >= 0) = (v >= w) /\ (k < 0) = (v < w) /\ (k <= 0) = (v <= w)
  BY <1>6, <1>7
<1>9. QED
  BY <1>2, <1>7, <1>8 DEF Compared

-----------------------------------------------------------------------------
(* Conversion to a single and back.                                        *)

\* What a single's lowest bit is worth in a double's mantissa.
Drop == 2^(M - SM)

LEMMA Drops ==
  /\ 2^SM \in Nat /\ 2^SM >= 1 /\ Drop \in Nat /\ Drop >= 2 /\ Drop % 2 = 0
  /\ Implicit = 2^SM * Drop /\ 2^(SM + 1) = 2 * 2^SM
<1>1. SM \in Nat /\ M - SM \in Nat /\ M - SM - 1 \in Nat /\ SM + (M - SM) = M
      /\ (M - SM - 1) + 1 = M - SM
  BY WidthAssumption
<1>2. 2^SM \in Nat /\ 2^SM >= 1 /\ 2^(SM + 1) = 2 * 2^SM
  BY <1>1, Doubling
<1>3. 2^(M - SM - 1) \in Nat /\ 2^(M - SM - 1) >= 1 /\ 2^(M - SM) = 2 * 2^(M - SM - 1)
  BY <1>1, Doubling
<1>4. 2^M = 2^SM * 2^(M - SM)
  BY <1>1, PowerSum
<1>5. QED
  BY <1>2, <1>3, <1>4 DEF Drop, Implicit

LEMMA SingleType ==
  ASSUME NEW x \in Single
  PROVE  /\ x = Float(x.s, x.e, x.m) /\ x.s \in {0, 1}
         /\ x.e \in Nat /\ x.e <= SEXP_MASK /\ x.m \in Nat /\ x.m < 2^SM
BY Widths, Drops DEF Single, Float

\* Quotient and remainder of a mantissa put together from both.
LEMMA Quotient ==
  ASSUME NEW q \in Nat, NEW d \in Nat, d >= 1, NEW r \in Nat, r < d
  PROVE  (q * d + r) \div d = q /\ (q * d + r) % d = r
<1>1. q * d \in Nat
  OBVIOUS
<1>2. PICK n \in Nat : n = q * d + r
  BY <1>1
<1>3. n \div d \in Nat /\ n % d \in Nat /\ n % d < d /\ n = (n \div d) * d + (n % d)
  OBVIOUS
<1>4. ASSUME NEW k \in Nat, NEW j \in Nat, j < d, n = k * d + j  PROVE k = q /\ j = r
  <2>1. CASE k < q
    <3>1. (k + 1) * d <= q * d
      BY <2>1, TimesAtMost
    <3>2. (k + 1) * d = k * d + d /\ k * d \in Nat
      OBVIOUS
    <3>3. QED
      BY <1>1, <1>2, <1>4, <3>1, <3>2
  <2>2. CASE q < k
    <3>1. (q + 1) * d <= k * d
      BY <2>2, TimesAtMost
    <3>2. (q + 1) * d = q * d + d /\ k * d \in Nat
      OBVIOUS
    <3>3. QED
      BY <1>1, <1>2, <1>4, <3>1, <3>2
  <2>3. CASE k = q
    BY <1>1, <1>2, <1>4, <2>3
  <2>4. QED
    BY <2>1, <2>2, <2>3
<1>5. QED
  BY <1>2, <1>3, <1>4

\* The mantissa and the exponent of x as a single.
Rounded(x) ==
  LET full == (Implicit + x.m) \div Drop
  IN IF x.m % Drop > Drop \div 2 THEN full + 1 ELSE full
SingleExponent(x) == x.e - EXP_BIAS + SEXP_BIAS

LEMMA Truncated ==
  ASSUME NEW x, x.e # 0, x.e # EXP_MASK, ~(SingleExponent(x) <= 0), ~(SingleExponent(x) >= SEXP_MASK)
  PROVE  truncdfsf2(x) = IF Rounded(x) = 2^(SM + 1) THEN Float(x.s, SingleExponent(x) + 1, 0)
                         ELSE Float(x.s, SingleExponent(x), Rounded(x) % 2^SM)
<1>1. ~IsZero(x)
  BY DEF IsZero
<1>2. QED
  BY <1>1, Zenon DEF truncdfsf2, Rounded, SingleExponent, Drop

LEMMA RoundTrip ==
  ASSUME NEW f \in Single, ~(f.m # 0 /\ f.e \in {0, SEXP_MASK})
  PROVE  truncdfsf2(extendsfdf2(f)) = f
<1>1. /\ f = Float(f.s, f.e, f.m) /\ f.s \in {0, 1}
      /\ f.e \in Nat /\ f.e <= SEXP_MASK /\ f.m \in Nat /\ f.m < 2^SM
  BY SingleType
<1>2. CASE f.e = 0
  <2>1. f.m = 0 /\ extendsfdf2(f) = Zero(f.s)
    BY <1>1, <1>2 DEF extendsfdf2
  <2>2. IsZero(Zero(f.s)) /\ Zero(f.s).s = f.s /\ Zero(f.s).m = 0
    BY DEF Zero, Float, IsZero
  <2>3. truncdfsf2(Zero(f.s)) = Zero(f.s)
    BY <2>2 DEF truncdfsf2
  <2>4. QED
    BY <1>1, <1>2, <2>1, <2>3 DEF Zero
<1>3. CASE f.e = SEXP_MASK /\ f.e # 0
  <2>1. f.m = 0 /\ extendsfdf2(f) = Inf(f.s)
    BY <1>1, <1>3 DEF extendsfdf2
  <2>2. /\ Inf(f.s).s = f.s /\ Inf(f.s).e = EXP_MASK /\ Inf(f.s).m = 0
        /\ ~IsZero(Inf(f.s))
    BY Widths DEF Inf, Float, IsZero
  <2>3. EXP_MASK - EXP_BIAS + SEXP_BIAS >= SEXP_MASK
    BY Widths
  <2>4. truncdfsf2(Inf(f.s)) = Float(f.s, SEXP_MASK, 0)
    BY <2>2, <2>3 DEF truncdfsf2
  <2>5. QED
    BY <1>1, <1>3, <2>1, <2>4
<1>4. CASE f.e # 0 /\ f.e # SEXP_MASK
  <2> DEFINE x == Float(f.s, f.e + EXP_BIAS - SEXP_BIAS, f.m * Drop)
  <2>1. extendsfdf2(f) = x
    BY <1>4 DEF extendsfdf2, Drop
  <2>2. x.s = f.s /\ x.e = f.e + EXP_BIAS - SEXP_BIAS /\ x.m = f.m * Drop
    BY DEF Float
  <2> HIDE DEF x
  <2>3. x.e # EXP_MASK /\ x.e # 0 /\ x.e - EXP_BIAS + SEXP_BIAS = f.e
    BY <1>1, <1>4, <2>2, Widths
  <2>4. x.m = f.m * Drop + 0 /\ Implicit + x.m = (2^SM + f.m) * Drop + 0
    <3>1. \A p, q, r \in Nat : p * r + q * r = (p + q) * r + 0 /\ q * r = q * r + 0
      OBVIOUS
    <3>2. QED
      BY <1>1, <2>2, <3>1, Drops
  <2>5. x.m % Drop = 0 /\ (Implicit + x.m) \div Drop = 2^SM + f.m
    <3>1. PICK k \in Nat, d \in Nat : k = 2^SM + f.m /\ d = Drop /\ d >= 2
      BY <1>1, Drops
    <3>2. (f.m * d + 0) % d = 0 /\ (k * d + 0) \div d = k
      BY <1>1, <3>1, Quotient
    <3>3. QED
      BY <2>4, <3>1, <3>2
  <2>6. Rounded(x) = 2^SM + f.m
    BY <2>5, Drops DEF Rounded
  <2>7. 2^SM + f.m # 2^(SM + 1) /\ (2^SM + f.m) % 2^SM = f.m
    BY <1>1, Drops
  <2>8. SingleExponent(x) = f.e /\ ~(f.e <= 0) /\ ~(f.e >= SEXP_MASK)
    BY <1>1, <1>4, <2>3, Widths DEF SingleExponent
  <2>9. x.e # 0 /\ x.e # EXP_MASK
    BY <2>3
  <2>10. truncdfsf2(x) = Float(f.s, f.e, f.m)
    BY <2>2, <2>6, <2>7, <2>8, <2>9, Truncated
  <2>11. QED
    BY <1>1, <2>1, <2>10
<1>5. QED
  BY <1>2, <1>3, <1>4

-----------------------------------------------------------------------------
(* The nearest single.                                                     *)

LEMMA TimesInt ==
  ASSUME NEW p \in Int, NEW q \in Int, NEW r \in Nat, p <= q
  PROVE  p * r <= q * r
<1>1. q - p \in Nat /\ q = p + (q - p)
  OBVIOUS
<1>2. \A d \in Nat : (p + d) * r = p * r + d * r /\ d * r \in Nat
  OBVIOUS
<1>3. p * r \in Int
  OBVIOUS
<1>4. QED
  BY <1>1, <1>2, <1>3

\* Two numbers of one sign that are apart by as much as two naturals.
LEMMA Apart ==
  ASSUME NEW x \in Double, NEW y \in Double, x.s = y.s, NEW d \in Nat,
         2 * (Size(x) - Size(y)) <= d, 2 * (Size(y) - Size(x)) <= d
  PROVE  2 * Abs(Value(x) - Value(y)) <= d
<1>1. PICK p, q \in Nat : p = Size(x) /\ q = Size(y)
  BY DoubleType
<1>2. Value(x) = (IF x.s = 1 THEN -p ELSE p) /\ Value(y) = (IF x.s = 1 THEN -q ELSE q)
  BY <1>1, ValueSize
<1>3. 2 * (p - q) <= d /\ 2 * (q - p) <= d
  BY <1>1
<1>4. QED
  BY <1>2, <1>3 DEF Abs

\* The single's mantissa, in units of Drop, is at most half a unit away.
LEMMA RoundedNear ==
  ASSUME NEW x \in Double
  PROVE  /\ Rounded(x) \in Nat /\ Rounded(x) >= 2^SM /\ Rounded(x) <= 2 * 2^SM
         /\ 2 * (Rounded(x) * Drop - (Implicit + x.m)) <= Drop
         /\ 2 * ((Implicit + x.m) - Rounded(x) * Drop) <= Drop
<1>1. PICK m \in Nat, d \in Nat, t \in Nat : m = x.m /\ d = Drop /\ t = 2^SM
  BY DoubleType, Drops
<1>2. d >= 2 /\ d % 2 = 0 /\ Implicit = t * d /\ m < t * d
  BY <1>1, DoubleType, Drops
<1>3. PICK q \in Nat, r \in Nat : q = m \div d /\ r = m % d /\ m = q * d + r /\ r < d
  BY <1>2
<1>4. q < t
  <2>1. SUFFICES ASSUME t <= q  PROVE FALSE
    BY <1>3
  <2>2. t * d <= q * d
    BY <2>1, TimesAtMost
  <2>3. q * d \in Nat /\ t * d \in Nat
    OBVIOUS
  <2>4. QED
    BY <1>2, <1>3, <2>2, <2>3
<1>5. PICK k \in Nat : k = t + q
  OBVIOUS
<1>6. Implicit + m = k * d + r
  <2>1. (t + q) * d = t * d + q * d /\ t * d \in Nat /\ q * d \in Nat
    OBVIOUS
  <2>2. QED
    BY <1>2, <1>3, <1>5, <2>1
<1>7. (Implicit + m) \div d = k
  <2>1. d >= 1
    BY <1>2
  <2>2. (k * d + r) \div d = k
    BY <1>3, <2>1, Quotient
  <2>3. QED
    BY <1>6, <2>2
<1>8. Rounded(x) = IF r > d \div 2 THEN k + 1 ELSE k
  BY <1>1, <1>3, <1>7 DEF Rounded
<1>9. k * d \in Nat /\ (k + 1) * d = k * d + d
  OBVIOUS
<1>10. PICK n \in Nat : n = Implicit + m
  BY <1>6, <1>9
<1>11. CASE r > d \div 2
  <2>1. 2 * r >= d /\ Rounded(x) = k + 1
    BY <1>2, <1>8, <1>11
  <2>2. 2 * ((k + 1) * d - n) <= d /\ 2 * (n - (k + 1) * d) <= d
    BY <1>3, <1>6, <1>9, <1>10, <2>1
  <2>3. QED
    BY <1>1, <1>4, <1>5, <1>10, <2>1, <2>2
<1>12. CASE ~(r > d \div 2)
  <2>1. 2 * r <= d /\ Rounded(x) = k
    BY <1>2, <1>8, <1>12
  <2>2. 2 * (k * d - n) <= d /\ 2 * (n - k * d) <= d
    BY <1>3, <1>6, <1>9, <1>10, <2>1
  <2>3. QED
    BY <1>1, <1>4, <1>5, <1>10, <2>1, <2>2
<1>13. QED
  BY <1>11, <1>12

LEMMA NormalType ==
  ASSUME NEW x \in Double, Normal(x)
  PROVE  /\ x.e \in Nat /\ x.e >= 1 /\ x.e < EXP_MASK /\ x.e - 1 \in Nat /\ ~IsZero(x) /\ ~IsNaN(x)
         /\ Mantissa(x) = Implicit + x.m /\ Unit(x) = 2^(x.e - 1)
<1>1. x.e \in Nat /\ x.e >= 1 /\ x.e < EXP_MASK
  BY Widths, DoubleType DEF Normal
<1>2. QED
  BY <1>1 DEF IsZero, IsNaN, Mantissa, Unit

\* A double from a single, when neither zero nor infinite.
LEMMA Extended ==
  ASSUME NEW s, NEW e \in Nat, e # 0, e # SEXP_MASK, NEW m
  PROVE  extendsfdf2(Float(s, e, m)) = Float(s, e + EXP_BIAS - SEXP_BIAS, m * Drop)
BY DEF extendsfdf2, Float, Drop

LEMMA TruncatedNear ==
  ASSUME NEW x \in Double, Normal(x), truncdfsf2(x).e \in 1 .. SEXP_MASK - 1
  PROVE  2 * Abs(Value(extendsfdf2(truncdfsf2(x))) - Value(x)) <= 2^(x.e - 1 + M - SM)
<1>1. PICK m \in Nat, d \in Nat, t \in Nat, u \in Nat, k \in Nat :
        /\ m = x.m /\ d = Drop /\ t = 2^SM /\ u = Unit(x) /\ k = Rounded(x)
        /\ k >= t /\ k <= 2 * t
  BY DoubleType, Drops, RoundedNear
<1>2. Implicit = t * d /\ m < t * d /\ t >= 1 /\ d >= 2 /\ 2^(SM + 1) = 2 * t
  BY <1>1, DoubleType, Drops
<1>3. x.e \in Nat /\ x.e # 0 /\ x.e # EXP_MASK /\ x.e < EXP_MASK /\ x.e - 1 \in Nat
  BY NormalType, Widths
<1> DEFINE e == SingleExponent(x)
           z == truncdfsf2(x)
<1>4. ~(e <= 0) /\ ~(e >= SEXP_MASK)
  <2>1. ~IsZero(x)
    BY NormalType
  <2>2. e <= 0 => truncdfsf2(x) = Zero(x.s)
    BY <1>3, <2>1, Zenon DEF truncdfsf2, SingleExponent
  <2>3. ~(e <= 0) /\ e >= SEXP_MASK => truncdfsf2(x) = Float(x.s, SEXP_MASK, 0)
    BY <1>3, <2>1, Zenon DEF truncdfsf2, SingleExponent
  <2>4. Zero(x.s).e = 0 /\ Float(x.s, SEXP_MASK, 0).e = SEXP_MASK
    BY DEF Zero, Float
  <2>5. z.e # 0 /\ z.e # SEXP_MASK
    BY Widths
  <2> HIDE DEF z, e
  <2>6. QED
    BY <2>2, <2>3, <2>4, <2>5 DEF z
<1>5. e \in Nat /\ e # 0 /\ e # SEXP_MASK /\ e + EXP_BIAS - SEXP_BIAS = x.e
  BY <1>3, <1>4, Widths DEF SingleExponent
<1>6. z = IF k = 2 * t THEN Float(x.s, e + 1, 0) ELSE Float(x.s, e, k % t)
  BY <1>1, <1>2, <1>3, <1>4, Truncated
<1> DEFINE y == extendsfdf2(z)
<1>7. y \in Double /\ y.s = x.s /\ Size(y) = (k * d) * u
  <2>1. CASE k = 2 * t
    <3>1. z.e # SEXP_MASK
      BY Widths
    <3>2. z = Float(x.s, e + 1, 0) /\ z.e = e + 1
      BY <1>6, <2>1 DEF Float
    <3>3. e + 1 \in Nat /\ e + 1 # 0 /\ e + 1 # SEXP_MASK
      BY <1>5, <3>1, <3>2
    <3>4. y = Float(x.s, (e + 1) + EXP_BIAS - SEXP_BIAS, 0 * Drop)
      BY <3>2, <3>3, Extended
    <3>5. (e + 1) + EXP_BIAS - SEXP_BIAS = x.e + 1 /\ 0 * Drop = 0
      BY <1>5, Widths, Drops
    <3>6. y = Float(x.s, x.e + 1, 0)
      BY <3>4, <3>5
    <3>7. y.s = x.s /\ y.e = x.e + 1 /\ y.m = 0
      BY <3>6 DEF Float
    <3>8. y \in Double
      BY <1>3, <3>6, Widths, DoubleType DEF Double, Float
    <3>9. Mantissa(y) = Implicit /\ Unit(y) = 2 * u
      <4>1. x.e + 1 # 0 /\ (x.e + 1) - 1 = (x.e - 1) + 1
        BY <1>3
      <4>2. Unit(y) = 2^((x.e - 1) + 1) /\ u = 2^(x.e - 1)
        BY <1>1, <1>3, <3>7, <4>1 DEF Unit
      <4>3. 2^((x.e - 1) + 1) = 2 * 2^(x.e - 1)
        BY <1>3, Doubling
      <4>4. Mantissa(y) = Implicit
        BY <3>7, <4>1, Widths DEF Mantissa
      <4>5. QED
        BY <4>2, <4>3, <4>4
    <3>10. (t * d) * (2 * u) = ((2 * t) * d) * u
      OBVIOUS
    <3>11. QED
      BY <1>2, <2>1, <3>7, <3>8, <3>9, <3>10 DEF Size
  <2>2. CASE k # 2 * t
    <3>1. k % t = k - t /\ k - t \in Nat /\ k - t < t
      BY <1>1, <1>2, <2>2
    <3>2. y = Float(x.s, x.e, (k - t) * d)
      BY <1>1, <1>5, <1>6, <2>2, <3>1, Extended
    <3>3. y.s = x.s /\ y.e = x.e /\ y.m = (k - t) * d
      BY <3>2 DEF Float
    <3>4. (k - t) * d \in Nat /\ (k - t) * d < t * d
      BY <1>2, <3>1, TimesLess
    <3>5. y \in Double
      BY <1>2, <1>3, <3>2, <3>4, Widths, DoubleType DEF Double, Float
    <3>6. t * d + (k - t) * d = k * d
      OBVIOUS
    <3>7. Mantissa(y) = k * d /\ Unit(y) = u
      BY <1>1, <1>2, <1>3, <3>3, <3>6 DEF Mantissa, Unit
    <3>8. QED
      BY <3>3, <3>5, <3>7 DEF Size
  <2>3. QED
    BY <2>1, <2>2
<1>8. PICK n \in Nat : n = Implicit + m /\ Size(x) = n * u
  BY <1>1, DoubleType, NormalType, Widths DEF Size
<1>9. 2 * (k * d - n) <= d /\ 2 * (n - k * d) <= d /\ k * d \in Nat
  BY <1>1, <1>8, RoundedNear
<1>10. 2 * ((k * d) * u - n * u) <= d * u /\ 2 * (n * u - (k * d) * u) <= d * u
  <2>1. PICK p \in Nat : p = k * d
    BY <1>9
  <2>2. (2 * (p - n)) * u <= d * u /\ (2 * (n - p)) * u <= d * u
    BY <1>9, <2>1, TimesInt
  <2>3. (2 * (p - n)) * u = 2 * (p * u - n * u) /\ (2 * (n - p)) * u = 2 * (n * u - p * u)
    OBVIOUS
  <2>4. QED
    BY <2>1, <2>2, <2>3
<1>11. 2^(x.e - 1 + M - SM) = d * u
  <2>1. x.e - 1 + M - SM = (x.e - 1) + (M - SM) /\ M - SM \in Nat
    BY <1>3, WidthAssumption
  <2>2. 2^((x.e - 1) + (M - SM)) = 2^(x.e - 1) * 2^(M - SM)
    BY <1>3, <2>1, PowerSum
  <2>3. QED
    BY <1>1, <1>3, <2>1, <2>2, NormalType DEF Drop
<1>12. d * u \in Nat
  OBVIOUS
<1> HIDE DEF y
<1>13. 2 * Abs(Value(y) - Value(x)) <= d * u
  BY <1>7, <1>8, <1>10, <1>12, Apart
<1>14. QED
  BY <1>11, <1>13 DEF y

-----------------------------------------------------------------------------
(* The integer part.                                                       *)

LEMMA AbsSize ==
  ASSUME NEW x \in Double
  PROVE  Abs(Value(x)) = Size(x)
<1>1. PICK p \in Nat : p = Size(x)
  BY DoubleType
<1>2. Value(x) = IF x.s = 1 THEN -p ELSE p
  BY <1>1, ValueSize
<1>3. QED
  BY <1>1, <1>2 DEF Abs

\* A factor of both falls out of a quotient.
LEMMA Scaled ==
  ASSUME NEW n \in Nat, NEW s \in Nat, s >= 1, NEW u \in Nat, u >= 1
  PROVE  (n * u) \div (s * u) = n \div s
<1>1. PICK q \in Nat, r \in Nat : q = n \div s /\ n = q * s + r /\ r < s
  OBVIOUS
<1>2. r * u < s * u /\ r * u \in Nat /\ s * u \in Nat /\ s * u >= 1
  <2>1. r * u < s * u
    BY <1>1, TimesLess
  <2>2. r * u \in Nat /\ s * u \in Nat
    OBVIOUS
  <2>3. QED
    BY <2>1, <2>2
<1>3. n * u = q * (s * u) + r * u
  <2>1. (q * s + r) * u = q * (s * u) + r * u
    OBVIOUS
  <2>2. QED
    BY <1>1, <2>1
<1>4. PICK v \in Nat, w \in Nat : v = s * u /\ w = r * u
  BY <1>2
<1>5. (q * v + w) \div v = q
  BY <1>2, <1>4, Quotient
<1>6. QED
  BY <1>1, <1>3, <1>4, <1>5

LEMMA ToIntIs ==
  ASSUME NEW q \in Nat, q < -IntMin
  PROVE  ToInt(q) = q /\ ToInt(-q) = -q
<1>1. PICK h \in Nat : h = 2^(IntBits - 1) /\ h >= 1 /\ 2^IntBits = 2 * h
  <2>1. IntBits - 1 \in Nat /\ (IntBits - 1) + 1 = IntBits
    BY WidthAssumption
  <2>2. QED
    BY <2>1, Doubling
<1>2. -IntMin = h /\ q < h
  BY <1>1 DEF IntMin
<1>3. q % (2 * h) = q
  BY <1>2
<1>4. q # 0 => (-q) % (2 * h) = 2 * h - q
  BY <1>2
<1>5. q = 0 => (-q) % (2 * h) = 0
  BY <1>1
<1>6. ToInt(q) = q
  BY <1>1, <1>2, <1>3 DEF ToInt
<1>7. ToInt(-q) = -q
  BY <1>1, <1>2, <1>4, <1>5 DEF ToInt
<1>8. QED
  BY <1>6, <1>7

LEMMA FixedIsPart ==
  ASSUME NEW x \in Double, Normal(x), NEW r \in fixdfsi(x),
         NEW one \in Nat, one = 2^(EXP_BIAS + M - 1),
         Abs(Value(x)) < -IntMin * one, 2^WordBits * Abs(Value(x)) >= one * 2^(M + 1)
  PROVE  r = (IF x.s = 1 THEN -1 ELSE 1) * (Abs(Value(x)) \div one)
<1>1. x.e \in Nat /\ x.e - 1 \in Nat /\ x.e # 0 /\ x.e # EXP_MASK /\ ~IsZero(x)
  BY NormalType, Widths
<1>2. PICK n \in Nat, u \in Nat, w \in Nat, h \in Nat :
        n = Implicit + x.m /\ u = 2^(x.e - 1) /\ w = 2^WordBits /\ h = 2^(IntBits - 1)
  <2>1. WordBits \in Nat /\ IntBits - 1 \in Nat
    BY WidthAssumption
  <2>2. 2^WordBits \in Nat /\ 2^(IntBits - 1) \in Nat /\ 2^(x.e - 1) \in Nat
    BY <1>1, <2>1, Doubling
  <2>3. Implicit + x.m \in Nat
    BY DoubleType, Widths
  <2>4. QED
    BY <2>2, <2>3
<1>3. n >= Implicit /\ n < 2 * Implicit /\ u >= 1 /\ w >= 1
  <2>1. WordBits \in Nat
    BY WidthAssumption
  <2>2. QED
    BY <1>1, <1>2, <2>1, DoubleType, Doubling, Widths
<1>4. Abs(Value(x)) = n * u /\ IntMin = -h /\ 2^(M + 1) = 2 * Implicit
  <2>1. Abs(Value(x)) = n * u
    BY <1>2, AbsSize, NormalType DEF Size
  <2>2. M \in Nat
    BY WidthAssumption
  <2>3. QED
    BY <1>2, <2>1, <2>2, Doubling DEF IntMin, Implicit
<1>5. n * u < h * one /\ w * (n * u) >= one * (2 * Implicit)
  <2>1. -((-h) * one) = h * one
    OBVIOUS
  <2>2. n * u < -((-h) * one)
    BY <1>4
  <2>3. QED
    BY <1>2, <1>4, <2>1, <2>2
<1> DEFINE shift == M - (x.e - EXP_BIAS)
<1>6. shift \in Int
  BY <1>1, WidthAssumption, Widths
<1>7. shift >= 0
  <2>1. SUFFICES ASSUME shift < 0  PROVE FALSE
    BY <1>6
  <2>2. EXP_BIAS + M - 1 \in Nat /\ EXP_BIAS + M - 1 < x.e - 1
    BY <1>1, <2>1, WidthAssumption, Widths
  <2>3. 2 * one <= u
    BY <1>1, <1>2, <2>2, PowerLess
  <2>4. 2 * h <= Implicit
    <3>1. IntBits - 1 \in Nat /\ M \in Nat /\ IntBits - 1 < M
      BY WidthAssumption
    <3>2. QED
      BY <1>2, <3>1, PowerLess DEF Implicit
  <2>5. h <= n /\ one <= u
    BY <1>3, <2>3, <2>4, Widths
  <2>6. h * one <= n * one /\ n * one <= n * u
    BY <2>5, TimesAtMost
  <2>7. h * one \in Nat /\ n * one \in Nat /\ n * u \in Nat
    OBVIOUS
  <2>8. QED
    BY <1>5, <2>6, <2>7
<1>8. PICK s \in Nat : s = 2^shift /\ s >= 1
  BY <1>6, <1>7, Doubling
<1>9. one = s * u
  <2>1. shift + (x.e - 1) = EXP_BIAS + M - 1 /\ shift \in Nat
    BY <1>1, <1>6, <1>7, WidthAssumption, Widths
  <2> HIDE DEF shift
  <2>2. QED
    BY <1>1, <1>2, <1>8, <2>1, PowerSum
<1>10. shift < WordBits
  <2>1. SUFFICES ASSUME shift >= WordBits  PROVE FALSE
    BY <1>6, WidthAssumption
  <2>2. w <= s
    <3>1. WordBits \in Nat /\ shift \in Nat
      BY <1>6, <1>7, WidthAssumption
    <3> HIDE DEF shift
    <3>2. CASE WordBits = shift
      BY <1>2, <1>8, <3>2
    <3>3. CASE WordBits < shift
      <4>1. 2 * w <= s
        BY <1>2, <1>8, <3>1, <3>3, PowerLess
      <4>2. QED
        BY <4>1
    <3>4. QED
      BY <2>1, <3>1, <3>2, <3>3
  <2>3. PICK i \in Nat : i = 2 * Implicit
    BY Widths
  <2>4. PICK v \in Nat : v = w * u /\ v >= 1
    BY <1>3
  <2>5. n * v < i * v
    BY <1>3, <2>3, <2>4, TimesLess
  <2>6. w * (u * i) <= s * (u * i)
    <3>1. u * i \in Nat
      OBVIOUS
    <3>2. QED
      BY <2>2, <3>1, TimesAtMost
  <2>7. w * (n * u) = n * (w * u) /\ w * (u * i) = i * (w * u) /\ s * (u * i) = (s * u) * i
    OBVIOUS
  <2>8. w * (n * u) >= (s * u) * i
    BY <1>5, <1>9, <2>3
  <2>9. w * (n * u) \in Nat /\ (s * u) * i \in Nat /\ n * v \in Nat /\ i * v \in Nat
    OBVIOUS
  <2>10. QED
    BY <2>4, <2>5, <2>6, <2>7, <2>8, <2>9
<1>11. PICK q \in Nat : q = n \div s
  BY <1>8
<1>12. Abs(Value(x)) \div one = q
  <2>1. s >= 1 /\ u >= 1
    BY <1>3, <1>8
  <2>2. (n * u) \div (s * u) = n \div s
    BY <2>1, Scaled
  <2>3. QED
    BY <1>4, <1>9, <1>11, <2>2
<1>13. q < h
  <2>1. SUFFICES ASSUME h <= q  PROVE FALSE
    BY <1>11
  <2> HIDE DEF shift
  <2>2. PICK k \in Nat : k = n % s /\ n = q * s + k
    <3>1. s >= 1
      BY <1>8
    <3>2. n % s \in Nat /\ n = (n \div s) * s + (n % s)
      BY <3>1
    <3>3. QED
      BY <1>11, <3>2
  <2>3. h * s <= q * s
    BY <2>1, TimesAtMost
  <2>4. h * s <= n
    <3>1. h * s \in Nat /\ q * s \in Nat
      OBVIOUS
    <3>2. QED
      BY <2>2, <2>3, <3>1
  <2>5. (h * s) * u <= n * u
    <3>1. h * s \in Nat
      OBVIOUS
    <3>2. QED
      BY <2>4, <3>1, TimesAtMost
  <2>6. (h * s) * u = h * (s * u) /\ h * (s * u) \in Nat /\ n * u \in Nat
    OBVIOUS
  <2>7. QED
    BY <1>5, <1>9, <2>5, <2>6
<1>14. fixdfsi(x) = {ToInt(IF x.s = 1 THEN -q ELSE q)}
  <2>1. ~(shift < 0) /\ ~(shift >= WordBits)
    BY <1>6, <1>7, <1>10, WidthAssumption
  <2>2. (Implicit + x.m) \div 2^shift = q
    BY <1>2, <1>8, <1>11
  <2> HIDE DEF shift
  <2>3. fixdfsi(x) = IF shift < 0 THEN {IF x.s = 1 THEN IntMin ELSE -IntMin - 1}
                     ELSE IF shift >= WordBits THEN IntMin .. -IntMin - 1
                     ELSE {ToInt(IF x.s = 1 THEN -((Implicit + x.m) \div 2^shift)
                                 ELSE (Implicit + x.m) \div 2^shift)}
    BY <1>1, Zenon DEF fixdfsi, shift
  <2>4. QED
    BY <2>1, <2>2, <2>3
<1>15. ToInt(q) = q /\ ToInt(-q) = -q
  BY <1>4, <1>13, ToIntIs
<1>16. r = IF x.s = 1 THEN -q ELSE q
  BY <1>14, <1>15
<1>17. (-1) * q = -q /\ 1 * q = q
  OBVIOUS
<1>18. QED
  BY <1>12, <1>16, <1>17

-----------------------------------------------------------------------------
(* Products.                                                               *)

LEMMA PowerAtMost ==
  ASSUME NEW m \in Nat, NEW n \in Nat, m <= n
  PROVE  2^m <= 2^n
<1>1. CASE m = n
  BY <1>1, Doubling
<1>2. CASE m < n
  <2>1. 2 * 2^m <= 2^n /\ 2^m \in Nat
    BY <1>2, PowerLess, Doubling
  <2>2. 2^n \in Nat
    BY Doubling
  <2>3. \A p, q \in Nat : 2 * p <= q => p <= q
    OBVIOUS
  <2>4. QED
    BY <2>1, <2>2, <2>3
<1>3. QED
  BY <1>1, <1>2

LEMMA PackedOut ==
  ASSUME NEW s, NEW e \in Int, NEW m
  PROVE  /\ e <= 0 => Packed(s, e, m) = Zero(s) /\ IsZero(Packed(s, e, m))
         /\ e >= EXP_MASK => Packed(s, e, m) = Inf(s) /\ Packed(s, e, m).e = EXP_MASK /\ Packed(s, e, m).m = 0
<1>1. e >= EXP_MASK => ~(e <= 0)
  BY Widths
<1>2. QED
  BY <1>1 DEF Packed, Zero, Inf, Float, IsZero

LEMMA PackedIn ==
  ASSUME NEW s \in {0, 1}, NEW e \in Nat, e >= 1, e < EXP_MASK, NEW m \in Nat
  PROVE  /\ Packed(s, e, m) \in Double /\ Normal(Packed(s, e, m))
         /\ Packed(s, e, m).s = s /\ Packed(s, e, m).e = e
         /\ Mantissa(Packed(s, e, m)) = Implicit + (m % Implicit)
<1>1. Packed(s, e, m) = Float(s, e, m % Implicit)
  BY Widths DEF Packed
<1>2. m % Implicit \in 0 .. Implicit - 1
  BY Widths
<1>3. QED
  BY <1>1, <1>2, Widths DEF Float, Double, Normal, Mantissa

\* A mantissa of M + 1 bits is packed as it is.
LEMMA Whole ==
  ASSUME NEW m \in Nat, m >= Implicit, m < 2 * Implicit
  PROVE  Implicit + (m % Implicit) = m
BY Widths

\* What a word of w holds of v, and 1 when adding q to p carries out of it.
Cut(v, w) == v % w
Over(p, q, w) == IF Cut(p + q, w) < p THEN 1 ELSE 0
InWord(p, w) == p \in Nat /\ p < w

\* A sum that wraps is less than what it was added to, and only such a sum.
LEMMA Carried ==
  ASSUME NEW w \in Nat, w >= 1, NEW p, InWord(p, w), NEW q, InWord(q, w)
  PROVE  InWord(Cut(p + q, w), w) /\ Over(p, q, w) \in Nat /\ p + q = Over(p, q, w) * w + Cut(p + q, w)
<1>0. p \in Nat /\ p < w /\ q \in Nat /\ q < w
  BY DEF InWord
<1>1. CASE p + q < w
  <2>1. PICK n \in Nat : n = p + q /\ n < w
    BY <1>0, <1>1
  <2>2. n % w = n
    BY <2>1
  <2>3. Cut(p + q, w) = n /\ ~(n < p) /\ 0 * w = 0
    BY <1>0, <2>1, <2>2 DEF Cut
  <2>4. QED
    BY <2>1, <2>3 DEF Over, InWord
<1>2. CASE ~(p + q < w)
  <2>1. PICK n \in Nat : n = p + q - w /\ n < w /\ n < p /\ p + q = 1 * w + n
    BY <1>0, <1>2
  <2>2. (1 * w + n) % w = n
    BY <2>1, Quotient
  <2>3. Cut(p + q, w) = n
    BY <2>1, <2>2 DEF Cut
  <2>4. QED
    BY <2>1, <2>3 DEF Over, InWord
<1>3. QED
  BY <1>1, <1>2

\* What moving n left by a factor of k leaves in a word of w = k * g, and what
\* it pushes out.
Moved(n, k, g, w) ==
  /\ InWord(Cut(n * k, w), w) /\ n \div g \in Nat
  /\ n * k = (n \div g) * w + Cut(n * k, w) /\ Cut(n * k, w) = (n % g) * k

LEMMA MovedOut ==
  ASSUME NEW n \in Nat, NEW k \in Nat, k >= 1, NEW g \in Nat, g >= 1, NEW w, w = k * g
  PROVE  Moved(n, k, g, w)
<1>1. PICK q \in Nat, r \in Nat : q = n \div g /\ r = n % g /\ n = q * g + r /\ r < g
  <2>1. n \div g \in Nat /\ n % g \in Nat /\ n = (n \div g) * g + (n % g) /\ n % g < g
    OBVIOUS
  <2>2. QED
    BY <2>1
<1>2. r * k < g * k /\ r * k \in Nat /\ g * k = k * g
  BY <1>1, TimesLess
<1>3. k * g \in Nat /\ k * g >= 1
  OBVIOUS
<1>4. (q * g + r) * k = q * (k * g) + r * k
  OBVIOUS
<1>5. PICK v \in Nat, u \in Nat : v = k * g /\ u = r * k /\ v >= 1 /\ u < v
  BY <1>2, <1>3
<1>6. (q * v + u) % v = u
  BY <1>5, Quotient
<1>7. n * k = q * v + u /\ n \div g = q /\ n % g = r /\ v = w
  BY <1>1, <1>4, <1>5
<1>8. Cut(n * k, w) = u
  BY <1>6, <1>7 DEF Cut
<1>9. n * k = q * w + u /\ u = r * k /\ u \in Nat /\ u < w /\ q \in Nat
  BY <1>5, <1>7
<1>10. QED
  BY <1>7, <1>8, <1>9, Zenon DEF Moved, InWord

\* The two halves of a product whose words are high and low, put together.
Joined(high, low, w, c, f) == ((((high * c) % w) + (low \div f)) % f) * f + (low % f)

LEMMA JoinedIsWhole ==
  ASSUME NEW high \in Nat, NEW low \in Nat, NEW w \in Nat, w >= 1, NEW c \in Nat, c >= 1,
         NEW f \in Nat, f >= 1, w = c * f, high * w + low < f * f
  PROVE  Joined(high, low, w, c, f) = high * w + low
<1>1. PICK q \in Nat, r \in Nat : q = low \div f /\ r = low % f /\ low = q * f + r /\ r < f
  <2>1. low \div f \in Nat /\ low % f \in Nat /\ low = (low \div f) * f + (low % f) /\ low % f < f
    OBVIOUS
  <2>2. QED
    BY <2>1
<1>2. PICK e \in Nat : e = high * c
  OBVIOUS
<1>3. high * (c * f) + (q * f + r) = (high * c + q) * f + r
  OBVIOUS
<1>4. high * w + low = (e + q) * f + r
  BY <1>1, <1>2, <1>3
<1>5. e + q < f
  <2>1. SUFFICES ASSUME f <= e + q  PROVE FALSE
    OBVIOUS
  <2>2. PICK t \in Nat : t = e + q /\ f <= t
    BY <2>1
  <2>3. f * f <= t * f /\ f * f \in Nat /\ t * f \in Nat
    BY <2>2, TimesAtMost
  <2>4. high * w + low = t * f + r
    BY <1>4, <2>2
  <2>5. QED
    BY <2>3, <2>4
<1>6. f <= w
  <2>1. 1 * f <= c * f /\ 1 * f = f
    BY TimesAtMost
  <2>2. QED
    BY <2>1
<1>7. e % w = e
  BY <1>5, <1>6
<1>8. PICK t \in Nat : t = e + q /\ t < f
  BY <1>5
<1>9. t % f = t
  BY <1>8
<1>10. Joined(high, low, w, c, f) = (((e % w) + q) % f) * f + r
  BY <1>1, <1>2, Zenon DEF Joined
<1>11. QED
  BY <1>4, <1>7, <1>8, <1>9, <1>10

\* Three addends in turn, with the carries counted in the upper word.
Added(p, x1, x2, x3, u1, u2, u3, w, c, f) ==
  LET low1 == Cut(p + x1, w)
      low2 == Cut(low1 + x2, w)
      low == Cut(low2 + x3, w)
      high == Over(p, x1, w) + Over(low1, x2, w) + Over(low2, x3, w) + u3 + u1 + u2
  IN Joined(high, low, w, c, f)

AddsUp(s, p, x1, x2, x3, u1, u2, u3, w, c, f) ==
  /\ w \in Nat /\ c \in Nat /\ f \in Nat /\ w >= 1 /\ c >= 1 /\ f >= 1 /\ w = c * f
  /\ InWord(p, w) /\ InWord(x1, w) /\ InWord(x2, w) /\ InWord(x3, w)
  /\ u1 \in Nat /\ u2 \in Nat /\ u3 \in Nat /\ s \in Nat /\ s < f * f
  /\ s = p + (u1 * w + x1) + (u2 * w + x2) + (u3 * w + x3)

LEMMA AddedIsSum ==
  ASSUME NEW s, NEW p, NEW x1, NEW x2, NEW x3, NEW u1, NEW u2, NEW u3, NEW w, NEW c, NEW f,
         AddsUp(s, p, x1, x2, x3, u1, u2, u3, w, c, f)
  PROVE  Added(p, x1, x2, x3, u1, u2, u3, w, c, f) = s
<1> /\ w \in Nat /\ c \in Nat /\ f \in Nat /\ w >= 1 /\ c >= 1 /\ f >= 1
    /\ InWord(p, w) /\ InWord(x1, w) /\ InWord(x2, w) /\ InWord(x3, w)
    /\ u1 \in Nat /\ u2 \in Nat /\ u3 \in Nat /\ s \in Nat
  BY Zenon DEF AddsUp
<1>0. x1 \in Nat /\ x2 \in Nat /\ x3 \in Nat /\ p \in Nat
  BY DEF InWord
<1>1. PICK low1 \in Nat, v1 \in Nat :
         low1 = Cut(p + x1, w) /\ v1 = Over(p, x1, w) /\ InWord(low1, w) /\ p + x1 = v1 * w + low1
  <2>1. /\ InWord(Cut(p + x1, w), w) /\ Over(p, x1, w) \in Nat
        /\ p + x1 = Over(p, x1, w) * w + Cut(p + x1, w)
    BY Carried
  <2>2. Cut(p + x1, w) \in Nat
    BY <2>1 DEF InWord
  <2>3. QED
    BY <2>1, <2>2, Zenon
<1>2. PICK low2 \in Nat, v2 \in Nat :
         low2 = Cut(low1 + x2, w) /\ v2 = Over(low1, x2, w) /\ InWord(low2, w) /\ low1 + x2 = v2 * w + low2
  <2>1. /\ InWord(Cut(low1 + x2, w), w) /\ Over(low1, x2, w) \in Nat
        /\ low1 + x2 = Over(low1, x2, w) * w + Cut(low1 + x2, w)
    BY <1>1, Carried
  <2>2. Cut(low1 + x2, w) \in Nat
    BY <2>1 DEF InWord
  <2>3. QED
    BY <2>1, <2>2, Zenon
<1>3. PICK low \in Nat, v3 \in Nat :
         low = Cut(low2 + x3, w) /\ v3 = Over(low2, x3, w) /\ InWord(low, w) /\ low2 + x3 = v3 * w + low
  <2>1. /\ InWord(Cut(low2 + x3, w), w) /\ Over(low2, x3, w) \in Nat
        /\ low2 + x3 = Over(low2, x3, w) * w + Cut(low2 + x3, w)
    BY <1>2, Carried
  <2>2. Cut(low2 + x3, w) \in Nat
    BY <2>1 DEF InWord
  <2>3. QED
    BY <2>1, <2>2, Zenon
<1>4. PICK high \in Nat : high = v1 + v2 + v3 + u3 + u1 + u2
  OBVIOUS
<1>5. high * w + low = s
  <2>1. (v1 + v2 + v3 + u3 + u1 + u2) * w
          = v1 * w + v2 * w + v3 * w + u3 * w + u1 * w + u2 * w
    OBVIOUS
  <2>2. PICK a1 \in Nat, a2 \in Nat, a3 \in Nat, b1 \in Nat, b2 \in Nat, b3 \in Nat :
          /\ a1 = v1 * w /\ a2 = v2 * w /\ a3 = v3 * w
          /\ b1 = u1 * w /\ b2 = u2 * w /\ b3 = u3 * w
    OBVIOUS
  <2>3. high * w = a1 + a2 + a3 + b1 + b2 + b3
    BY <1>4, <2>1, <2>2
  <2>4. p + x1 = a1 + low1 /\ low1 + x2 = a2 + low2 /\ low2 + x3 = a3 + low
        /\ s = p + (b1 + x1) + (b2 + x2) + (b3 + x3)
    BY <1>0, <1>1, <1>2, <1>3, <2>2 DEF AddsUp
  <2>5. QED
    BY <1>0, <2>3, <2>4
<1>6. high * w + low < f * f
  BY <1>5 DEF AddsUp
<1>7. Joined(high, low, w, c, f) = high * w + low
  BY <1>6, JoinedIsWhole DEF AddsUp
<1>8. Added(p, x1, x2, x3, u1, u2, u3, w, c, f) = Joined(high, low, w, c, f)
  BY <1>1, <1>2, <1>3, <1>4, Zenon DEF Added
<1>9. QED
  BY <1>5, <1>7, <1>8

\* Product on the powers of 2 it is defined with: halves and mantissas of k and
\* l, words of w.
Words(m, n, k, l, w, g, d, c, f) ==
  LET p01 == (m % k) * (n \div k)
      p10 == (m \div k) * (n % k)
      p11 == (m \div k) * (n \div k)
  IN Added((m % k) * (n % k), Cut(p01 * k, w), Cut(p10 * k, w), Cut((p11 % l) * l, w),
           p01 \div g, p10 \div g, p11 \div d, w, c, f)

\* How those powers are related.
Powers(k, l, w, g, d, c, f) ==
  /\ k \in Nat /\ l \in Nat /\ w \in Nat /\ g \in Nat /\ d \in Nat /\ c \in Nat /\ f \in Nat
  /\ k >= 1 /\ l >= 1 /\ w >= 1 /\ g >= 1 /\ d >= 1 /\ c >= 1 /\ f >= 1
  /\ l = k * k /\ w = k * g /\ w = l * d /\ w = c * f /\ (\E o \in Nat : l = d * o)

LEMMA ProductIsWords ==
  ASSUME NEW m, NEW n
  PROVE  Product(m, n) = Words(m, n, 2^(M \div 2), Implicit, 2^WordBits, 2^(WordBits - M \div 2),
                               2^(WordBits - M), 2^(WordBits - M - 1), 2^(M + 1))
BY DEF Product, Words, Added, Joined, Over, Cut

LEMMA PowersRelated ==
  Powers(2^(M \div 2), Implicit, 2^WordBits, 2^(WordBits - M \div 2), 2^(WordBits - M), 2^(WordBits - M - 1),
         2^(M + 1))
<1>1. PICK h \in Nat : h = M \div 2 /\ h + h = M
  <2>1. M \in Nat /\ M % 2 = 0
    BY WidthAssumption
  <2>2. M \div 2 \in Nat /\ M = 2 * (M \div 2) + (M % 2)
    BY <2>1
  <2>3. QED
    BY <2>1, <2>2
<1>2. /\ M \in Nat /\ WordBits \in Nat /\ M + 1 \in Nat /\ M >= h
      /\ WordBits - M \in Nat /\ WordBits - h \in Nat /\ WordBits - M - 1 \in Nat
      /\ h + (WordBits - h) = WordBits /\ M + (WordBits - M) = WordBits
      /\ (WordBits - M - 1) + (M + 1) = WordBits
      /\ 2 * M - WordBits \in Nat /\ (WordBits - M) + (2 * M - WordBits) = M
  <2>1. M \in Nat /\ WordBits \in Nat /\ M + 2 <= WordBits /\ WordBits <= 2 * M
    BY WidthAssumption
  <2>2. M >= h
    BY <1>1, <2>1
  <2>3. QED
    BY <2>1, <2>2
<1>3. 2^(h + h) = 2^h * 2^h /\ 2^(h + (WordBits - h)) = 2^h * 2^(WordBits - h)
  BY <1>2, PowerSum
<1>4. 2^(M + (WordBits - M)) = 2^M * 2^(WordBits - M)
  BY <1>2, PowerSum
<1>5. 2^((WordBits - M - 1) + (M + 1)) = 2^(WordBits - M - 1) * 2^(M + 1)
  BY <1>2, PowerSum
<1>6. 2^((WordBits - M) + (2 * M - WordBits)) = 2^(WordBits - M) * 2^(2 * M - WordBits)
  BY <1>2, PowerSum
<1>7. \E o \in Nat : Implicit = 2^(WordBits - M) * o
  BY <1>2, <1>6, Doubling DEF Implicit
<1>8. /\ 2^h >= 1 /\ 2^(WordBits - h) >= 1 /\ 2^(WordBits - M) >= 1 /\ 2^(WordBits - M - 1) >= 1
      /\ 2^(M + 1) >= 1 /\ 2^WordBits >= 1 /\ Implicit >= 1
  BY <1>2, Doubling, Widths
<1>9. /\ 2^h \in Nat /\ 2^(WordBits - h) \in Nat /\ 2^(WordBits - M) \in Nat /\ 2^(WordBits - M - 1) \in Nat
      /\ 2^(M + 1) \in Nat /\ 2^WordBits \in Nat /\ Implicit \in Nat
  BY <1>2, Doubling, Widths
<1>10. QED
  BY <1>1, <1>2, <1>3, <1>4, <1>5, <1>7, <1>8, <1>9 DEF Powers, Implicit

LEMMA WordsHold ==
  ASSUME NEW k, NEW l, NEW w, NEW g, NEW d, NEW c, NEW f, Powers(k, l, w, g, d, c, f),
         NEW m, InWord(m, f), NEW n, InWord(n, f)
  PROVE  Words(m, n, k, l, w, g, d, c, f) = m * n
<1> /\ k \in Nat /\ l \in Nat /\ w \in Nat /\ g \in Nat /\ d \in Nat /\ c \in Nat /\ f \in Nat
    /\ m \in Nat /\ m < f /\ n \in Nat /\ n < f
  BY Zenon DEF Powers, InWord
<1>1. k >= 1 /\ l >= 1 /\ w >= 1 /\ g >= 1 /\ d >= 1 /\ c >= 1 /\ f >= 1
  BY DEF Powers
<1>2. PICK o \in Nat : l = k * k /\ w = k * g /\ w = l * d /\ w = c * f /\ l = d * o
  BY DEF Powers
<1>3. PICK m0 \in Nat, m1 \in Nat, n0 \in Nat, n1 \in Nat :
        /\ m0 = m % k /\ m1 = m \div k /\ m = m1 * k + m0 /\ m0 < k
        /\ n0 = n % k /\ n1 = n \div k /\ n = n1 * k + n0 /\ n0 < k
  <2>1. m % k \in Nat /\ m \div k \in Nat /\ m = (m \div k) * k + (m % k) /\ m % k < k
    BY <1>1
  <2>2. n % k \in Nat /\ n \div k \in Nat /\ n = (n \div k) * k + (n % k) /\ n % k < k
    BY <1>1
  <2>3. QED
    BY <2>1, <2>2
<1>4. PICK p00 \in Nat, p01 \in Nat, p10 \in Nat, p11 \in Nat :
        p00 = m0 * n0 /\ p01 = m0 * n1 /\ p10 = m1 * n0 /\ p11 = m1 * n1
  OBVIOUS
<1>5. m * n = p00 + p01 * k + p10 * k + p11 * l
  <2>1. (m1 * k + m0) * (n1 * k + n0)
          = (m0 * n0) + (m0 * n1) * k + (m1 * n0) * k + (m1 * n1) * (k * k)
    OBVIOUS
  <2>2. QED
    BY <1>2, <1>3, <1>4, <2>1
<1>6. InWord(p00, w)
  <2>1. m0 * n0 <= m0 * k /\ m0 * n0 \in Nat /\ m0 * k \in Nat
    BY <1>3, TimesAtMost
  <2>2. m0 * k < k * k
    BY <1>1, <1>3, TimesLess
  <2>3. l * 1 <= l * d /\ l * 1 = l
    BY <1>1, TimesAtMost
  <2>4. QED
    BY <1>2, <1>4, <2>1, <2>2, <2>3 DEF InWord
<1>7. PICK x1 \in Nat, u1 \in Nat :
         x1 = Cut(p01 * k, w) /\ u1 = p01 \div g /\ InWord(x1, w) /\ p01 * k = u1 * w + x1
  <2>1. Moved(p01, k, g, w)
    BY <1>1, <1>2, MovedOut
  <2>2. QED
    BY <2>1, Zenon DEF Moved, InWord
<1>8. PICK x2 \in Nat, u2 \in Nat :
         x2 = Cut(p10 * k, w) /\ u2 = p10 \div g /\ InWord(x2, w) /\ p10 * k = u2 * w + x2
  <2>1. Moved(p10, k, g, w)
    BY <1>1, <1>2, MovedOut
  <2>2. QED
    BY <2>1, Zenon DEF Moved, InWord
<1>9. PICK x3 \in Nat, u3 \in Nat :
         x3 = Cut((p11 % l) * l, w) /\ u3 = p11 \div d /\ InWord(x3, w) /\ p11 * l = u3 * w + x3
  <2>1. (p11 % l) % d = p11 % d
    <3>1. PICK q \in Nat, r \in Nat : r = p11 % l /\ q = p11 \div l /\ p11 = q * l + r
      <4>1. p11 % l \in Nat /\ p11 \div l \in Nat /\ p11 = (p11 \div l) * l + (p11 % l)
        BY <1>1
      <4>2. QED
        BY <4>1
    <3>2. PICK s \in Nat, t \in Nat : s = r % d /\ t = r \div d /\ r = t * d + s /\ s < d
      <4>1. r % d \in Nat /\ r \div d \in Nat /\ r = (r \div d) * d + (r % d) /\ r % d < d
        BY <1>1
      <4>2. QED
        BY <4>1
    <3>3. q * (d * o) + (t * d + s) = (q * o + t) * d + s
      OBVIOUS
    <3>4. PICK j \in Nat : j = q * o + t
      OBVIOUS
    <3>5. (j * d + s) % d = s
      BY <1>1, <3>2, Quotient
    <3>6. p11 = q * (d * o) + (t * d + s)
      BY <1>2, <3>1, <3>2, Zenon
    <3>7. p11 = j * d + s
      BY <3>3, <3>4, <3>6
    <3>8. QED
      BY <3>1, <3>2, <3>5, <3>7, Zenon
  <2>2. p11 % l \in Nat
    BY <1>1
  <2>3. Moved(p11, l, d, w) /\ Moved(p11 % l, l, d, w)
    BY <1>1, <1>2, <2>2, MovedOut
  <2>4. Cut((p11 % l) * l, w) = Cut(p11 * l, w)
    BY <2>1, <2>3, Zenon DEF Moved
  <2>5. QED
    BY <2>3, <2>4, Zenon DEF Moved, InWord
<1>10. PICK s \in Nat : s = m * n /\ s < f * f
  <2>1. m * n <= m * f /\ m * n \in Nat /\ m * f \in Nat
    BY TimesAtMost
  <2>2. m * f < f * f
    BY <1>1, TimesLess
  <2>3. QED
    BY <2>1, <2>2
<1>11. AddsUp(s, p00, x1, x2, x3, u1, u2, u3, w, c, f)
  BY <1>1, <1>2, <1>5, <1>6, <1>7, <1>8, <1>9, <1>10, Zenon DEF AddsUp
<1>12. Added(p00, x1, x2, x3, u1, u2, u3, w, c, f) = s
  BY <1>11, AddedIsSum, SMT
<1>13. Words(m, n, k, l, w, g, d, c, f) = Added(p00, x1, x2, x3, u1, u2, u3, w, c, f)
  BY <1>3, <1>4, <1>7, <1>8, <1>9, Zenon DEF Words
<1>14. QED
  BY <1>10, <1>12, <1>13

\* The words __muldf3 multiplies in hold the whole product of two mantissas.
THEOREM ProductIsExact ==
  ASSUME NEW m \in Nat, m < 2 * Implicit, NEW n \in Nat, n < 2 * Implicit
  PROVE  Product(m, n) = m * n
<1>1. PICK h \in Nat : h = M \div 2
  <2>1. M \in Nat
    BY WidthAssumption
  <2>2. QED
    BY <2>1
<1>2. /\ WordBits \in Nat /\ M + 1 \in Nat /\ M \in Nat /\ WordBits - M \in Nat
      /\ WordBits - M - 1 \in Nat /\ 2 * M - WordBits \in Nat
  BY WidthAssumption
<1>3. WordBits - M \div 2 \in Nat /\ M \div 2 \in Nat
  BY <1>1, <1>2
<1>4. /\ 2^(M \div 2) \in Nat /\ 2^WordBits \in Nat /\ 2^(WordBits - M \div 2) \in Nat /\ 2^(WordBits - M) \in Nat
      /\ 2^(WordBits - M - 1) \in Nat /\ 2^(M + 1) \in Nat
      /\ 2^(M + 1) = 2 * 2^M
  BY <1>2, <1>3, Doubling
<1>5. m < 2^(M + 1) /\ n < 2^(M + 1) /\ Implicit \in Nat
  BY <1>4, Widths DEF Implicit
<1>6. PICK k \in Nat, l \in Nat, w \in Nat, g \in Nat, d \in Nat, c \in Nat, f \in Nat :
        /\ k = 2^(M \div 2) /\ l = Implicit /\ w = 2^WordBits /\ g = 2^(WordBits - M \div 2)
        /\ d = 2^(WordBits - M) /\ c = 2^(WordBits - M - 1) /\ f = 2^(M + 1)
  BY <1>4, <1>5, Zenon
<1>7. Powers(k, l, w, g, d, c, f) /\ InWord(m, f) /\ InWord(n, f)
  BY <1>5, <1>6, PowersRelated, Zenon DEF InWord
<1>8. Words(m, n, k, l, w, g, d, c, f) = m * n
  BY <1>7, WordsHold, SMT
<1>9. Product(m, n) = Words(m, n, k, l, w, g, d, c, f)
  BY <1>6, ProductIsWords, Zenon
<1>10. QED
  BY <1>8, <1>9

LEMMA ProductBounds ==
  ASSUME NEW x \in Double, NEW y \in Double, Normal(x), Normal(y)
  PROVE  /\ Mantissa(x) * Mantissa(y) \in Nat
         /\ Mantissa(x) * Mantissa(y) >= Implicit * Implicit
         /\ Mantissa(x) * Mantissa(y) < (2 * Implicit) * (2 * Implicit)
<1>1. PICK i \in Nat, p \in Nat, q \in Nat :
        i = Implicit /\ p = Mantissa(x) /\ q = Mantissa(y) /\ p >= i /\ q >= i /\ p < 2 * i /\ q < 2 * i
  BY NormalType, DoubleType, Widths
<1>2. i * i <= p * i /\ p * i <= p * q
  BY <1>1, TimesAtMost
<1>3. i >= 1
  BY <1>1, Widths
<1>4. PICK j \in Nat : j = 2 * i
  OBVIOUS
<1>5. p * q <= p * j /\ p * j < j * j
  BY <1>1, <1>3, <1>4, TimesAtMost, TimesLess
<1>6. i * i \in Nat /\ p * i \in Nat /\ p * q \in Nat /\ p * j \in Nat /\ j * j \in Nat
  OBVIOUS
<1>7. QED
  BY <1>1, <1>2, <1>4, <1>5, <1>6

LEMMA NormalizedNear ==
  ASSUME NEW p \in Nat, p >= Implicit * Implicit, p < (2 * Implicit) * (2 * Implicit),
         NEW e \in Int, NEW s \in {0, 1}, NEW z, z = Normalized(p, e, s)
  PROVE  \/ Normal(z) /\ z.s = s /\ ProductRounded(z, p, e)
         \/ z = Zero(s) /\ e <= 0 /\ p < 2^(2 * M + 1 - e)
         \/ z = Inf(s) /\ (e >= EXP_MASK \/ p >= 2^(2 * M + EXP_MASK - e))
<1>1. PICK i \in Nat : i = Implicit /\ i >= 2 /\ i % 2 = 0
  BY Widths
<1>2. PICK mr \in Nat, r \in Nat : mr = p \div i /\ r = p % i /\ p = mr * i + r /\ r < i
  <2>1. p \div i \in Nat /\ p % i \in Nat /\ p = (p \div i) * i + (p % i) /\ p % i < i
    BY <1>1
  <2>2. QED
    BY <2>1
<1>3. mr >= i
  <2>1. SUFFICES ASSUME mr + 1 <= i  PROVE FALSE
    OBVIOUS
  <2>2. (mr + 1) * i <= i * i
    BY <2>1, TimesAtMost
  <2>3. (mr + 1) * i = mr * i + i /\ mr * i \in Nat /\ i * i \in Nat
    OBVIOUS
  <2>4. QED
    BY <1>1, <1>2, <2>2, <2>3
<1>4. mr < 4 * i
  <2>1. SUFFICES ASSUME 4 * i <= mr  PROVE FALSE
    OBVIOUS
  <2>2. (4 * i) * i <= mr * i
    BY <2>1, TimesAtMost
  <2>3. (4 * i) * i = (2 * i) * (2 * i) /\ mr * i \in Nat /\ (4 * i) * i \in Nat
    OBVIOUS
  <2>4. QED
    BY <1>1, <1>2, <2>2, <2>3
<1>5. M \in Nat /\ 2^M = i /\ 2^(M + 1) = 2 * i /\ 2^(2 * M + 1) = (2 * i) * i
      /\ 2^(2 * M + 2) = (2 * i) * (2 * i)
  <2>1. M \in Nat /\ 1 + M \in Nat /\ 2 * M + 1 = (1 + M) + M /\ 2 * M + 2 = (1 + M) + (1 + M)
        /\ 1 + M = M + 1
    BY WidthAssumption
  <2>2. 2^M = i /\ 2^(1 + M) = 2 * i /\ 2^(M + 1) = 2 * i
    BY <1>1, <2>1, Doubling DEF Implicit
  <2>3. 2^((1 + M) + M) = 2^(1 + M) * 2^M /\ 2^((1 + M) + (1 + M)) = 2^(1 + M) * 2^(1 + M)
    BY <2>1, PowerSum
  <2>4. QED
    BY <2>1, <2>2, <2>3
<1>6. p # 0 /\ mr # 0
  <2>1. mr # 0
    BY <1>1, <1>3
  <2>2. mr * i >= 1
    BY <1>1, <2>1
  <2>3. mr * i \in Nat
    OBVIOUS
  <2>4. QED
    BY <1>2, <2>1, <2>2, <2>3
<1>7. CASE mr >= 2 * i
  <2>1. PICK h \in Nat, j \in {0, 1} : h = mr \div 2 /\ mr = 2 * h + j
    <3>1. mr \div 2 \in Nat /\ mr % 2 \in {0, 1} /\ mr = 2 * (mr \div 2) + (mr % 2)
      OBVIOUS
    <3>2. QED
      BY <3>1
  <2>2. z = Packed(s, e + 1, h)
    BY <1>1, <1>2, <1>6, <1>7, <2>1 DEF Normalized
  <2>3. e + 1 \in Int
    OBVIOUS
  <2>4. CASE e + 1 <= 0
    <3>1. z = Zero(s) /\ e <= 0
      BY <2>2, <2>3, <2>4, PackedOut
    <3>2. 2 * M + 2 \in Nat /\ 2 * M + 1 - e \in Nat /\ 2 * M + 2 <= 2 * M + 1 - e
      BY <1>5, <2>4
    <3>3. 2^(2 * M + 2) <= 2^(2 * M + 1 - e) /\ 2^(2 * M + 1 - e) \in Nat
      BY <3>2, PowerAtMost, Doubling
    <3>4. PICK k \in Nat, l \in Nat : k = 2^(2 * M + 1 - e) /\ l = (2 * i) * (2 * i) /\ l <= k
      BY <1>5, <3>3
    <3>5. p < k
      BY <1>1, <3>4
    <3>6. QED
      BY <3>1, <3>4, <3>5
  <2>5. CASE e + 1 >= EXP_MASK
    <3>1. z = Inf(s)
      BY <2>2, <2>3, <2>5, PackedOut
    <3>2. CASE e >= EXP_MASK
      BY <3>1, <3>2
    <3>3. CASE ~(e >= EXP_MASK)
      <4>1. 2 * M + EXP_MASK - e = 2 * M + 1
        BY <1>5, <2>5, <3>3, Widths
      <4>2. (2 * i) * i <= mr * i /\ (2 * i) * i \in Nat /\ mr * i \in Nat
        BY <1>7, TimesAtMost
      <4>3. p >= (2 * i) * i
        BY <1>2, <4>2
      <4>4. QED
        BY <1>5, <3>1, <4>1, <4>3
    <3>4. QED
      BY <3>2, <3>3
  <2>6. CASE ~(e + 1 <= 0) /\ ~(e + 1 >= EXP_MASK)
    <3>1. e + 1 \in Nat /\ e + 1 >= 1 /\ e + 1 < EXP_MASK
      BY <2>6, Widths
    <3>2. h >= i /\ h < 2 * i
      BY <1>4, <1>7, <2>1
    <3>3. Normal(z) /\ z.s = s /\ z.e = e + 1 /\ Mantissa(z) = h
      <4>1. PICK f \in Nat : f = e + 1 /\ f >= 1 /\ f < EXP_MASK
        BY <3>1
      <4>2. Normal(z) /\ z.s = s /\ z.e = f /\ Mantissa(z) = Implicit + (h % Implicit)
        BY <2>2, <4>1, PackedIn
      <4>3. Implicit + (h % Implicit) = h
        BY <1>1, <3>2, Whole
      <4>4. QED
        BY <4>1, <4>2, <4>3
    <3>4. p >= (2 * i) * i
      <4>1. (2 * i) * i <= mr * i /\ (2 * i) * i \in Nat /\ mr * i \in Nat
        BY <1>7, TimesAtMost
      <4>2. QED
        BY <1>2, <4>1
    <3>5. p - h * (2 * i) \in 0 .. 2 * i - 1
      <4>1. (2 * h + j) * i = h * (2 * i) + j * i
        BY <2>1
      <4>2. PICK g \in Nat, k \in Nat : g = h * (2 * i) /\ k = j * i /\ k <= i
        BY <2>1
      <4>3. p = g + k + r
        BY <1>2, <2>1, <4>1, <4>2
      <4>4. QED
        BY <1>2, <4>2, <4>3
    <3>6. ProductRounded(z, p, e)
      BY <1>5, <3>3, <3>4, <3>5 DEF ProductRounded
    <3>7. QED
      BY <3>3, <3>6
  <2>7. QED
    BY <2>4, <2>5, <2>6
<1>8. CASE mr < 2 * i
  <2>1. PICK up \in {0, 1} : up = (IF r > i \div 2 THEN 1 ELSE 0)
    OBVIOUS
  <2>2. z = Packed(s, e, (mr % i) + up)
    <3>1. ~(mr >= 2 * i)
      BY <1>8
    <3>2. QED
      BY <1>1, <1>2, <1>6, <2>1, <3>1 DEF Normalized
  <2>3. PICK m \in Nat : m = (mr % i) + up /\ m <= i /\ m = mr - i + up
    <3>1. mr % i = mr - i
      BY <1>1, <1>3, <1>8
    <3>2. QED
      BY <1>3, <1>8, <2>1, <3>1
  <2>4. p < (2 * i) * i /\ (2 * i) * i - p <= (2 * i - mr) * i - r
    <3>1. (mr + 1) * i <= (2 * i) * i
      <4>1. mr + 1 <= 2 * i
        BY <1>8
      <4>2. QED
        BY <4>1, TimesAtMost
    <3>2. (mr + 1) * i = mr * i + i /\ mr * i \in Nat /\ (2 * i) * i \in Nat
      OBVIOUS
    <3>3. (2 * i - mr) * i = (2 * i) * i - mr * i
      OBVIOUS
    <3>4. QED
      BY <1>2, <3>1, <3>2, <3>3
  <2>5. CASE e <= 0
    <3>1. z = Zero(s)
      BY <2>2, <2>5, PackedOut
    <3>2. 2 * M + 1 \in Nat /\ 2 * M + 1 - e \in Nat /\ 2 * M + 1 <= 2 * M + 1 - e
      BY <1>5, <2>5
    <3>3. 2^(2 * M + 1) <= 2^(2 * M + 1 - e) /\ 2^(2 * M + 1 - e) \in Nat
      BY <3>2, PowerAtMost, Doubling
    <3>4. PICK k \in Nat, l \in Nat : k = 2^(2 * M + 1 - e) /\ l = (2 * i) * i /\ l <= k
      BY <1>5, <3>3
    <3>5. p < k
      BY <2>4, <3>4
    <3>6. QED
      BY <2>5, <3>1, <3>4, <3>5
  <2>6. CASE e >= EXP_MASK
    <3>1. z = Inf(s)
      BY <2>2, <2>6, PackedOut
    <3>2. QED
      BY <2>6, <3>1
  <2>7. CASE ~(e <= 0) /\ ~(e >= EXP_MASK)
    <3>1. e \in Nat /\ e >= 1 /\ e < EXP_MASK
      BY <2>7, Widths
    <3>2. Normal(z) /\ z.s = s /\ z.e = e /\ Mantissa(z) = Implicit + (m % Implicit)
      BY <2>2, <2>3, <3>1, PackedIn
    <3>3. /\ up = 0 => 2 * r <= i
          /\ up = 1 => 2 * (i - r) < i
      BY <1>1, <1>2, <2>1
    <3>4. CASE m < i
      <4>1. Mantissa(z) = mr + up
        <5>1. m % Implicit = m
          BY <1>1, <2>3, <3>4
        <5>2. Mantissa(z) = i + m
          BY <1>1, <3>2, <5>1
        <5>3. QED
          BY <2>3, <5>2
      <4>2. PICK g \in Nat, t \in Int : g = (mr + up) * i /\ t = g - p /\ 2 * t <= i /\ -(2 * t) <= i
        <5>1. (mr + up) * i = mr * i + up * i
          BY <2>1
        <5>2. PICK k \in Nat, g \in Nat : k = mr * i /\ g = (mr + up) * i /\ g = k + IF up = 1 THEN i ELSE 0
          BY <2>1, <5>1
        <5>3. p = k + r
          BY <1>2, <5>2
        <5>4. PICK t \in Int : t = g - p /\ t = (IF up = 1 THEN i ELSE 0) - r
          BY <5>2, <5>3
        <5>5. 2 * t <= i /\ -(2 * t) <= i
          BY <1>2, <2>1, <3>3, <5>4
        <5>6. QED
          BY <5>2, <5>4, <5>5
      <4>3. 2 * Abs(Mantissa(z) * 2^M - p) <= 2^M
        <5>1. 2 * Abs(t) <= i
          BY <4>2 DEF Abs
        <5>2. Mantissa(z) * 2^M - p = t
          BY <1>5, <4>1, <4>2
        <5>3. QED
          BY <1>5, <5>1, <5>2
      <4>4. ProductRounded(z, p, e)
        BY <1>5, <2>4, <3>2, <4>3 DEF ProductRounded
      <4>5. QED
        BY <3>2, <4>4
    <3>5. CASE m = i
      <4>1. up = 1 /\ mr = 2 * i - 1
        BY <1>1, <1>8, <2>1, <2>3, <3>5
      <4>2. z.m = 0
        <5>1. m % Implicit = 0
          BY <1>1, <3>5
        <5>2. z = Packed(s, e, m)
          BY <2>2, <2>3
        <5>3. z = Float(s, e, 0)
          BY <3>1, <5>1, <5>2, Widths DEF Packed
        <5>4. QED
          BY <5>3 DEF Float
      <4>3. 2 * ((2 * i) * i - p) < i
        <5>1. (2 * i - mr) * i = i
          BY <4>1
        <5>2. PICK k \in Nat : k = (2 * i) * i
          OBVIOUS
        <5>3. k - p <= i - r
          BY <2>4, <5>1, <5>2
        <5>4. 2 * (k - p) < i
          BY <3>3, <4>1, <5>3
        <5>5. QED
          BY <5>2, <5>4
      <4>4. ProductRounded(z, p, e)
        BY <1>5, <2>4, <3>2, <4>2, <4>3 DEF ProductRounded
      <4>5. QED
        BY <3>2, <4>4
    <3>6. QED
      BY <2>3, <3>4, <3>5
  <2>8. QED
    BY <2>5, <2>6, <2>7
<1>9. QED
  BY <1>7, <1>8

LEMMA ProductIsNear ==
  ASSUME NEW x \in Double, NEW y \in Double, Normal(x), Normal(y), result = muldf3(x, y)
  PROVE  ProductNear(x, y)
<1>1. PICK p \in Nat : p = Mantissa(x) * Mantissa(y) /\ p >= Implicit * Implicit
                       /\ p < (2 * Implicit) * (2 * Implicit)
  BY ProductBounds
<1>2. PICK e \in Int : e = x.e + y.e - EXP_BIAS
  BY NormalType, Widths
<1>3. Sign(x, y) \in {0, 1}
  BY DoubleType DEF Sign
<1>4. /\ ~IsNaN(x) /\ ~IsNaN(y) /\ ~IsZero(x) /\ ~IsZero(y)
      /\ x.e # EXP_MASK /\ y.e # EXP_MASK
  BY NormalType, Widths
<1>5. result = Normalized(p, e, Sign(x, y))
  <2>1. /\ Mantissa(x) \in Nat /\ Mantissa(x) < 2 * Implicit
        /\ Mantissa(y) \in Nat /\ Mantissa(y) < 2 * Implicit
    BY DoubleType
  <2>2. Product(Mantissa(x), Mantissa(y)) = p
    BY <1>1, <2>1, ProductIsExact
  <2>3. QED
    BY <1>2, <1>4, <2>2, Zenon DEF muldf3
<1>6. PICK z : z = result
  OBVIOUS
<1>7. \/ Normal(z) /\ z.s = Sign(x, y) /\ ProductRounded(z, p, e)
      \/ z = Zero(Sign(x, y)) /\ e <= 0 /\ p < 2^(2 * M + 1 - e)
      \/ z = Inf(Sign(x, y)) /\ (e >= EXP_MASK \/ p >= 2^(2 * M + EXP_MASK - e))
  BY <1>1, <1>3, <1>5, <1>6, NormalizedNear
<1>8. QED
  BY <1>1, <1>2, <1>6, <1>7, Zenon DEF ProductNear

-----------------------------------------------------------------------------
(* Sums.                                                                   *)

\* A mantissa aligned to a larger exponent is less than one unit off, and less
\* than the least mantissa.
LEMMA AlignedNear ==
  ASSUME NEW n \in Nat, n < 2 * Implicit, NEW d \in Nat
  PROVE  /\ Aligned(n, d) \in Nat
         /\ d = 0 => Aligned(n, d) = n
         /\ d # 0 => Aligned(n, d) < Implicit
         /\ Aligned(n, d) * 2^d - n < 2^d /\ n - Aligned(n, d) * 2^d < 2^d
<1>1. PICK i \in Nat : i = Implicit /\ i >= 2 /\ i % 2 = 0
  BY Widths
<1>2. PICK t \in Nat : t = 2^d /\ t >= 1
  BY Doubling
<1>3. Far \in Nat /\ M + 1 < Far /\ M + 1 \in Nat /\ M \in Nat
  BY WidthAssumption
<1>4. CASE d > Far
  <2>1. Aligned(n, d) = 0 /\ d # 0
    BY <1>3, <1>4 DEF Aligned
  <2>2. 2^(M + 1) = 2 * i /\ M + 1 <= d
    BY <1>1, <1>3, <1>4, Doubling DEF Implicit
  <2>3. 2 * i <= t
    BY <1>2, <1>3, <2>2, PowerAtMost
  <2>4. 0 * t = 0 /\ 0 - n < t /\ n - 0 < t
    BY <1>1, <1>2, <2>3
  <2>5. QED
    BY <1>1, <1>2, <2>1, <2>4
<1>5. CASE ~(d > Far)
  <2>1. PICK q \in Nat, r \in Nat : q = n \div t /\ r = n % t /\ n = q * t + r /\ r < t
    <3>1. t >= 1
      BY <1>2
    <3>2. n \div t \in Nat /\ n % t \in Nat /\ n = (n \div t) * t + (n % t) /\ n % t < t
      BY <3>1
    <3>3. QED
      BY <3>2
  <2>2. PICK g \in Nat : g = IF r # 0 /\ q % 2 = 0 THEN q + 1 ELSE q
    OBVIOUS
  <2>3. Aligned(n, d) = g
    BY <1>2, <1>5, <2>1, <2>2 DEF Aligned
  <2>4. g * t - n < t /\ n - g * t < t
    <3>1. q * t \in Nat /\ (q + 1) * t = q * t + t
      OBVIOUS
    <3>2. QED
      BY <1>2, <2>1, <2>2, <3>1
  <2>5. CASE d = 0
    <3>1. t = 1
      <4>1. 2^0 = 1
        OBVIOUS
      <4>2. QED
        BY <1>2, <2>5, <4>1
    <3>2. g = n
      BY <2>1, <2>2, <3>1
    <3>3. QED
      BY <1>2, <2>3, <2>4, <2>5, <3>2
  <2>6. CASE d # 0
    <3>1. t >= 2
      <4>1. 0 < d /\ 2^0 = 1 /\ 0 \in Nat
        BY <2>6
      <4>2. 2 * 2^0 <= 2^d
        BY <4>1, PowerLess
      <4>3. QED
        BY <1>2, <4>1, <4>2
    <3>2. q < i
      <4>1. SUFFICES ASSUME i <= q  PROVE FALSE
        BY <1>1
      <4>2. i * 2 <= i * t /\ i * t <= q * t /\ i * t \in Nat /\ q * t \in Nat
        BY <3>1, <4>1, TimesAtMost
      <4>3. QED
        BY <1>1, <2>1, <4>2
    <3>3. g < i
      BY <1>1, <2>2, <3>2
    <3>4. QED
      BY <1>1, <1>2, <2>3, <2>4, <2>6, <3>3
  <2>7. QED
    BY <2>5, <2>6
<1>6. QED
  BY <1>4, <1>5

\* A number of at most M + 1 bits moves left until it has M + 1 of them.
LEMMA ShiftExists ==
  ASSUME NEW n \in Nat, n >= 1, n < 2 * Implicit
  PROVE  Shift(n) \in 0 .. M /\ n * 2^Shift(n) \in Implicit .. 2 * Implicit - 1
<1> DEFINE Fit(m, k) == m * 2^k \in Implicit .. 2 * Implicit - 1
           T == {j \in Nat : j <= M => \A m \in Nat : 2^(M - j) <= m /\ m < 2 * Implicit
                                                     => \E k \in 0 .. j : Fit(m, k)}
<1>1. M \in Nat /\ 2^M = Implicit /\ Implicit \in Nat /\ 2^0 = 1
  BY WidthAssumption, Widths DEF Implicit
<1>2. 0 \in T
  <2>1. ASSUME NEW m \in Nat, 2^(M - 0) <= m, m < 2 * Implicit  PROVE Fit(m, 0)
    <3>1. M - 0 = M /\ m * 1 = m
      BY <1>1
    <3>2. m >= Implicit /\ m \in Implicit .. 2 * Implicit - 1
      BY <1>1, <2>1, <3>1
    <3>3. QED
      BY <1>1, <3>1, <3>2
  <2> HIDE DEF Fit
  <2>2. QED
    BY <2>1
<1>3. ASSUME NEW j \in T, j + 1 <= M, NEW m \in Nat, 2^(M - (j + 1)) <= m, m < 2 * Implicit
      PROVE  \E k \in 0 .. j + 1 : Fit(m, k)
  <2>1. M - (j + 1) \in Nat /\ (M - (j + 1)) + 1 = M - j /\ M - j \in Nat /\ M - j <= M /\ j <= M
    BY <1>1, <1>3
  <2>2. PICK p \in Nat, q \in Nat : p = 2^(M - (j + 1)) /\ q = 2^(M - j) /\ q = 2 * p
    BY <2>1, Doubling
  <2>3. q <= Implicit
    BY <1>1, <2>1, <2>2, PowerAtMost
  <2>4. \A v \in Nat : q <= v /\ v < 2 * Implicit => \E k \in 0 .. j : Fit(v, k)
    BY <2>1, <2>2
  <2>5. CASE q <= m
    <3> HIDE DEF Fit
    <3>1. PICK k \in 0 .. j : Fit(m, k)
      BY <1>3, <2>4, <2>5
    <3>2. QED
      BY <3>1
  <2>6. CASE m < q
    <3>1. 2 * m \in Nat /\ q <= 2 * m /\ 2 * m < 2 * Implicit
      BY <1>1, <1>3, <2>2, <2>3, <2>6
    <3>2. PICK k \in 0 .. j : Fit(2 * m, k)
      <4> HIDE DEF Fit
      <4>1. QED
        BY <2>4, <3>1
    <3>3. 2^(k + 1) = 2 * 2^k /\ 2^k \in Nat
      BY Doubling
    <3>4. (2 * m) * 2^k = m * (2 * 2^k)
      BY <3>3
    <3>5. Fit(m, k + 1)
      BY <3>2, <3>3, <3>4
    <3> HIDE DEF Fit
    <3>6. QED
      BY <3>5
  <2>7. QED
    BY <2>2, <2>5, <2>6
<1>4. \A j \in T : j + 1 \in T
  <2> HIDE DEF Fit
  <2>1. QED
    BY <1>3
<1>5. T \in SUBSET Nat
  OBVIOUS
<1>6. M \in T
  <2> HIDE DEF T
  <2>1. QED
    BY <1>1, <1>2, <1>4, <1>5, NatSetInduction
<1>7. \E k \in 0 .. M : Fit(n, k)
  <2>1. M - M = 0 /\ M <= M
    BY <1>1
  <2> HIDE DEF Fit
  <2>2. QED
    BY <1>1, <1>6, <2>1
<1>8. QED
  BY <1>7, Zenon DEF Shift

\* What the library's extremes of small sets of numbers are.
LEMMA MinOfTwo ==
  ASSUME NEW p \in Nat, NEW q \in Nat
  PROVE  Min({p, q}) = IF p <= q THEN p ELSE q
<1>1. PICK r \in {p, q} : r = IF p <= q THEN p ELSE q
  OBVIOUS
<1>2. \A v \in {p, q} : r <= v
  BY <1>1
<1>3. \A w \in {p, q} : (\A v \in {p, q} : w <= v) => w = r
  BY <1>1
<1>4. Min({p, q}) = CHOOSE w \in {p, q} : \A v \in {p, q} : w <= v
  BY DEF Min
<1>5. QED
  BY <1>1, <1>2, <1>3, <1>4

LEMMA MaxOfThree ==
  ASSUME NEW p \in Nat, NEW q \in Nat, NEW r \in Nat
  PROVE  /\ Max({p, q, r}) \in {p, q, r}
         /\ p <= Max({p, q, r}) /\ q <= Max({p, q, r}) /\ r <= Max({p, q, r})
<1>1. \E w \in {p, q, r} : \A v \in {p, q, r} : w >= v
  <2>1. CASE p >= q /\ p >= r
    BY <2>1
  <2>2. CASE q >= p /\ q >= r
    BY <2>2
  <2>3. CASE r >= p /\ r >= q
    BY <2>3
  <2>4. QED
    BY <2>1, <2>2, <2>3
<1>2. Max({p, q, r}) = CHOOSE w \in {p, q, r} : \A v \in {p, q, r} : w >= v
  BY DEF Max
<1>3. PICK k : k = Max({p, q, r})
  OBVIOUS
<1>4. k \in {p, q, r} /\ \A v \in {p, q, r} : k >= v
  BY <1>1, <1>2, <1>3, Zenon
<1>5. p <= k /\ q <= k /\ r <= k
  BY <1>4
<1>6. QED
  BY <1>3, <1>4, <1>5

\* A sum packed with its exponent, its unit doubled when it was halved.
LEMMA SumIsNear ==
  ASSUME NEW e \in Nat, e >= 1, e < EXP_MASK, NEW s \in {0, 1},
         NEW u \in Nat, u = 2^(e - 1), NEW n \in Nat, n >= Implicit, n < 4 * Implicit - 1,
         NEW t \in Nat, n * u - t < u, t - n * u < u,
         NEW z, z = Sum(s, e, n)
  PROVE  \/ /\ z \in Double /\ Normal(z) /\ z.s = s
            /\ Size(z) - t < 2^(z.e - 1) /\ t - Size(z) < 2^(z.e - 1)
         \/ z.e = EXP_MASK /\ z.m = 0 /\ z.s = s /\ t >= Huge - 2^(EXP_MASK - 1)
<1>1. PICK i \in Nat : i = Implicit /\ i >= 2
  BY Widths
<1>2. e - 1 \in Nat /\ u >= 1 /\ 2^e = 2 * u /\ (e + 1) - 1 = e /\ e + 1 \in Nat
  <2>1. e - 1 \in Nat /\ (e - 1) + 1 = e
    OBVIOUS
  <2>2. u >= 1 /\ 2^((e - 1) + 1) = 2 * u
    BY <2>1, Doubling
  <2>3. QED
    BY <2>1, <2>2
<1>3. CASE n < 2 * i
  <2>1. z = Packed(s, e, n)
    BY <1>1, <1>3 DEF Sum
  <2>2. z \in Double /\ Normal(z) /\ z.s = s /\ z.e = e /\ Mantissa(z) = Implicit + (n % Implicit)
    BY <2>1, PackedIn
  <2>3. Implicit + (n % Implicit) = n
    BY <1>1, <1>3, Whole
  <2>4. Size(z) = n * u /\ 2^(z.e - 1) = u
    BY <2>2, <2>3, NormalType DEF Size
  <2>5. PICK g \in Nat : g = n * u
    OBVIOUS
  <2>6. g - t < u /\ t - g < u
    BY <2>5
  <2>7. QED
    BY <2>2, <2>4, <2>5, <2>6
<1>4. CASE ~(n < 2 * i)
  <2>1. PICK h \in Nat, j \in {0, 1} : h = (n \div 2) + (n % 2) /\ 2 * h = n + j
    <3>1. PICK v \in Nat, w \in {0, 1} : v = n \div 2 /\ w = n % 2 /\ n = 2 * v + w
      OBVIOUS
    <3>2. v + w \in Nat /\ 2 * (v + w) = n + w
      BY <3>1
    <3>3. QED
      BY <3>1, <3>2
  <2>2. h >= i /\ h < 2 * i
    BY <1>1, <1>4, <2>1
  <2>3. z = Packed(s, e + 1, h)
    BY <1>1, <1>4, <2>1, <2>2 DEF Sum
  <2>4. CASE e + 1 < EXP_MASK
    <3>1. PICK f \in Nat : f = e + 1 /\ f >= 1 /\ f < EXP_MASK
      BY <2>4
    <3>2. z \in Double /\ Normal(z) /\ z.s = s /\ z.e = f /\ Mantissa(z) = Implicit + (h % Implicit)
      BY <2>3, <3>1, PackedIn
    <3>3. Implicit + (h % Implicit) = h
      BY <1>1, <2>2, Whole
    <3>4. Size(z) = h * (2 * u) /\ 2^(z.e - 1) = 2 * u
      BY <1>2, <3>1, <3>2, <3>3, NormalType DEF Size
    <3>5. h * (2 * u) = n * u + j * u
      <4>1. h * (2 * u) = (2 * h) * u /\ (n + j) * u = n * u + j * u
        BY <2>1
      <4>2. QED
        BY <2>1, <4>1
    <3>6. PICK g \in Nat, k \in Nat : g = n * u /\ k = j * u /\ k <= u
      BY <2>1
    <3>7. (g + k) - t < 2 * u /\ t - (g + k) < 2 * u
      BY <3>6
    <3>8. QED
      BY <3>2, <3>4, <3>5, <3>6, <3>7
  <2>5. CASE ~(e + 1 < EXP_MASK)
    <3>1. e + 1 = EXP_MASK /\ EXP_MASK - 1 = e
      BY <2>5, Widths
    <3>2. e + 1 >= EXP_MASK /\ e + 1 \in Int
      BY <3>1, Widths
    <3>3. z = Inf(s) /\ z.e = EXP_MASK /\ z.m = 0
      BY <2>3, <3>2, PackedOut
    <3>4. Huge = (2 * i) * u
      <4>1. M + 1 \in Nat /\ M \in Nat /\ M + EXP_MASK - 1 = (M + 1) + (e - 1)
        BY <3>1, WidthAssumption
      <4>2. 2^((M + 1) + (e - 1)) = 2^(M + 1) * 2^(e - 1)
        BY <1>2, <4>1, PowerSum
      <4>3. 2^(M + 1) = 2 * i
        BY <1>1, <4>1, Doubling DEF Implicit
      <4>4. QED
        BY <4>1, <4>2, <4>3 DEF Huge
    <3>5. PICK g \in Nat, k \in Nat : g = n * u /\ k = (2 * i) * u /\ k <= g
      <4>1. 2 * i <= n /\ 2 * i \in Nat
        BY <1>4
      <4>2. QED
        BY <4>1, TimesAtMost
    <3>6. t >= k - 2 * u
      BY <3>5
    <3>7. z.s = s
      BY <3>3 DEF Inf, Float
    <3>8. QED
      BY <1>2, <3>1, <3>3, <3>4, <3>5, <3>6, <3>7
  <2>6. QED
    BY <2>4, <2>5
<1>5. QED
  BY <1>3, <1>4

\* A difference moved left until it is a mantissa again, or 0 when its exponent
\* would be less than 1.
LEMMA DifferenceIsNear ==
  ASSUME NEW e \in Nat, e >= 1, e < EXP_MASK, NEW s \in {0, 1},
         NEW u \in Nat, u = 2^(e - 1), NEW n \in Nat, n < 2 * Implicit,
         NEW t \in Nat, n * u - t < u, t - n * u < u, n = 0 => t = 0,
         NEW z, z = Difference(s, e, n)
  PROVE  \/ /\ z \in Double /\ Normal(z) /\ z.s = s
            /\ Size(z) - t < u /\ t - Size(z) < u
         \/ IsZero(z) /\ t < Implicit
<1>1. PICK i \in Nat : i = Implicit /\ i >= 2
  BY Widths
<1>2. e - 1 \in Nat /\ u >= 1 /\ 2^e = 2 * u
  <2>1. e - 1 \in Nat /\ (e - 1) + 1 = e
    OBVIOUS
  <2>2. u >= 1 /\ 2^((e - 1) + 1) = 2 * u
    BY <2>1, Doubling
  <2>3. QED
    BY <2>1, <2>2
<1>3. CASE n = 0
  <2>1. z = Zero(0)
    BY <1>3 DEF Difference
  <2>2. IsZero(z)
    BY <2>1 DEF Zero, Float, IsZero
  <2>3. QED
    BY <1>1, <1>3, <2>2
<1>4. CASE n # 0
  <2>1. PICK k \in 0 .. M : k = Shift(n) /\ n * 2^k \in i .. 2 * i - 1
    <3>1. n >= 1
      BY <1>4
    <3>2. QED
      BY <1>1, <3>1, ShiftExists
  <2>2. k \in Nat /\ k <= M /\ M \in Nat
    BY WidthAssumption
  <2>3. PICK c \in Nat : c = Min({k, e}) /\ c = IF k <= e THEN k ELSE e
    BY <2>2, MinOfTwo
  <2>4. z = Packed(s, e - c, n * 2^c)
    BY <1>4, <2>1, <2>3 DEF Difference
  <2>5. CASE k < e
    <3>1. c = k
      BY <2>2, <2>3, <2>5
    <3>2. PICK m \in Nat : m = n * 2^k /\ m >= i /\ m < 2 * i
      BY <1>1, <2>1
    <3>3. PICK f \in Nat : f = e - k /\ f >= 1 /\ f < EXP_MASK /\ f - 1 \in Nat /\ k + (f - 1) = e - 1
      BY <2>2, <2>5, Widths
    <3>4. z \in Double /\ Normal(z) /\ z.s = s /\ z.e = f /\ Mantissa(z) = Implicit + (m % Implicit)
      BY <2>4, <3>1, <3>2, <3>3, PackedIn
    <3>5. Implicit + (m % Implicit) = m
      BY <1>1, <3>2, Whole
    <3>6. Size(z) = n * u
      <4>1. Size(z) = (n * 2^k) * 2^(f - 1)
        BY <3>2, <3>4, <3>5, NormalType DEF Size
      <4>2. u = 2^k * 2^(f - 1)
        BY <2>2, <3>3, PowerSum
      <4>3. PICK p \in Nat, q \in Nat : p = 2^k /\ q = 2^(f - 1)
        BY <2>2, <3>3, Doubling
      <4>4. (n * p) * q = n * (p * q)
        OBVIOUS
      <4>5. QED
        BY <4>1, <4>2, <4>3, <4>4
    <3>7. PICK g \in Nat : g = n * u
      OBVIOUS
    <3>8. g - t < u /\ t - g < u
      BY <3>7
    <3>9. QED
      BY <3>4, <3>6, <3>7, <3>8
  <2>6. CASE ~(k < e)
    <3>1. c = e /\ e <= k /\ e - c = 0
      BY <2>2, <2>3, <2>6
    <3>2. IsZero(z)
      BY <2>4, <3>1, PackedOut
    <3>3. n * u < i
      <4>1. PICK p \in Nat : p = 2^k /\ 2 * u <= p
        BY <1>2, <2>2, <3>1, PowerAtMost, Doubling
      <4>2. n * (2 * u) <= n * p
        BY <4>1, TimesAtMost
      <4>3. n * p < 2 * i
        BY <1>1, <2>1, <4>1
      <4>4. n * (2 * u) = 2 * (n * u) /\ n * u \in Nat /\ n * p \in Nat
        OBVIOUS
      <4>5. QED
        BY <4>2, <4>3, <4>4
    <3>4. PICK q \in Nat : i = q * u
      <4>1. M - (e - 1) \in Nat /\ (M - (e - 1)) + (e - 1) = M
        BY <2>2, <3>1
      <4>2. i = 2^(M - (e - 1)) * 2^(e - 1)
        BY <1>1, <1>2, <4>1, PowerSum DEF Implicit
      <4>3. QED
        BY <4>1, <4>2, Doubling
    <3>5. n < q
      <4>1. SUFFICES ASSUME q <= n  PROVE FALSE
        OBVIOUS
      <4>2. q * u <= n * u /\ n * u \in Nat
        BY <4>1, TimesAtMost
      <4>3. QED
        BY <1>1, <3>3, <3>4, <4>2
    <3>6. (n + 1) * u <= q * u /\ (n + 1) * u = n * u + u /\ n * u \in Nat
      <4>1. n + 1 <= q
        BY <3>5
      <4>2. QED
        BY <4>1, TimesAtMost
    <3>7. PICK g \in Nat : g = n * u
      OBVIOUS
    <3>8. t < i
      BY <1>1, <3>4, <3>6, <3>7
    <3>9. QED
      BY <1>1, <3>2, <3>8
  <2>7. QED
    BY <2>5, <2>6
<1>5. QED
  BY <1>3, <1>4

\* The sum of two doubles, of which x has the larger exponent, as a number near
\* the numbers they stand for.
LEMMA SumOfNear ==
  ASSUME NEW x \in Double, NEW y \in Double, Normal(x), Normal(y), y.e <= x.e,
         NEW z, z = SumOf(x, y)
  PROVE  \/ /\ z \in Double /\ Normal(z)
            /\ \/ Abs(Value(z) - (Value(x) + Value(y))) < 2^(z.e - 1)
               \/ Abs(Value(z) - (Value(x) + Value(y))) < 2^(x.e - 1)
         \/ IsZero(z) /\ Abs(Value(x) + Value(y)) < Implicit
         \/ z.e = EXP_MASK /\ z.m = 0 /\ Abs(Value(x) + Value(y)) >= Huge - 2^(EXP_MASK - 1)
<1>1. /\ x.e \in Nat /\ x.e >= 1 /\ x.e < EXP_MASK /\ x.e - 1 \in Nat
      /\ y.e \in Nat /\ y.e >= 1 /\ y.e - 1 \in Nat
      /\ x.s \in {0, 1} /\ y.s \in {0, 1}
  BY NormalType, DoubleType
<1>2. PICK i \in Nat, p \in Nat, q \in Nat, u \in Nat, v \in Nat :
        /\ i = Implicit /\ i >= 2 /\ p = Mantissa(x) /\ q = Mantissa(y) /\ u = Unit(x) /\ v = Unit(y)
        /\ v >= 1 /\ p >= i /\ p < 2 * i /\ q >= i /\ q < 2 * i
  <2>1. Implicit \in Nat /\ Implicit >= 2 /\ x.e # 0 /\ y.e # 0
    BY <1>1, Widths
  <2>2. /\ Mantissa(x) \in Nat /\ Mantissa(x) >= Implicit /\ Mantissa(x) < 2 * Implicit
        /\ Unit(x) \in Nat
    BY <2>1, DoubleType
  <2>3. /\ Mantissa(y) \in Nat /\ Mantissa(y) >= Implicit /\ Mantissa(y) < 2 * Implicit
        /\ Unit(y) \in Nat /\ Unit(y) >= 1
    BY <2>1, DoubleType
  <2>4. QED
    BY <2>1, <2>2, <2>3
<1>3. u = 2^(x.e - 1) /\ v = 2^(y.e - 1)
  BY <1>2, NormalType
<1>4. PICK d \in Nat : d = x.e - y.e
  BY <1>1
<1>5. PICK g \in Nat : /\ g = Aligned(q, d) /\ (d = 0 => g = q) /\ (d # 0 => g < i)
                       /\ g * 2^d - q < 2^d /\ q - g * 2^d < 2^d
  BY <1>2, AlignedNear
<1>6. PICK w \in Nat : w = 2^d /\ u = w * v
  <2>1. d + (y.e - 1) = x.e - 1
    BY <1>1, <1>4
  <2>2. 2^(d + (y.e - 1)) = 2^d * 2^(y.e - 1)
    BY <1>1, PowerSum
  <2>3. QED
    BY <1>3, <2>1, <2>2, Doubling
<1>7. PICK P \in Nat, Q \in Nat, R \in Nat :
        P = p * u /\ Q = g * u /\ R = q * v /\ Q - R < u /\ R - Q < u /\ (d = 0 => Q = R)
  <2>1. (g * w) * v = g * u
    <3>1. (g * w) * v = g * (w * v)
      OBVIOUS
    <3>2. QED
      BY <1>6, <3>1
  <2>2. PICK k \in Nat : k = g * w
    OBVIOUS
  <2>3. k - q <= w - 1 /\ q - k <= w - 1
    BY <1>5, <1>6, <2>2
  <2>4. (k - q) * v <= (w - 1) * v /\ (q - k) * v <= (w - 1) * v
    BY <2>3, TimesInt
  <2>5. (k - q) * v = k * v - q * v /\ (q - k) * v = q * v - k * v /\ (w - 1) * v = w * v - v
    OBVIOUS
  <2>6. k * v \in Nat /\ q * v \in Nat /\ w * v \in Nat /\ p * u \in Nat /\ g * u \in Nat
    OBVIOUS
  <2>7. g * u - q * v < u /\ q * v - g * u < u
    BY <1>2, <1>6, <2>1, <2>2, <2>4, <2>5, <2>6
  <2>8. d = 0 => g * u = q * v
    <3>1. 2^0 = 1 /\ 1 * v = v
      OBVIOUS
    <3>2. QED
      BY <1>5, <1>6, <3>1
  <2>9. QED
    BY <2>6, <2>7, <2>8
<1>8. Size(x) = P /\ Size(y) = R
  BY <1>2, <1>7 DEF Size
<1>9. /\ Value(x) = (IF x.s = 1 THEN -P ELSE P)
      /\ Value(y) = (IF y.s = 1 THEN -R ELSE R)
  BY <1>8, ValueSize
<1>10. CASE x.s = y.s
  <2>1. z = Sum(x.s, x.e, p + g)
    BY <1>2, <1>4, <1>5, <1>10 DEF SumOf
  <2>2. PICK n \in Nat : n = p + g /\ n >= i /\ n < 4 * i - 1
    BY <1>2, <1>5
  <2>3. PICK t \in Nat : t = P + R
    OBVIOUS
  <2>4. n * u - t < u /\ t - n * u < u
    <3>1. (p + g) * u = P + Q
      <4>1. (p + g) * u = p * u + g * u
        OBVIOUS
      <4>2. QED
        BY <1>7, <4>1
    <3>2. QED
      BY <1>7, <2>2, <2>3, <3>1
  <2>5. Abs(Value(x) + Value(y)) = t /\ Value(x) + Value(y) = IF x.s = 1 THEN -t ELSE t
    BY <1>9, <1>10, <2>3 DEF Abs
  <2>6. \/ /\ z \in Double /\ Normal(z) /\ z.s = x.s
           /\ Size(z) - t < 2^(z.e - 1) /\ t - Size(z) < 2^(z.e - 1)
        \/ z.e = EXP_MASK /\ z.m = 0 /\ z.s = x.s /\ t >= Huge - 2^(EXP_MASK - 1)
    BY <1>1, <1>2, <1>3, <2>1, <2>2, <2>4, SumIsNear
  <2>7. CASE z.e = EXP_MASK /\ z.m = 0 /\ t >= Huge - 2^(EXP_MASK - 1)
    BY <2>5, <2>7
  <2>8. CASE /\ z \in Double /\ Normal(z) /\ z.s = x.s
             /\ Size(z) - t < 2^(z.e - 1) /\ t - Size(z) < 2^(z.e - 1)
    <3>1. PICK k \in Nat, l \in Nat : k = Size(z) /\ l = 2^(z.e - 1)
      <4>1. z.e - 1 \in Nat /\ Size(z) \in Nat
        BY <2>8, NormalType, DoubleType
      <4>2. QED
        BY <4>1, Doubling
    <3>2. Value(z) = IF x.s = 1 THEN -k ELSE k
      BY <2>8, <3>1, ValueSize
    <3>3. k - t < l /\ t - k < l
      BY <2>8, <3>1
    <3>4. Abs((IF x.s = 1 THEN -k ELSE k) - (IF x.s = 1 THEN -t ELSE t)) < l
      BY <3>3 DEF Abs
    <3>5. QED
      BY <2>5, <2>8, <3>1, <3>2, <3>4
  <2>9. QED
    BY <2>6, <2>7, <2>8
<1>11. CASE x.s # y.s
  <2>1. PICK n \in Nat, s \in {0, 1}, t \in Nat :
          /\ z = Difference(s, x.e, n) /\ n < 2 * i
          /\ n * u - t < u /\ t - n * u < u /\ (n = 0 => t = 0)
          /\ Value(x) + Value(y) = IF s = 1 THEN -t ELSE t
    <3>1. CASE p >= g
      <4>1. z = Difference(x.s, x.e, p - g) /\ p - g \in Nat /\ p - g < 2 * i
        BY <1>2, <1>4, <1>5, <1>11, <3>1 DEF SumOf
      <4>2. (p - g) * u = P - Q
        <5>1. (p - g) * u = p * u - g * u
          OBVIOUS
        <5>2. QED
          BY <1>7, <5>1
      <4>3. p - g = 0 => P - R = 0
        <5>1. p - g = 0 => d = 0
          BY <1>2, <1>5
        <5>2. p = g => P = Q
          BY <1>7
        <5>3. QED
          BY <1>7, <5>1, <5>2
      <4>4. P - R \in Nat
        <5>1. CASE p - g = 0
          BY <4>3, <5>1
        <5>2. CASE p - g # 0
          <6>1. 1 <= p - g
            BY <3>1, <5>2
          <6>2. 1 * u <= (p - g) * u
            BY <4>1, <6>1, TimesInt
          <6>3. u <= P - Q
            BY <4>2, <6>2
          <6>4. QED
            BY <1>7, <6>3
        <5>3. QED
          BY <5>1, <5>2
      <4>5. (P - Q) - (P - R) < u /\ (P - R) - (P - Q) < u
        BY <1>7
      <4>6. Value(x) + Value(y) = IF x.s = 1 THEN -(P - R) ELSE P - R
        BY <1>1, <1>9, <1>11
      <4>7. QED
        BY <1>1, <4>1, <4>2, <4>3, <4>4, <4>5, <4>6
    <3>2. CASE ~(p >= g)
      <4>1. z = Difference(y.s, x.e, g - p) /\ g - p \in Nat
        BY <1>2, <1>4, <1>5, <1>11, <3>2 DEF SumOf
      <4>2. d = 0 /\ g - p < 2 * i /\ g - p # 0
        BY <1>2, <1>5, <3>2
      <4>3. (g - p) * u = Q - P
        <5>1. (g - p) * u = g * u - p * u
          OBVIOUS
        <5>2. QED
          BY <1>7, <5>1
      <4>4. (g - p) * u \in Nat /\ u >= 1
        <5>1. w = 1
          <6>1. 2^0 = 1
            OBVIOUS
          <6>2. QED
            BY <1>6, <4>2, <6>1
        <5>2. QED
          BY <1>2, <1>6, <4>1, <5>1
      <4>5. Q = R /\ R - P \in Nat /\ (Q - P) - (R - P) < u /\ (R - P) - (Q - P) < u
        BY <1>7, <4>2, <4>3, <4>4
      <4>6. Value(x) + Value(y) = IF y.s = 1 THEN -(R - P) ELSE R - P
        BY <1>1, <1>9, <1>11
      <4>7. QED
        BY <1>1, <4>1, <4>2, <4>3, <4>5, <4>6
    <3>3. QED
      BY <3>1, <3>2
  <2>2. \/ /\ z \in Double /\ Normal(z) /\ z.s = s
           /\ Size(z) - t < u /\ t - Size(z) < u
        \/ IsZero(z) /\ t < Implicit
    BY <1>1, <1>2, <1>3, <2>1, DifferenceIsNear
  <2>3. Abs(Value(x) + Value(y)) = t
    BY <2>1 DEF Abs
  <2>4. CASE /\ z \in Double /\ Normal(z) /\ z.s = s
             /\ Size(z) - t < u /\ t - Size(z) < u
    <3>1. PICK k \in Nat : k = Size(z)
      BY <2>4, DoubleType
    <3>2. Value(z) = IF s = 1 THEN -k ELSE k
      BY <2>4, <3>1, ValueSize
    <3>3. Abs((IF s = 1 THEN -k ELSE k) - (IF s = 1 THEN -t ELSE t)) < u
      BY <2>4, <3>1 DEF Abs
    <3>4. QED
      BY <1>3, <2>1, <2>4, <3>2, <3>3
  <2>5. CASE IsZero(z) /\ t < Implicit
    BY <2>3, <2>5
  <2>6. QED
    BY <2>2, <2>4, <2>5
<1>12. QED
  BY <1>10, <1>11

\* The same for either order of the exponents, in the terms of SumNear.
LEMMA SumIsWithin ==
  ASSUME NEW x \in Double, NEW y \in Double, Normal(x), Normal(y), result = adddf3(x, y)
  PROVE  SumNear(x, y)
<1>1. /\ x.e \in Nat /\ x.e >= 1 /\ x.e < EXP_MASK /\ ~IsZero(x)
      /\ y.e \in Nat /\ y.e >= 1 /\ y.e < EXP_MASK /\ ~IsZero(y)
  BY NormalType
<1>2. PICK v \in Int, w \in Int : v = Value(x) /\ w = Value(y)
  <2>1. Size(x) \in Nat /\ Size(y) \in Nat
    BY DoubleType
  <2>2. Value(x) \in Int /\ Value(y) \in Int
    BY <2>1, ValueSize
  <2>3. QED
    BY <2>2
<1>3. PICK z : z = result
  OBVIOUS
<1>4. PICK l \in Nat : /\ l = x.e \/ l = y.e
                       /\ \/ /\ z \in Double /\ Normal(z)
                             /\ \/ Abs(Value(z) - (v + w)) < 2^(z.e - 1)
                                \/ Abs(Value(z) - (v + w)) < 2^(l - 1)
                          \/ IsZero(z) /\ Abs(v + w) < Implicit
                          \/ z.e = EXP_MASK /\ z.m = 0 /\ Abs(v + w) >= Huge - 2^(EXP_MASK - 1)
  <2>1. x.e # EXP_MASK /\ y.e # EXP_MASK
    BY <1>1, Widths
  <2>2. CASE x.e < y.e
    <3>1. z = SumOf(y, x) /\ x.e <= y.e
      BY <1>1, <1>3, <2>1, <2>2 DEF adddf3
    <3>2. w + v = v + w
      OBVIOUS
    <3>3. \/ /\ z \in Double /\ Normal(z)
             /\ \/ Abs(Value(z) - (w + v)) < 2^(z.e - 1)
                \/ Abs(Value(z) - (w + v)) < 2^(y.e - 1)
          \/ IsZero(z) /\ Abs(w + v) < Implicit
          \/ z.e = EXP_MASK /\ z.m = 0 /\ Abs(w + v) >= Huge - 2^(EXP_MASK - 1)
      BY <1>2, <3>1, SumOfNear
    <3>4. QED
      BY <1>1, <3>2, <3>3
  <2>3. CASE ~(x.e < y.e)
    <3>1. z = SumOf(x, y) /\ y.e <= x.e
      BY <1>1, <1>3, <2>1, <2>3 DEF adddf3
    <3>2. \/ /\ z \in Double /\ Normal(z)
             /\ \/ Abs(Value(z) - (v + w)) < 2^(z.e - 1)
                \/ Abs(Value(z) - (v + w)) < 2^(x.e - 1)
          \/ IsZero(z) /\ Abs(v + w) < Implicit
          \/ z.e = EXP_MASK /\ z.m = 0 /\ Abs(v + w) >= Huge - 2^(EXP_MASK - 1)
      BY <1>2, <3>1, SumOfNear
    <3>3. QED
      BY <1>1, <3>2
  <2>4. QED
    BY <2>2, <2>3
<1> DEFINE ulp == 2^(Max({x.e, y.e, z.e}) - 1)
<1>5. SumNear(x, y) <=>
        \/ Normal(z) /\ Abs(Value(z) - (v + w)) < ulp
        \/ IsZero(z) /\ Abs(v + w) < Implicit
        \/ z.e = EXP_MASK /\ z.m = 0 /\ Abs(v + w) >= Huge - ulp
  BY <1>2, <1>3 DEF SumNear
<1>6. CASE IsZero(z) /\ Abs(v + w) < Implicit
  <2> HIDE DEF ulp
  <2>1. QED
    BY <1>5, <1>6
<1>7. CASE /\ z \in Double /\ Normal(z)
           /\ \/ Abs(Value(z) - (v + w)) < 2^(z.e - 1)
              \/ Abs(Value(z) - (v + w)) < 2^(l - 1)
  <2>1. z.e \in Nat /\ z.e >= 1
    BY <1>7, NormalType
  <2>2. PICK k \in Nat : k = Max({x.e, y.e, z.e}) /\ z.e <= k /\ l <= k /\ k >= 1
    BY <1>1, <1>4, <2>1, MaxOfThree
  <2>3. k - 1 \in Nat /\ z.e - 1 \in Nat /\ l - 1 \in Nat /\ z.e - 1 <= k - 1 /\ l - 1 <= k - 1
    BY <1>1, <1>4, <2>1, <2>2
  <2>4. PICK p \in Nat, q \in Nat, r \in Nat :
          p = 2^(k - 1) /\ q = 2^(z.e - 1) /\ r = 2^(l - 1) /\ q <= p /\ r <= p
    BY <2>3, PowerAtMost, Doubling
  <2>5. PICK g \in Int : g = Abs(Value(z) - (v + w))
    <3>1. Size(z) \in Nat
      BY <1>7, DoubleType
    <3>2. Value(z) \in Int
      BY <1>7, <3>1, ValueSize
    <3>3. Value(z) - (v + w) \in Int
      BY <3>2
    <3>4. QED
      BY <3>3 DEF Abs
  <2>6. g < p
    BY <1>7, <2>4, <2>5
  <2>7. ulp = p
    BY <2>2, <2>4
  <2> HIDE DEF ulp
  <2>8. QED
    BY <1>5, <1>7, <2>5, <2>6, <2>7
<1>8. CASE z.e = EXP_MASK /\ z.m = 0 /\ Abs(v + w) >= Huge - 2^(EXP_MASK - 1)
  <2>1. z.e \in Nat
    BY <1>8, Widths
  <2>2. PICK k \in Nat : k = Max({x.e, y.e, z.e}) /\ z.e <= k
    BY <1>1, <2>1, MaxOfThree
  <2>3. k - 1 \in Nat /\ EXP_MASK - 1 \in Nat /\ EXP_MASK - 1 <= k - 1
    BY <1>8, <2>1, <2>2, Widths
  <2>4. PICK p \in Nat, q \in Nat : p = 2^(k - 1) /\ q = 2^(EXP_MASK - 1) /\ q <= p
    BY <2>3, PowerAtMost, Doubling
  <2>5. PICK g \in Nat : g = Abs(v + w)
    BY DEF Abs
  <2>6. PICK h \in Nat : h = Huge
    <3>1. M + EXP_MASK - 1 \in Nat
      BY WidthAssumption, Widths
    <3>2. QED
      BY <3>1, Doubling DEF Huge
  <2>7. g >= h - p
    BY <1>8, <2>4, <2>5, <2>6
  <2>8. ulp = p
    BY <2>2, <2>4
  <2> HIDE DEF ulp
  <2>9. QED
    BY <1>5, <1>8, <2>5, <2>6, <2>7, <2>8
<1>9. QED
  BY <1>4, <1>6, <1>7, <1>8

-----------------------------------------------------------------------------
(* The calls.                                                              *)

\* What a call returns is what its function computes from the arguments.
Returned ==
  /\ args \in Arguments
  /\ call = "__adddf3" => result = adddf3(a, b)
  /\ call = "__subdf3" => result = subdf3(a, b)
  /\ call = "__muldf3" => result = muldf3(a, b)
  /\ call = "compare" => result = Compared(a, b)
  /\ call = "__fixdfsi" => result \in fixdfsi(a)
  /\ call = "__truncdfsf2" => result = truncdfsf2(a)
  /\ call = "__extendsfdf2" => result = extendsfdf2(args.f)

LEMMA ReturnedInit == FloatInit => Returned
BY DEF FloatInit, Returned

LEMMA ReturnedStep == Returned /\ [FloatNext]_floatVars => Returned'
<1>1. SUFFICES ASSUME Returned, [FloatNext]_floatVars  PROVE Returned'
  OBVIOUS
<1>2. CASE UNCHANGED floatVars
  BY <1>1, <1>2 DEF Returned, floatVars, a, b
<1>3. CASE Add
  BY <1>1, <1>3 DEF Add, Call, Returned, a, b
<1>4. CASE Sub
  BY <1>1, <1>4 DEF Sub, Call, Returned, a, b
<1>5. CASE Mul
  BY <1>1, <1>5 DEF Mul, Call, Returned, a, b
<1>6. CASE Div
  BY <1>1, <1>6 DEF Div, Call, Returned, a, b
<1>7. CASE Compare
  BY <1>1, <1>7 DEF Compare, Call, Returned, a, b
<1>8. CASE Fma
  BY <1>1, <1>8 DEF Fma, Call, Returned, a, b
<1>9. CASE Fix
  BY <1>1, <1>9 DEF Fix, Call, Returned, a, b
<1>10. CASE FloatInt
  BY <1>1, <1>10 DEF FloatInt, Call, Returned, a, b
<1>11. CASE Truncate
  BY <1>1, <1>11 DEF Truncate, Call, Returned, a, b
<1>12. CASE Extend
  BY <1>1, <1>12 DEF Extend, Call, Returned, a, b
<1>13. CASE Fabs
  BY <1>1, <1>13 DEF Fabs, Call, Returned, a, b
<1>14. QED
  BY <1>1, <1>2, <1>3, <1>4, <1>5, <1>6, <1>7, <1>8, <1>9, <1>10, <1>11, <1>12, <1>13 DEF FloatNext

LEMMA ArgumentTypes ==
  ASSUME Returned
  PROVE  a \in Double /\ b \in Double /\ args.f \in Single
BY ArgumentsAssumption DEF Returned, a, b

LEMMA ReturnedOrder == Returned => OrderIsNumeric
<1>1. SUFFICES ASSUME Returned  PROVE OrderIsNumeric
  OBVIOUS
<1>2. a \in Double /\ b \in Double /\ args.f \in Single
  BY <1>1, ArgumentTypes
<1>3. CASE call = "compare" /\ ~(IsZero(a) /\ IsZero(b))
  BY <1>1, <1>2, <1>3, ComparedIsNumeric DEF Returned, OrderIsNumeric
<1>4. CASE call = "__extendsfdf2"
  BY <1>1, <1>2, <1>4, RoundTrip DEF Returned, OrderIsNumeric
<1>5. QED
  BY <1>3, <1>4 DEF OrderIsNumeric

\* For every format, the comparisons order doubles as the numbers they stand for
\* are ordered, and every single survives the way to double precision and back.
THEOREM OrderIsCorrect == FloatSpec => []OrderIsNumeric
<1>1. QED
  BY ReturnedInit, ReturnedStep, ReturnedOrder, PTL DEF FloatSpec

LEMMA FlipType ==
  ASSUME NEW x \in Double, Normal(x)
  PROVE  Flip(x) \in Double /\ Normal(Flip(x))
BY DEF Flip, Double, Normal

LEMMA ReturnedBounded == Returned => ErrorsBounded
<1>1. SUFFICES ASSUME Returned, Normal(a), Normal(b)  PROVE ErrorsBounded
  BY DEF ErrorsBounded
<1>2. a \in Double /\ b \in Double
  BY <1>1, ArgumentTypes
<1> DEFINE one == 2^(EXP_BIAS + M - 1)
<1>3. call = "__adddf3" => SumNear(a, b)
  BY <1>1, <1>2, SumIsWithin DEF Returned
<1>4. call = "__subdf3" => SumNear(a, Flip(b))
  BY <1>1, <1>2, FlipType, SumIsWithin DEF Returned, subdf3
<1>5. call = "__muldf3" => ProductNear(a, b)
  BY <1>1, <1>2, ProductIsNear DEF Returned
<1>6. call = "__truncdfsf2" /\ result.e \in 1 .. SEXP_MASK - 1 =>
        2 * Abs(Value(extendsfdf2(result)) - Value(a)) <= 2^(a.e - 1 + M - SM)
  BY <1>1, <1>2, TruncatedNear DEF Returned
<1>7. call = "__fixdfsi" /\ Abs(Value(a)) < -IntMin * one /\ 2^WordBits * Abs(Value(a)) >= one * 2^(M + 1) =>
        result = (IF a.s = 1 THEN -1 ELSE 1) * (Abs(Value(a)) \div one)
  <2>1. EXP_BIAS + M - 1 \in Nat
    BY WidthAssumption, Widths
  <2>2. one \in Nat
    BY <2>1, Doubling
  <2>3. call = "__fixdfsi" => result \in fixdfsi(a)
    BY <1>1 DEF Returned
  <2>4. QED
    BY <1>1, <1>2, <2>2, <2>3, FixedIsPart
<1>8. QED
  BY <1>3, <1>4, <1>5, <1>6, <1>7, Zenon DEF ErrorsBounded

\* For every format, sums, differences, products, narrowed and truncated numbers
\* are off by no more than ErrorsBounded says, in all the ways aligning, cancelling,
\* rounding, overflow and underflow combine; the lost carry of a product is the one
\* error of half the number, and an error of a unit is not ruled out.
THEOREM ErrorsAreBounded == FloatSpec => []ErrorsBounded
<1>1. QED
  BY ReturnedInit, ReturnedStep, ReturnedBounded, PTL DEF FloatSpec
=============================================================================
