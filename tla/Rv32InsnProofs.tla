--------------------------- MODULE Rv32InsnProofs ---------------------------
(***************************************************************************)
(* Proofs about the instruction data path, for every width of a word from  *)
(* 13 to 32 bits, every program and every pair of operands: types, that    *)
(* the MUL/DIV bench's results fit one another, and that each 16-bit       *)
(* instruction does what its expansion does.                               *)
(*                                                                         *)
(* Four parts carry them.  Arithmetic: powers of two, words read as        *)
(* signed, and the recursion of And, which ends because halves do.         *)
(* InsnInv: each instruction leaves words in the registers.  BenchInv:     *)
(* what the bench's program has done before each of its 23 instructions.   *)
(* Encodings: the fields of an instruction as sums of its bits, the same   *)
(* immediate computed in two ways, and each format encoded and decoded     *)
(* again.                                                                  *)
(***************************************************************************)
EXTENDS RvcTable, TLAPS, WellFoundedInduction, SequenceTheorems

-----------------------------------------------------------------------------
(* Words.                                                                  *)

\* The powers of two that are the size of a word.
LEMMA WordSizes ==
  WORD \in {8192, 16384, 32768, 65536, 131072, 262144, 524288, 1048576, 2097152, 4194304,
            8388608, 16777216, 33554432, 67108864, 134217728, 268435456, 536870912,
            1073741824, 2147483648, 4294967296}
<1>1. /\ 2^13 = 8192 /\ 2^14 = 16384 /\ 2^15 = 32768 /\ 2^16 = 65536 /\ 2^17 = 131072
      /\ 2^18 = 262144 /\ 2^19 = 524288 /\ 2^20 = 1048576 /\ 2^21 = 2097152
      /\ 2^22 = 4194304 /\ 2^23 = 8388608 /\ 2^24 = 16777216 /\ 2^25 = 33554432
      /\ 2^26 = 67108864 /\ 2^27 = 134217728 /\ 2^28 = 268435456 /\ 2^29 = 536870912
      /\ 2^30 = 1073741824 /\ 2^31 = 2147483648 /\ 2^32 = 4294967296
  OBVIOUS
<1>2. WORD = 2^W
  BY DEF WORD
<1>13. CASE W = 13
  BY <1>1, <1>2, <1>13
<1>14. CASE W = 14
  BY <1>1, <1>2, <1>14
<1>15. CASE W = 15
  BY <1>1, <1>2, <1>15
<1>16. CASE W = 16
  BY <1>1, <1>2, <1>16
<1>17. CASE W = 17
  BY <1>1, <1>2, <1>17
<1>18. CASE W = 18
  BY <1>1, <1>2, <1>18
<1>19. CASE W = 19
  BY <1>1, <1>2, <1>19
<1>20. CASE W = 20
  BY <1>1, <1>2, <1>20
<1>21. CASE W = 21
  BY <1>1, <1>2, <1>21
<1>22. CASE W = 22
  BY <1>1, <1>2, <1>22
<1>23. CASE W = 23
  BY <1>1, <1>2, <1>23
<1>24. CASE W = 24
  BY <1>1, <1>2, <1>24
<1>25. CASE W = 25
  BY <1>1, <1>2, <1>25
<1>26. CASE W = 26
  BY <1>1, <1>2, <1>26
<1>27. CASE W = 27
  BY <1>1, <1>2, <1>27
<1>28. CASE W = 28
  BY <1>1, <1>2, <1>28
<1>29. CASE W = 29
  BY <1>1, <1>2, <1>29
<1>30. CASE W = 30
  BY <1>1, <1>2, <1>30
<1>31. CASE W = 31
  BY <1>1, <1>2, <1>31
<1>32. CASE W = 32
  BY <1>1, <1>2, <1>32
<1>33. QED
  BY WidthAssumption, <1>13, <1>14, <1>15, <1>16, <1>17, <1>18, <1>19, <1>20, <1>21, <1>22,
     <1>23, <1>24, <1>25, <1>26, <1>27, <1>28, <1>29, <1>30, <1>31, <1>32

LEMMA WordSize ==
  /\ WORD \in Nat /\ WORD >= 8192
  /\ WORD % 4096 = 0 /\ WORD \div 2 \in Nat /\ WORD = 2 * (WORD \div 2)
BY WordSizes

LEMMA WrapType ==
  ASSUME NEW v \in Int  PROVE Wrap(v) \in Word
BY WordSize DEF Wrap, Word

LEMMA SignedType ==
  ASSUME NEW v \in Word
  PROVE  Signed(v) \in Int /\ Signed(v) >= -(WORD \div 2) /\ Signed(v) < WORD \div 2
BY WordSize DEF Signed, Word

\* Induction, stated of a set of numbers.
LEMMA NatSetInduction ==
  ASSUME NEW T \in SUBSET Nat, 0 \in T, \A n \in T : n + 1 \in T
  PROVE  T = Nat
<1>1. SUFFICES ASSUME Nat \ T # {}  PROVE FALSE
  OBVIOUS
<1>2. IsWellFoundedOn(OpToRel(<, Nat), Nat)
  BY NatLessThanWellFounded
<1>3. PICK n \in Nat \ T : \A m \in Nat \ T : ~(<<m, n>> \in OpToRel(<, Nat))
  BY <1>1, <1>2, WFMin
<1>4. \A m \in Nat \ T : ~(m < n)
  BY <1>3, Zenon DEF OpToRel
<1>5. QED
  BY <1>4, n - 1 \in Nat

\* The powers of two up to the size of a word.
LEMMA PowerTable ==
  /\ 2^0 = 1 /\ 2^1 = 2 /\ 2^2 = 4 /\ 2^3 = 8 /\ 2^4 = 16 /\ 2^5 = 32
  /\ 2^6 = 64 /\ 2^7 = 128 /\ 2^8 = 256 /\ 2^9 = 512 /\ 2^10 = 1024
  /\ 2^11 = 2048 /\ 2^12 = 4096 /\ 2^13 = 8192 /\ 2^14 = 16384
  /\ 2^15 = 32768 /\ 2^16 = 65536 /\ 2^17 = 131072 /\ 2^18 = 262144
  /\ 2^19 = 524288 /\ 2^20 = 1048576 /\ 2^21 = 2097152 /\ 2^22 = 4194304
  /\ 2^23 = 8388608 /\ 2^24 = 16777216 /\ 2^25 = 33554432 /\ 2^26 = 67108864
  /\ 2^27 = 134217728 /\ 2^28 = 268435456 /\ 2^29 = 536870912
  /\ 2^30 = 1073741824 /\ 2^31 = 2147483648 /\ 2^32 = 4294967296
OBVIOUS

LEMMA Powers ==
  ASSUME NEW n \in 0 .. 32
  PROVE  2^n \in Nat /\ 2^n >= 1 /\ (n < 32 => 2^(n + 1) = 2 * 2^n)
<1>0. CASE n = 0
  BY <1>0, PowerTable
<1>1. CASE n = 1
  BY <1>1, PowerTable
<1>2. CASE n = 2
  BY <1>2, PowerTable
<1>3. CASE n = 3
  BY <1>3, PowerTable
<1>4. CASE n = 4
  BY <1>4, PowerTable
<1>5. CASE n = 5
  BY <1>5, PowerTable
<1>6. CASE n = 6
  BY <1>6, PowerTable
<1>7. CASE n = 7
  BY <1>7, PowerTable
<1>8. CASE n = 8
  BY <1>8, PowerTable
<1>9. CASE n = 9
  BY <1>9, PowerTable
<1>10. CASE n = 10
  BY <1>10, PowerTable
<1>11. CASE n = 11
  BY <1>11, PowerTable
<1>12. CASE n = 12
  BY <1>12, PowerTable
<1>13. CASE n = 13
  BY <1>13, PowerTable
<1>14. CASE n = 14
  BY <1>14, PowerTable
<1>15. CASE n = 15
  BY <1>15, PowerTable
<1>16. CASE n = 16
  BY <1>16, PowerTable
<1>17. CASE n = 17
  BY <1>17, PowerTable
<1>18. CASE n = 18
  BY <1>18, PowerTable
<1>19. CASE n = 19
  BY <1>19, PowerTable
<1>20. CASE n = 20
  BY <1>20, PowerTable
<1>21. CASE n = 21
  BY <1>21, PowerTable
<1>22. CASE n = 22
  BY <1>22, PowerTable
<1>23. CASE n = 23
  BY <1>23, PowerTable
<1>24. CASE n = 24
  BY <1>24, PowerTable
<1>25. CASE n = 25
  BY <1>25, PowerTable
<1>26. CASE n = 26
  BY <1>26, PowerTable
<1>27. CASE n = 27
  BY <1>27, PowerTable
<1>28. CASE n = 28
  BY <1>28, PowerTable
<1>29. CASE n = 29
  BY <1>29, PowerTable
<1>30. CASE n = 30
  BY <1>30, PowerTable
<1>31. CASE n = 31
  BY <1>31, PowerTable
<1>32. CASE n = 32
  BY <1>32, PowerTable
<1>33. QED
  BY <1>0, <1>1, <1>2, <1>3, <1>4, <1>5, <1>6, <1>7, <1>8, <1>9, <1>10, <1>11, <1>12, <1>13,
     <1>14, <1>15, <1>16, <1>17, <1>18, <1>19, <1>20, <1>21, <1>22, <1>23, <1>24, <1>25, <1>26, <1>27, <1>28, <1>29, <1>30, <1>31, <1>32

LEMMA PowersSplit ==
  ASSUME NEW n \in 0 .. W
  PROVE  2^(W - n) * 2^n = WORD
<1> DEFINE T == {m \in Nat : m <= W => 2^(W - m) * 2^m = WORD}
<1>1. 0 \in T
  BY WordSize, WidthAssumption DEF WORD
<1>2. ASSUME NEW m \in T, m + 1 <= W  PROVE 2^(W - (m + 1)) * 2^(m + 1) = WORD
  <2> DEFINE k == W - (m + 1)
  <2>1. k \in 0 .. 32 /\ k < 32 /\ m \in 0 .. 32 /\ m < 32 /\ k + 1 = W - m
    BY <1>2, WidthAssumption
  <2> HIDE DEF k
  <2>2. 2^(W - m) = 2 * 2^k /\ 2^(m + 1) = 2 * 2^m
    BY <2>1, Powers
  <2>3. 2^k \in Nat /\ 2^m \in Nat
    BY <2>1, Powers
  <2>4. 2^(W - m) * 2^m = WORD
    BY <1>2, WidthAssumption
  <2>5. QED
    BY <2>2, <2>3, <2>4 DEF k
<1>3. \A m \in T : m + 1 \in T
  BY <1>2
<1>4. T \in SUBSET Nat
  OBVIOUS
<1> HIDE DEF T
<1>5. T = Nat
  BY <1>1, <1>3, <1>4, NatSetInduction
<1>6. n \in Nat /\ n <= W
  BY WidthAssumption
<1>7. n \in T
  BY <1>5, <1>6
<1>8. QED
  BY <1>6, <1>7 DEF T

LEMMA SignExtendType ==
  ASSUME NEW v \in Int, NEW n \in Nat \ {0}  PROVE sign_extend(v, n) \in Word
<1>1. 2^n \in Int /\ 2^(n - 1) \in Int
  BY n - 1 \in Nat
<1>2. QED
  BY <1>1, WrapType DEF sign_extend

\* A word shifted left by less than its width.
LEMMA ShiftBound ==
  ASSUME NEW A \in Nat, NEW B \in Nat, A >= 1, B >= 1, NEW v \in Nat
  PROVE  (v % A) * B \in Nat /\ (v % A) * B < A * B
<1>1. v % A \in 0 .. A - 1
  OBVIOUS
<1>2. \A r \in 0 .. A - 1 : r * B \in Nat /\ r * B < A * B
  <2>1. TAKE r \in 0 .. A - 1
  <2>2. A - r >= 1 /\ A - r \in Nat
    OBVIOUS
  <2>3. A * B = r * B + (A - r) * B
    OBVIOUS
  <2>4. (A - r) * B >= 1
    BY <2>2
  <2>5. QED
    BY <2>3, <2>4
<1>3. QED
  BY <1>1, <1>2

LEMMA ShiftTypes ==
  ASSUME NEW v \in Word, NEW n \in Nat
  PROVE  Sll(v, n) \in Word /\ Srl(v, n) \in Word /\ Sra(v, n) \in Word
<1>1. Sll(v, n) \in Word
  <2>1. CASE n >= W
    BY <2>1, WordSize DEF Sll, Word
  <2>2. CASE n < W
    <3>1. n \in 0 .. 32 /\ n \in 0 .. W /\ W - n \in 0 .. 32
      BY <2>2, WidthAssumption
    <3>2. 2^n \in Nat /\ 2^n >= 1 /\ 2^(W - n) \in Nat /\ 2^(W - n) >= 1
      BY <3>1, Powers
    <3>3. 2^(W - n) * 2^n = WORD
      BY <3>1, PowersSplit
    <3>4. v \in Nat
      BY DEF Word
    <3>5. (v % 2^(W - n)) * 2^n \in Nat /\ (v % 2^(W - n)) * 2^n < WORD
      BY <3>2, <3>3, <3>4, ShiftBound
    <3>6. QED
      BY <2>2, <3>5, WidthAssumption, WordSize DEF Sll, Word
  <2>3. QED
    BY <2>1, <2>2, WidthAssumption
<1>2. Srl(v, n) \in Word
  <2>1. CASE n >= W
    BY <2>1, WordSize DEF Srl, Word
  <2>2. CASE n < W
    <3>0. n \in 0 .. 32
      BY <2>2, WidthAssumption
    <3>1. 2^n \in Nat /\ 2^n >= 1
      BY <3>0, Powers
    <3>2. v \in Nat /\ v < WORD
      BY WordSize DEF Word
    <3>3. v \div 2^n \in Nat /\ v \div 2^n <= v
      BY <3>1, <3>2
    <3>4. QED
      BY <2>2, <3>2, <3>3, WordSize, WidthAssumption DEF Srl, Word
  <2>3. QED
    BY <2>1, <2>2, WidthAssumption
<1>3. Sra(v, n) \in Word
  <2> DEFINE k == IF n >= W THEN W - 1 ELSE n
  <2>1. k \in 0 .. 32
    BY WidthAssumption
  <2> HIDE DEF k
  <2>2. 2^k \in Nat /\ 2^k >= 1
    BY <2>1, Powers
  <2>3. Signed(v) \div 2^k \in Int
    BY <2>2, SignedType
  <2>4. QED
    BY <2>3, WrapType DEF Sra, k
<1>4. QED
  BY <1>1, <1>2, <1>3

\* The recursion of And ends, and what it counts is among the bits of a.
AndAt(f, m, n) ==
  IF m = 0 THEN 0 ELSE (m % 2) * (n % 2) + 2 * f[<<m \div 2, n \div 2>>]

LEMMA HalfType ==
  ASSUME NEW m \in Word  PROVE m \div 2 \in Word /\ (m # 0 => m \div 2 <= m - 1)
                               /\ m = 2 * (m \div 2) + (m % 2)
BY WordSize DEF Word

LEMMA AndExists ==
  \E f \in [Word \X Word -> Nat] : \A m, n \in Word : f[<<m, n>>] = AndAt(f, m, n)
<1> DEFINE Good == {k \in Nat : \E f \in [Word \X Word -> Nat] :
                                  \A m, n \in Word : m <= k => f[<<m, n>>] = AndAt(f, m, n)}
<1>1. ASSUME NEW f \in [Word \X Word -> Nat], NEW m \in Word, NEW n \in Word
      PROVE  AndAt(f, m, n) \in Nat
  <2>1. f[<<m \div 2, n \div 2>>] \in Nat
    BY HalfType
  <2>2. (m % 2) * (n % 2) \in Nat
    <3>1. m % 2 \in {0, 1} /\ n % 2 \in {0, 1}
      BY WordSize DEF Word
    <3>2. QED
      BY <3>1
  <2>3. QED
    BY <2>1, <2>2 DEF AndAt
<1>2. 0 \in Good
  <2> DEFINE f == [x \in Word \X Word |-> 0]
  <2>1. f \in [Word \X Word -> Nat]
    OBVIOUS
  <2>2. \A m, n \in Word : m <= 0 => f[<<m, n>>] = AndAt(f, m, n)
    BY WordSize DEF AndAt, Word
  <2> HIDE DEF f
  <2>3. \E g \in [Word \X Word -> Nat] : \A m, n \in Word : m <= 0 => g[<<m, n>>] = AndAt(g, m, n)
    BY <2>1, <2>2
  <2>4. QED
    BY <2>3
<1>3. ASSUME NEW k \in Good  PROVE k + 1 \in Good
  <2>1. PICK f \in [Word \X Word -> Nat] :
          \A m, n \in Word : m <= k => f[<<m, n>>] = AndAt(f, m, n)
    OBVIOUS
  <2> DEFINE g == [x \in Word \X Word |-> AndAt(f, x[1], x[2])]
  <2>2. g \in [Word \X Word -> Nat]
    BY <1>1
  <2>3. \A m, n \in Word : g[<<m, n>>] = AndAt(f, m, n)
    OBVIOUS
  <2> HIDE DEF g
  <2>4. ASSUME NEW m \in Word, NEW n \in Word, m <= k + 1  PROVE g[<<m, n>>] = AndAt(g, m, n)
    <3>1. CASE m = 0
      BY <2>3, <3>1 DEF AndAt
    <3>2. CASE m # 0
      <4>0. m \in Int /\ k \in Int
        BY WordSize DEF Word
      <4>1. m \div 2 \in Word /\ n \div 2 \in Word /\ m \div 2 <= k
        BY <2>4, <3>2, <4>0, HalfType
      <4>2. g[<<m \div 2, n \div 2>>] = f[<<m \div 2, n \div 2>>]
        BY <2>1, <2>3, <4>1
      <4>3. QED
        BY <2>3, <3>2, <4>2 DEF AndAt
    <3>3. QED
      BY <3>1, <3>2
  <2>5. \E h \in [Word \X Word -> Nat] :
          \A m, n \in Word : m <= k + 1 => h[<<m, n>>] = AndAt(h, m, n)
    BY <2>2, <2>4
  <2>6. k + 1 \in Nat
    OBVIOUS
  <2>7. QED
    BY <2>5, <2>6
<1>4. Good = Nat
  <2>1. Good \in SUBSET Nat
    OBVIOUS
  <2> HIDE DEF Good
  <2>2. QED
    BY <1>2, <1>3, <2>1, NatSetInduction
<1>5. WORD \in Good
  <2>1. WORD \in Nat
    BY WordSize
  <2> HIDE DEF Good
  <2>2. QED
    BY <1>4, <2>1
<1>6. \A m \in Word : m <= WORD
  BY WordSize DEF Word
<1>7. QED
  BY <1>5, <1>6

\* a & b holds only bits of a.
LEMMA AndBound ==
  ASSUME NEW a \in Word, NEW b \in Word  PROVE And(a, b) \in 0 .. a
<1> DEFINE f == CHOOSE g : g = [x \in Word \X Word |-> AndAt(g, x[1], x[2])]
<1>1. PICK h \in [Word \X Word -> Nat] : \A m, n \in Word : h[<<m, n>>] = AndAt(h, m, n)
  BY AndExists
<1>2. h = [x \in Word \X Word |-> AndAt(h, x[1], x[2])]
  BY <1>1
<1>3. f = [x \in Word \X Word |-> AndAt(f, x[1], x[2])]
  BY <1>2
<1>4. And(a, b) = f[<<a, b>>]
  BY DEF And, AndAt
<1> HIDE DEF f
<1>5. \A m, n \in Word : f[<<m, n>>] = AndAt(f, m, n)
  BY <1>3
<1> DEFINE T == {k \in Nat : \A m, n \in Word : m <= k => f[<<m, n>>] \in 0 .. m}
<1>6. 0 \in T
  <2>1. ASSUME NEW m \in Word, NEW n \in Word, m <= 0  PROVE f[<<m, n>>] \in 0 .. m
    <3>1. m = 0
      BY <2>1, WordSize DEF Word
    <3>2. f[<<m, n>>] = 0
      BY <1>5, <3>1 DEF AndAt
    <3>3. QED
      BY <3>1, <3>2
  <2>2. QED
    BY <2>1
<1>7. ASSUME NEW k \in T  PROVE k + 1 \in T
  <2>1. ASSUME NEW m \in Word, NEW n \in Word, m <= k + 1  PROVE f[<<m, n>>] \in 0 .. m
    <3>1. CASE m = 0
      BY <1>5, <3>1 DEF AndAt
    <3>2. CASE m # 0
      <4>0. m \in Nat /\ n \in Nat /\ k \in Nat
        BY WordSize DEF Word
      <4>1. m \div 2 \in Word /\ n \div 2 \in Word /\ m \div 2 <= k
            /\ m = 2 * (m \div 2) + (m % 2)
        BY <2>1, <3>2, <4>0, HalfType
      <4>2. f[<<m \div 2, n \div 2>>] \in 0 .. m \div 2
        BY <4>1
      <4>3. f[<<m, n>>] = (m % 2) * (n % 2) + 2 * f[<<m \div 2, n \div 2>>]
        BY <1>5, <3>2 DEF AndAt
      <4>4. (m % 2) * (n % 2) \in 0 .. m % 2
        <5>1. m % 2 \in {0, 1} /\ n % 2 \in {0, 1}
          BY <4>0
        <5>2. QED
          BY <5>1
      <4> DEFINE bit == (m % 2) * (n % 2)
                 rest == f[<<m \div 2, n \div 2>>]
      <4> HIDE DEF bit, rest
      <4>5. \A r \in Nat : rest \in 0 .. r /\ m = 2 * r + (m % 2) => bit + 2 * rest \in 0 .. m
        BY <4>0, <4>4 DEF bit
      <4>6. m \div 2 \in Nat
        BY <4>0
      <4>7. QED
        BY <4>1, <4>2, <4>3, <4>5, <4>6 DEF bit, rest
    <3>3. QED
      BY <3>1, <3>2
  <2>2. QED
    BY <2>1
<1>8. T = Nat
  <2>1. T \in SUBSET Nat
    OBVIOUS
  <2> HIDE DEF T
  <2>2. QED
    BY <1>6, <1>7, <2>1, NatSetInduction
<1>9. WORD \in T
  <2>1. WORD \in Nat
    BY WordSize
  <2> HIDE DEF T
  <2>2. QED
    BY <1>8, <2>1
<1>10. a <= WORD
  BY WordSize DEF Word
<1>11. QED
  BY <1>4, <1>9, <1>10

LEMMA BitwiseTypes ==
  ASSUME NEW a \in Word, NEW b \in Word
  PROVE  And(a, b) \in Word /\ Or(a, b) \in Word /\ Xor(a, b) \in Word
<1>1. And(a, b) \in 0 .. a /\ a \in 0 .. WORD - 1
  BY AndBound DEF Word
<1>2. WORD - 1 - a \in Word /\ WORD - 1 - b \in Word
  BY WordSize DEF Word
<1>3. And(WORD - 1 - a, WORD - 1 - b) \in 0 .. WORD - 1 - a
  BY <1>2, AndBound
<1>4. QED
  BY <1>1, <1>3, WordSize DEF Or, Xor, Word

-----------------------------------------------------------------------------
(* The hart keeps its type: what an operation writes is a word.            *)

Ops == {"none", "LB", "LH", "LW", "LBU", "LHU", "SB", "SH", "SW"}
Hart == [x: [0 .. 31 -> Word], pc: Word, running: BOOLEAN, data: Word,
         request: [op: Ops, addr: Word, data: Word]]
HartOK(h) == h \in Hart /\ h.x[0] = 0

LEMMA WriteOK ==
  ASSUME NEW h, HartOK(h), NEW r \in 0 .. 31, NEW v \in Word
  PROVE  HartOK(write_reg(h, r, v))
BY DEF HartOK, Hart, write_reg

LEMMA GotoOK ==
  ASSUME NEW h, HartOK(h), NEW target \in Int
  PROVE  HartOK(Goto(h, target)) /\ HartOK(Stop(h)) /\ Wrap(target) \in Word
<1>1. Wrap(target) \in Word
  BY WrapType
<1>2. QED
  BY <1>1 DEF HartOK, Hart, Goto, Stop

LEMMA RequestOK ==
  ASSUME NEW h, HartOK(h), NEW op \in Ops, NEW addr \in Int, NEW data \in Word
  PROVE  HartOK(Request(h, op, addr, data))
<1>1. Wrap(addr) \in Word
  BY WrapType
<1>2. QED
  BY <1>1 DEF HartOK, Hart, Request

LEMMA ReadOK ==
  ASSUME NEW h, HartOK(h), NEW r \in 0 .. 31
  PROVE  /\ h.x[r] \in Word /\ h.x[r] \in Int
         /\ h.pc \in Word /\ h.pc \in Int /\ h.data \in Word
BY WordSize DEF HartOK, Hart, Word

LEMMA QuotientType ==
  ASSUME NEW p \in Int, NEW q \in Int, q # 0
  PROVE  Quotient(p, q) \in Int /\ Remainder(p, q) \in Int
<1>1. Abs(p) \in Nat /\ Abs(q) \in Nat /\ Abs(q) > 0
  BY DEF Abs
<1>2. Abs(p) \div Abs(q) \in Int
  BY <1>1
<1>3. Quotient(p, q) \in Int
  BY <1>2 DEF Quotient
<1>4. QED
  BY <1>3 DEF Remainder

\* The upper half of a product is a word.
LEMMA UpperBound ==
  ASSUME NEW N \in Nat, N >= 1, NEW a \in 0 .. N - 1, NEW b \in 0 .. N - 1
  PROVE  (a * b) \div N \in 0 .. N - 1
<1> DEFINE d == (a * b) \div N
<1>1. a * b \in Nat
  OBVIOUS
<1>2. d \in Nat /\ a * b >= N * d
  BY <1>1
<1>3. a * N - a * b = a * (N - b) /\ a * (N - b) \in Nat
  OBVIOUS
<1>4. N * (d - a) <= 0
  BY <1>2, <1>3
<1>5. d - a <= 0
  BY <1>2, <1>4
<1>6. QED
  BY <1>2, <1>5

LEMMA MulDivType ==
  ASSUME NEW f \in 0 .. 7, NEW a \in Word, NEW b \in Word
  PROVE  MulDiv(f, a, b) \in Word
<1> DEFINE p == Signed(a)
           q == Signed(b)
<1>1. p \in Int /\ q \in Int /\ a \in Nat /\ b \in Nat /\ WORD \in Nat /\ WORD >= 1
  BY SignedType, WordSize DEF Word
<1>2. b # 0 => q # 0
  BY WordSize DEF Signed, Word
<1>3. CASE f \in {0, 1, 2}
  <2>1. p * q \in Int /\ p * b \in Int
    BY <1>1
  <2>2. (p * q) \div WORD \in Int /\ (p * b) \div WORD \in Int
    BY <1>1, <2>1
  <2>3. QED
    BY <1>3, <2>1, <2>2, WrapType DEF MulDiv
<1>4. CASE f = 3
  <2>1. (a * b) \div WORD \in Word
    BY <1>1, UpperBound DEF Word
  <2>2. QED
    BY <1>4, <2>1 DEF MulDiv
<1>5. CASE f \in {4, 5, 6, 7} /\ b = 0
  <2>1. WORD - 1 \in Word
    BY <1>1 DEF Word
  <2>2. MulDiv(f, a, b) = IF f \in {4, 5} THEN WORD - 1 ELSE a
    BY <1>5 DEF MulDiv
  <2>3. QED
    BY <2>1, <2>2
<1>6. CASE f \in {4, 6} /\ b # 0
  <2>1. Quotient(p, q) \in Int /\ Remainder(p, q) \in Int
    BY <1>1, <1>2, <1>6, QuotientType
  <2>2. MulDiv(f, a, b) = Wrap(IF f = 4 THEN Quotient(p, q) ELSE Remainder(p, q))
    BY <1>6 DEF MulDiv
  <2>3. QED
    BY <2>1, <2>2, WrapType
<1>7. CASE f \in {5, 7} /\ b # 0
  <2>1. a \div b \in 0 .. a /\ a % b \in 0 .. b
    BY <1>1, <1>7
  <2>2. MulDiv(f, a, b) = IF f = 5 THEN a \div b ELSE a % b
    BY <1>7 DEF MulDiv
  <2>3. a < WORD /\ b < WORD
    BY <1>1 DEF Word
  <2>4. QED
    BY <1>1, <2>1, <2>2, <2>3 DEF Word
<1>8. QED
  BY <1>3, <1>4, <1>5, <1>6, <1>7

LEMMA AluType ==
  ASSUME NEW f \in 0 .. 7, NEW a \in Word, NEW b \in Word
  PROVE  Alu(f, a, b) \in Word
<1>1. a \in Int /\ b \in Int /\ b % 32 \in Nat
  BY WordSize DEF Word
<1>2. Wrap(a + b) \in Word /\ 0 \in Word /\ 1 \in Word
  BY <1>1, WrapType, WordSize DEF Word
<1>3. Sll(a, b % 32) \in Word /\ Srl(a, b % 32) \in Word
  BY <1>1, ShiftTypes
<1>4. And(a, b) \in Word /\ Or(a, b) \in Word /\ Xor(a, b) \in Word
  BY BitwiseTypes
<1>5. QED
  BY <1>2, <1>3, <1>4 DEF Alu, Bit

\* The immediates of a 32-bit instruction.
LEMMA ImmTypes ==
  ASSUME NEW i \in Insn32
  PROVE  /\ ImmI(i) \in Word /\ ImmS(i) \in Word /\ ImmB(i) \in Word /\ ImmJ(i) \in Word
         /\ ImmU(i) \in Word
         /\ ImmI(i) \in Int /\ ImmS(i) \in Int /\ ImmB(i) \in Int /\ ImmJ(i) \in Int
         /\ ImmU(i) \in Int
<1>1. /\ i.rs2 \in Nat /\ i.rs1 \in Nat /\ i.rd \in Nat /\ i.funct3 \in Nat
      /\ i.funct7 \in Nat
  BY DEF Insn32
<1>2. 2^20 \in Int
  OBVIOUS
<1>3. ImmI(i) \in Word /\ ImmS(i) \in Word /\ ImmB(i) \in Word /\ ImmJ(i) \in Word
  BY <1>1, <1>2, SignExtendType DEF ImmI, ImmS, ImmB, ImmJ
<1>4. ImmU(i) \in Word
  <2>1. WORD \div 4096 \in Nat /\ WORD \div 4096 >= 1 /\ WORD = 4096 * (WORD \div 4096)
    BY WordSize
  <2>2. i.funct3 + 8 * i.rs1 + 256 * i.rs2 + 8192 * i.funct7 \in Nat
    BY <1>1
  <2> DEFINE u == (i.funct3 + 8 * i.rs1 + 256 * i.rs2 + 8192 * i.funct7) % (WORD \div 4096)
  <2>3. u \in 0 .. (WORD \div 4096) - 1
    BY <2>1, <2>2
  <2>4. ImmU(i) = 4096 * u
    BY DEF ImmU
  <2> HIDE DEF u
  <2>5. QED
    BY <2>1, <2>3, <2>4 DEF Word
<1>5. Word \subseteq Int
  BY WordSize DEF Word
<1>6. QED
  BY <1>3, <1>4, <1>5

LEMMA OpTypes ==
  ASSUME NEW i \in Insn32, NEW a \in Word, NEW b \in Word, NEW old \in Word
  PROVE  Op(i, a, b, old) \in Word /\ OpImm(i, a, old) \in Word
<1>1. i.funct3 \in 0 .. 7 /\ i.rs2 \in Nat
  BY DEF Insn32
<1>2. MulDiv(i.funct3, a, b) \in Word /\ Alu(i.funct3, a, b) \in Word
      /\ Alu(i.funct3, a, ImmI(i)) \in Word
  BY <1>1, MulDivType, AluType, ImmTypes
<1>3. b % 32 \in Nat /\ a - b \in Int
  BY WordSize DEF Word
<1>4. Sra(a, b % 32) \in Word /\ Sra(a, i.rs2) \in Word /\ Wrap(a - b) \in Word
  BY <1>1, <1>3, ShiftTypes, WrapType
<1>5. QED
  BY <1>2, <1>4 DEF Op, OpImm

LEMMA LoadedType ==
  ASSUME NEW f \in 0 .. 7, NEW d \in Word  PROVE Loaded(f, d) \in Word
<1>1. d \in Nat
  BY WordSize DEF Word
<1>2. d % 256 \in Word /\ d % 65536 \in Word /\ 0 \in Word
  BY <1>1, WordSize DEF Word
<1>3. sign_extend(d % 256, 8) \in Word /\ sign_extend(d % 65536, 16) \in Word
  BY <1>1, SignExtendType
<1>4. QED
  BY <1>2, <1>3 DEF Loaded

LEMMA NamesType ==
  /\ \A f \in 0 .. 7 : LoadNames[f + 1] \in Ops
  /\ \A f \in 0 .. 2 : StoreNames[f + 1] \in Ops
<1>1. \A k \in 1 .. 8 : LoadNames[k] \in Ops
  BY DEF LoadNames, Ops
<1>2. \A k \in 1 .. 3 : StoreNames[k] \in Ops
  BY DEF StoreNames, Ops
<1>3. QED
  BY <1>1, <1>2

\* execute_instruction, of whatever instruction.
LEMMA InstructionOK ==
  ASSUME NEW h, HartOK(h), NEW i \in Insn32, NEW n \in Nat
  PROVE  HartOK(execute_instruction(h, i, n))
<1> DEFINE a == h.x[i.rs1]
           b == h.x[i.rs2]
           next == Goto(h, h.pc + n)
           link == Wrap(h.pc + n)
<1>1. i.rd \in 0 .. 31 /\ i.rs1 \in 0 .. 31 /\ i.rs2 \in 0 .. 31 /\ i.funct3 \in 0 .. 7
  BY DEF Insn32
<1>2. a \in Word /\ b \in Word /\ h.x[i.rd] \in Word /\ a \in Int /\ b \in Int
      /\ h.pc \in Int /\ h.data \in Word
  BY <1>1, ReadOK
<1>3. HartOK(next) /\ link \in Word /\ HartOK(Stop(h))
  BY <1>2, GotoOK
<1>4. CASE i.opcode = 51
  <2>1. execute_instruction(h, i, n) = write_reg(next, i.rd, Op(i, a, b, h.x[i.rd]))
    BY <1>4 DEF execute_instruction
  <2>2. Op(i, a, b, h.x[i.rd]) \in Word
    BY <1>2, OpTypes
  <2>3. QED
    BY <1>1, <1>3, <2>1, <2>2, WriteOK
<1>5. CASE i.opcode = 19
  <2>1. execute_instruction(h, i, n) = write_reg(next, i.rd, OpImm(i, a, h.x[i.rd]))
    BY <1>5 DEF execute_instruction
  <2>2. OpImm(i, a, h.x[i.rd]) \in Word
    BY <1>2, OpTypes
  <2>3. QED
    BY <1>1, <1>3, <2>1, <2>2, WriteOK
<1>6. CASE i.opcode = 3
  <2>1. execute_instruction(h, i, n)
        = Request(write_reg(next, i.rd, Loaded(i.funct3, h.data)),
                  LoadNames[i.funct3 + 1], a + ImmI(i), 0)
    BY <1>6 DEF execute_instruction
  <2>2. HartOK(write_reg(next, i.rd, Loaded(i.funct3, h.data)))
    BY <1>1, <1>2, <1>3, LoadedType, WriteOK
  <2>3. a + ImmI(i) \in Int /\ LoadNames[i.funct3 + 1] \in Ops /\ 0 \in Word
    BY <1>1, <1>2, ImmTypes, NamesType, WordSize DEF Word
  <2>4. QED
    BY <2>1, <2>2, <2>3, RequestOK
<1>7. CASE i.opcode = 35
  <2>1. CASE i.funct3 > 2
    BY <1>3, <1>7, <2>1 DEF execute_instruction
  <2>2. CASE ~(i.funct3 > 2)
    <3> DEFINE m == IF i.funct3 = 0 THEN 256 ELSE IF i.funct3 = 1 THEN 65536 ELSE WORD
    <3>1. execute_instruction(h, i, n)
          = Request(next, StoreNames[i.funct3 + 1], a + ImmS(i), b % m)
      BY <1>7, <2>2 DEF execute_instruction
    <3>2. b % m \in Word
      BY <1>2, WordSize DEF Word
    <3>3. a + ImmS(i) \in Int /\ StoreNames[i.funct3 + 1] \in Ops
      BY <1>1, <1>2, <2>2, ImmTypes, NamesType
    <3> HIDE DEF m
    <3>4. QED
      BY <1>3, <3>1, <3>2, <3>3, RequestOK
  <2>3. QED
    BY <2>1, <2>2
<1>8. CASE i.opcode = 99
  <2>1. \/ execute_instruction(h, i, n) = Goto(h, h.pc + ImmB(i))
        \/ execute_instruction(h, i, n) = next
    BY <1>8 DEF execute_instruction
  <2>2. QED
    BY <1>2, <1>3, <2>1, GotoOK, ImmTypes
<1>9. CASE i.opcode = 111
  <2>1. execute_instruction(h, i, n) = Goto(write_reg(h, i.rd, link), h.pc + ImmJ(i))
    BY <1>9 DEF execute_instruction
  <2>2. HartOK(write_reg(h, i.rd, link))
    BY <1>1, <1>3, WriteOK
  <2>3. h.pc + ImmJ(i) \in Int
    BY <1>2, ImmTypes
  <2>4. QED
    BY <2>1, <2>2, <2>3, GotoOK
<1>10. CASE i.opcode = 103
  <2> DEFINE target == Wrap(a + ImmI(i))
  <2>1. execute_instruction(h, i, n)
        = Goto(write_reg(h, i.rd, link), target - (target % 2))
    BY <1>10 DEF execute_instruction
  <2>2. target \in Word
    BY <1>2, ImmTypes, WrapType
  <2>3. target - (target % 2) \in Int
    BY <2>2, WordSize DEF Word
  <2>4. HartOK(write_reg(h, i.rd, link))
    BY <1>1, <1>3, WriteOK
  <2> HIDE DEF target
  <2>5. QED
    BY <2>1, <2>3, <2>4, GotoOK
<1>11. CASE i.opcode = 55
  <2>1. execute_instruction(h, i, n) = write_reg(next, i.rd, ImmU(i))
    BY <1>11 DEF execute_instruction
  <2>2. QED
    BY <1>1, <1>3, <2>1, ImmTypes, WriteOK
<1>12. CASE i.opcode = 23
  <2>1. execute_instruction(h, i, n) = write_reg(next, i.rd, Wrap(h.pc + ImmU(i)))
    BY <1>12 DEF execute_instruction
  <2>2. Wrap(h.pc + ImmU(i)) \in Word
    BY <1>2, ImmTypes, WrapType
  <2>3. QED
    BY <1>1, <1>3, <2>1, <2>2, WriteOK
<1>13. CASE i.opcode = 115
  BY <1>3, <1>13 DEF execute_instruction
<1>14. CASE i.opcode \notin {51, 19, 3, 35, 99, 111, 103, 55, 23, 115}
  BY <1>3, <1>14 DEF execute_instruction
<1>15. QED
  BY <1>4, <1>5, <1>6, <1>7, <1>8, <1>9, <1>10, <1>11, <1>12, <1>13, <1>14

-----------------------------------------------------------------------------
(* The same of the 16-bit instructions.                                    *)

\* A field of n bits, cut out at any place.
LEMMA FieldType ==
  ASSUME NEW c \in Insn16, NEW low \in 0 .. 15, NEW n \in 1 .. 6
  PROVE  Field(c, low, n) \in Nat /\ Field(c, low, n) < 2^n
<1>1. low \in 0 .. 32 /\ n \in 0 .. 32 /\ c \in Nat
  BY DEF Insn16
<1>2. 2^low \in Nat /\ 2^low >= 1 /\ 2^n \in Nat /\ 2^n >= 1
  BY <1>1, Powers
<1>3. c \div 2^low \in Nat
  BY <1>1, <1>2
<1>4. QED
  BY <1>2, <1>3 DEF Field

LEMMA RegisterTypes ==
  ASSUME NEW c \in Insn16
  PROVE  /\ Rd(c) \in 0 .. 31 /\ Rs2(c) \in 0 .. 31
         /\ RegAt7(c) \in 0 .. 31 /\ RegAt2(c) \in 0 .. 31
         /\ Shamt(c) \in 0 .. 63 /\ Quadrant(c) \in 0 .. 3 /\ Funct3(c) \in 0 .. 7
<1>1. /\ 2^5 = 32 /\ 2^3 = 8 /\ 2^2 = 4 /\ 2^1 = 2
  OBVIOUS
<1>2. /\ Field(c, 7, 5) \in 0 .. 31 /\ Field(c, 2, 5) \in 0 .. 31
      /\ Field(c, 7, 3) \in 0 .. 7 /\ Field(c, 2, 3) \in 0 .. 7
      /\ Field(c, 12, 1) \in 0 .. 1 /\ Field(c, 0, 2) \in 0 .. 3 /\ Field(c, 13, 3) \in 0 .. 7
  BY <1>1, FieldType
<1>3. QED
  BY <1>2 DEF Rd, Rs2, RegAt7, RegAt2, Shamt, Quadrant, Funct3

LEMMA CImmTypes ==
  ASSUME NEW c \in Insn16
  PROVE  /\ CImm6(c) \in Word /\ CImm16sp(c) \in Word
         /\ CImm6(c) \in Int /\ CImm16sp(c) \in Int /\ CImm4spn(c) \in Int
         /\ CImmJ(c) \in Int /\ CImmB(c) \in Int /\ CImmLw(c) \in Int
         /\ CImmLwsp(c) \in Int /\ CImmSwsp(c) \in Int
<1>1. \A low \in 0 .. 15, n \in 1 .. 6 : Field(c, low, n) \in Nat
  BY FieldType
<1>2. Word \subseteq Int
  BY WordSize DEF Word
<1>3. CImm6(c) \in Word
  BY RegisterTypes, SignExtendType DEF CImm6
<1>4. CImm16sp(c) \in Word /\ CImmJ(c) \in Word /\ CImmB(c) \in Word
  BY <1>1, SignExtendType DEF CImm16sp, CImmJ, CImmB
<1>5. CImm4spn(c) \in Int /\ CImmLw(c) \in Int /\ CImmLwsp(c) \in Int /\ CImmSwsp(c) \in Int
  BY <1>1 DEF CImm4spn, CImmLw, CImmLwsp, CImmSwsp
<1>6. QED
  BY <1>2, <1>3, <1>4, <1>5

LEMMA AmountType ==
  ASSUME NEW c \in Insn16  PROVE Amount(c) \in Nat
<1>1. Shamt(c) \in 0 .. 63
  BY RegisterTypes
<1>2. CASE Shamt(c) >= 32
  BY <1>1, <1>2, HostAssumption DEF Amount
<1>3. CASE Shamt(c) < 32
  BY <1>1, <1>3 DEF Amount
<1>4. QED
  BY <1>1, <1>2, <1>3

LEMMA AccessOK ==
  ASSUME NEW h, HartOK(h), NEW r \in 0 .. 31, NEW addr \in Int
  PROVE  HartOK(LoadWord(h, r, addr)) /\ HartOK(StoreWord(h, r, addr))
<1>1. "LW" \in Ops /\ "SW" \in Ops /\ 0 \in Word
  BY WordSize DEF Ops, Word
<1>2. h.data \in Word /\ h.x[r] \in Word
  BY ReadOK
<1>3. HartOK(write_reg(h, r, h.data))
  BY <1>2, WriteOK
<1>4. QED
  BY <1>1, <1>2, <1>3, RequestOK DEF LoadWord, StoreWord

LEMMA Quadrant0OK ==
  ASSUME NEW h, HartOK(h), NEW c \in Insn16  PROVE HartOK(Quadrant0(h, c))
<1> DEFINE at == h.x[RegAt7(c)] + CImmLw(c)
<1>1. at \in Int /\ h.x[2] + CImm4spn(c) \in Int
  BY RegisterTypes, CImmTypes, ReadOK
<1>2. HartOK(Stop(h))
  BY GotoOK
<1>3. HartOK(LoadWord(h, RegAt2(c), at)) /\ HartOK(StoreWord(h, RegAt2(c), at))
  <2> HIDE DEF at
  <2>1. QED
    BY <1>1, AccessOK, RegisterTypes
<1>4. HartOK(write_reg(h, RegAt2(c), Wrap(h.x[2] + CImm4spn(c))))
  BY <1>1, WrapType, WriteOK, RegisterTypes
<1>5. QED
  BY <1>2, <1>3, <1>4 DEF Quadrant0

LEMMA ArithmeticOK ==
  ASSUME NEW h, HartOK(h), NEW c \in Insn16  PROVE HartOK(Arithmetic(h, c))
<1> DEFINE r == RegAt7(c)
           a == h.x[r]
           b == h.x[RegAt2(c)]
           k == Field(c, 5, 2)
<1>1. r \in 0 .. 31 /\ a \in Word /\ b \in Word /\ a - b \in Int
  BY RegisterTypes, ReadOK
<1>2. k \in 0 .. 3
  <2>1. 2^2 = 4
    OBVIOUS
  <2>2. QED
    BY <2>1, FieldType
<1> HIDE DEF r, a, b, k
<1>3. Srl(a, Amount(c)) \in Word /\ Sra(a, Amount(c)) \in Word
  BY <1>1, AmountType, ShiftTypes
<1>4. And(a, CImm6(c)) \in Word /\ And(a, b) \in Word /\ Or(a, b) \in Word
      /\ Xor(a, b) \in Word /\ Wrap(a - b) \in Word
  BY <1>1, CImmTypes, BitwiseTypes, WrapType
<1>5. <<Wrap(a - b), Xor(a, b), Or(a, b), And(a, b)>>[k + 1] \in Word
  BY <1>2, <1>4
<1>6. HartOK(Stop(h))
  BY GotoOK
<1>7. Field(c, 10, 2) \in 0 .. 3 /\ Field(c, 12, 1) \in 0 .. 1
  <2>1. 2^2 = 4 /\ 2^1 = 2
    OBVIOUS
  <2>2. QED
    BY <2>1, FieldType
<1>8. \/ Arithmetic(h, c) = Stop(h)
      \/ Arithmetic(h, c) = write_reg(h, r, Srl(a, Amount(c)))
      \/ Arithmetic(h, c) = write_reg(h, r, Sra(a, Amount(c)))
      \/ Arithmetic(h, c) = write_reg(h, r, And(a, CImm6(c)))
      \/ Arithmetic(h, c)
         = write_reg(h, r, <<Wrap(a - b), Xor(a, b), Or(a, b), And(a, b)>>[k + 1])
  BY <1>7 DEF Arithmetic, r, a, b, k
<1>9. QED
  BY <1>1, <1>3, <1>4, <1>5, <1>6, <1>8, WriteOK

LEMMA Quadrant1OK ==
  ASSUME NEW h, HartOK(h), NEW c \in Insn16  PROVE HartOK(Quadrant1(h, c))
<1> DEFINE f == Funct3(c)
           r == Rd(c)
<1>1. r \in 0 .. 31 /\ f \in 0 .. 7 /\ 2 \in 0 .. 31 /\ 1 \in 0 .. 31
  BY RegisterTypes
<1>2. h.x[r] \in Int /\ h.x[2] \in Int /\ h.pc \in Int
  BY <1>1, ReadOK
<1>3. CASE f = 0
  <2>1. Wrap(h.x[r] + CImm6(c)) \in Word
    BY <1>2, CImmTypes, WrapType
  <2>2. Quadrant1(h, c) = write_reg(h, r, Wrap(h.x[r] + CImm6(c)))
    BY <1>3 DEF Quadrant1
  <2>3. QED
    BY <1>1, <2>1, <2>2, WriteOK
<1>4. CASE f = 1
  <2>1. Wrap(h.pc + 2) \in Word /\ h.pc + CImmJ(c) \in Int
    BY <1>2, CImmTypes, WrapType
  <2>2. HartOK(write_reg(h, 1, Wrap(h.pc + 2)))
    BY <1>1, <2>1, WriteOK
  <2>3. Quadrant1(h, c) = Goto(write_reg(h, 1, Wrap(h.pc + 2)), h.pc + CImmJ(c))
    BY <1>4 DEF Quadrant1
  <2>4. QED
    BY <2>1, <2>2, <2>3, GotoOK
<1>5. CASE f = 2
  <2>1. Quadrant1(h, c) = write_reg(h, r, CImm6(c))
    BY <1>5 DEF Quadrant1
  <2>2. QED
    BY <1>1, <2>1, CImmTypes, WriteOK
<1>6. CASE f = 3
  <2>1. Wrap(h.x[2] + CImm16sp(c)) \in Word
    BY <1>2, CImmTypes, WrapType
  <2>2. Sll(CImm6(c), 12) \in Word
    BY CImmTypes, ShiftTypes
  <2>3. HartOK(Stop(h)) /\ HartOK(write_reg(h, 2, Wrap(h.x[2] + CImm16sp(c))))
        /\ HartOK(write_reg(h, r, Sll(CImm6(c), 12)))
    BY <1>1, <1>2, <2>1, <2>2, WriteOK, GotoOK
  <2>4. QED
    BY <1>6, <2>3 DEF Quadrant1
<1>7. CASE f = 4
  BY <1>7, ArithmeticOK DEF Quadrant1
<1>8. CASE f = 5
  <2>1. h.pc + CImmJ(c) \in Int
    BY <1>2, CImmTypes
  <2>2. QED
    BY <1>8, <2>1, GotoOK DEF Quadrant1
<1>9. CASE f \in {6, 7}
  <2>1. h.pc + CImmB(c) \in Int
    BY <1>2, CImmTypes
  <2>2. HartOK(Goto(h, h.pc + CImmB(c)))
    BY <2>1, GotoOK
  <2>3. QED
    BY <1>9, <2>2 DEF Quadrant1
<1> HIDE DEF f
<1>10. QED
  BY <1>1, <1>3, <1>4, <1>5, <1>6, <1>7, <1>8, <1>9

LEMMA Quadrant2OK ==
  ASSUME NEW h, HartOK(h), NEW c \in Insn16  PROVE HartOK(Quadrant2(h, c))
<1> DEFINE f == Funct3(c)
           r == Rd(c)
           s == Rs2(c)
           linked == IF Field(c, 12, 1) = 1 THEN write_reg(h, 1, Wrap(h.pc + 2)) ELSE h
<1>1. r \in 0 .. 31 /\ s \in 0 .. 31 /\ f \in 0 .. 7 /\ 2 \in 0 .. 31 /\ 1 \in 0 .. 31
  BY RegisterTypes
<1>2. h.x[r] \in Word /\ h.x[s] \in Word /\ h.x[r] \in Int /\ h.x[s] \in Int
      /\ h.x[2] \in Int /\ h.pc \in Int
  BY <1>1, ReadOK
<1>3. HartOK(Stop(h))
  BY GotoOK
<1>4. CASE f = 0
  <2>1. Sll(h.x[r], Amount(c)) \in Word
    BY <1>2, AmountType, ShiftTypes
  <2>2. Quadrant2(h, c) = write_reg(h, r, Sll(h.x[r], Amount(c)))
    BY <1>4 DEF Quadrant2
  <2>3. QED
    BY <1>1, <2>1, <2>2, WriteOK
<1>5. CASE f = 2
  <2>1. h.x[2] + CImmLwsp(c) \in Int
    BY <1>2, CImmTypes
  <2>2. Quadrant2(h, c) = LoadWord(h, r, h.x[2] + CImmLwsp(c))
    BY <1>5 DEF Quadrant2
  <2>3. QED
    BY <1>1, <2>1, <2>2, AccessOK
<1>6. CASE f = 6
  <2>1. h.x[2] + CImmSwsp(c) \in Int
    BY <1>2, CImmTypes
  <2>2. Quadrant2(h, c) = StoreWord(h, r, h.x[2] + CImmSwsp(c))
    BY <1>6 DEF Quadrant2
  <2>3. QED
    BY <1>1, <2>1, <2>2, AccessOK
<1>7. CASE f = 4 /\ s # 0
  <2>1. Wrap(h.x[r] + h.x[s]) \in Word
    BY <1>2, WrapType
  <2>2. Quadrant2(h, c) = write_reg(h, r, Wrap(h.x[r] + h.x[s]))
        \/ Quadrant2(h, c) = write_reg(h, r, h.x[s])
    BY <1>7 DEF Quadrant2
  <2>3. QED
    BY <1>1, <1>2, <2>1, <2>2, WriteOK
<1>8. CASE f = 4 /\ s = 0
  <2>1. Wrap(h.pc + 2) \in Word
    BY <1>2, WrapType
  <2>2. HartOK(linked)
    BY <1>1, <2>1, WriteOK
  <2>3. Quadrant2(h, c) = Stop(h) \/ Quadrant2(h, c) = Goto(linked, linked.x[r])
    BY <1>8 DEF Quadrant2
  <2> HIDE DEF linked
  <2>4. linked.x[r] \in Int
    BY <1>1, <2>2, ReadOK
  <2>5. QED
    BY <1>3, <2>2, <2>3, <2>4, GotoOK
<1>9. CASE f \notin {0, 2, 4, 6}
  BY <1>3, <1>9 DEF Quadrant2
<1>10. QED
  BY <1>4, <1>5, <1>6, <1>7, <1>8, <1>9

LEMMA CompressedOK ==
  ASSUME NEW h, HartOK(h), NEW c \in Insn16, Quadrant(c) # 3
  PROVE  HartOK(AfterCompressed(h, execute_compressed(h, c)))
<1>1. Quadrant(c) \in 0 .. 2
  BY RegisterTypes
<1>2. HartOK(execute_compressed(h, c))
  BY <1>1, Quadrant0OK, Quadrant1OK, Quadrant2OK DEF execute_compressed
<1>3. h.pc + 2 \in Int
  BY ReadOK
<1>4. QED
  BY <1>2, <1>3, GotoOK DEF AfterCompressed

-----------------------------------------------------------------------------
(* The type invariant.                                                     *)

ProgOK == \A a \in DOMAIN prog : IsInsn(prog[a])

InsnInv == HartOK(hart) /\ ProgOK /\ hw_cfg_reg \in [0 .. NRegs - 1 -> Word]

\* The encoders of the bench give instructions.
LEMMA AddiType ==
  ASSUME NEW rd \in 0 .. 31, NEW rs1 \in 0 .. 31, NEW imm \in Int
  PROVE  make_addi(rd, rs1, imm) \in Insn32
BY DEF make_addi, IType, Fields, Insn32

LEMMA LuiType ==
  ASSUME NEW rd \in 0 .. 31, NEW imm \in Int
  PROVE  make_lui(rd, imm) \in Insn32
BY DEF make_lui, Fields, Insn32

LEMMA SwType ==
  ASSUME NEW rs2 \in 0 .. 31, NEW rs1 \in 0 .. 31, NEW imm \in Int
  PROVE  make_sw(rs2, rs1, imm) \in Insn32
BY DEF make_sw, Fields, Insn32

\* The bench's program, instruction by instruction.
LEMMA LoadImmType ==
  ASSUME NEW rd \in 0 .. 31, NEW v \in Int
  PROVE  /\ load_imm(rd, v) \in Seq(Insn32) /\ Len(load_imm(rd, v)) = 2
<1> DEFINE low == v % 4096
           high == v \div 4096
<1>1. low \in Int /\ high \in Int /\ low - 4096 \in Int /\ high + 1 \in Int
  OBVIOUS
<1> HIDE DEF low, high
<1>2. /\ make_lui(rd, high) \in Insn32 /\ make_lui(rd, high + 1) \in Insn32
      /\ make_addi(rd, rd, low) \in Insn32 /\ make_addi(rd, rd, low - 4096) \in Insn32
  BY <1>1, LuiType, AddiType
<1>3. \/ load_imm(rd, v) = <<make_lui(rd, high + 1), make_addi(rd, rd, low - 4096)>>
      \/ load_imm(rd, v) = <<make_lui(rd, high), make_addi(rd, rd, low)>>
  BY DEF load_imm, low, high
<1>4. QED
  BY <1>2, <1>3

\* Its eight operations, each with the store of its result.
Operation(k) == IF k % 2 = 1 THEN make_muldiv(k \div 2, 28, 6, 7)
                ELSE make_sw(28, 5, 4 * (k \div 2 - 1))

LEMMA OperationType ==
  ASSUME NEW k \in 1 .. 16  PROVE Operation(k) \in Insn32
<1> DEFINE f == k \div 2
           m == 4 * (k \div 2 - 1)
<1>1. f \in 0 .. 8 /\ (k % 2 = 1 => f \in 0 .. 7) /\ m \in Int
  OBVIOUS
<1>2. 28 \in 0 .. 31 /\ 6 \in 0 .. 31 /\ 7 \in 0 .. 31 /\ 5 \in 0 .. 31
  OBVIOUS
<1> HIDE DEF f, m
<1>3. k % 2 = 1 => make_muldiv(f, 28, 6, 7) \in Insn32
  BY <1>1 DEF make_muldiv, Fields, Insn32
<1>4. make_sw(28, 5, m) \in Insn32
  BY <1>1, <1>2, SwType
<1>5. QED
  BY <1>3, <1>4 DEF Operation, f, m

\* Two sequences of instructions, one after the other.
Cat(s, t) == s \o t

LEMMA Concatenation ==
  ASSUME NEW s \in Seq(Insn32), NEW t \in Seq(Insn32)
  PROVE  /\ Cat(s, t) \in Seq(Insn32) /\ Len(Cat(s, t)) = Len(s) + Len(t)
         /\ \A i \in 1 .. Len(s) : Cat(s, t)[i] = s[i]
         /\ \A i \in 1 .. Len(t) : Cat(s, t)[i + Len(s)] = t[i]
<1>1. /\ s \o t \in Seq(Insn32) /\ Len(s \o t) = Len(s) + Len(t)
      /\ \A i \in 1 .. Len(s) + Len(t) : (s \o t)[i] = IF i <= Len(s) THEN s[i] ELSE t[i - Len(s)]
  BY ConcatProperties
<1>2. Len(s) \in Nat /\ Len(t) \in Nat
  OBVIOUS
<1>3. ASSUME NEW i \in 1 .. Len(t)  PROVE (s \o t)[i + Len(s)] = t[i]
  <2>1. i + Len(s) \in 1 .. Len(s) + Len(t) /\ ~(i + Len(s) <= Len(s))
        /\ (i + Len(s)) - Len(s) = i
    BY <1>2
  <2>2. QED
    BY <1>1, <2>1
<1>4. \A i \in 1 .. Len(s) : (s \o t)[i] = s[i]
  BY <1>1, <1>2
<1>5. QED
  BY <1>1, <1>3, <1>4 DEF Cat

LEMMA Firmware ==
  ASSUME NEW a \in Int, NEW b \in Int
  PROVE  /\ build_firmware(a, b) \in Seq(Insn32) /\ Len(build_firmware(a, b)) = 23
         /\ \A j \in {1, 2} : /\ build_firmware(a, b)[j] = load_imm(5, MMIO_BASE)[j]
                              /\ build_firmware(a, b)[j + 2] = load_imm(6, a)[j]
                              /\ build_firmware(a, b)[j + 4] = load_imm(7, b)[j]
         /\ \A k \in 1 .. 16 : build_firmware(a, b)[k + 6] = Operation(k)
         /\ build_firmware(a, b)[23] = make_ebreak
<1> DEFINE ops == [k \in 1 .. 16 |-> Operation(k)]
           L == load_imm(5, MMIO_BASE)
           A == load_imm(6, a)
           B == load_imm(7, b)
           E == <<make_ebreak>>
<1>1. MMIO_BASE \in Int /\ 5 \in 0 .. 31 /\ 6 \in 0 .. 31 /\ 7 \in 0 .. 31
  BY WidthAssumption
<1>2. L \in Seq(Insn32) /\ A \in Seq(Insn32) /\ B \in Seq(Insn32)
      /\ Len(L) = 2 /\ Len(A) = 2 /\ Len(B) = 2
  BY <1>1, LoadImmType
<1>3. ops \in Seq(Insn32) /\ Len(ops) = 16 /\ \A k \in 1 .. 16 : ops[k] = Operation(k)
  BY OperationType
<1>4. E \in Seq(Insn32) /\ Len(E) = 1 /\ E[1] = make_ebreak
  <2>1. make_ebreak \in Insn32
    BY DEF make_ebreak, IType, Fields, Insn32
  <2> HIDE DEF E
  <2>2. QED
    BY <2>1 DEF E
<1>5. build_firmware(a, b) = Cat(Cat(Cat(Cat(L, A), B), ops), E)
  BY DEF build_firmware, Operation, Cat
<1> HIDE DEF ops, L, A, B, E
<1>7. PICK LA : LA = Cat(L, A)
  OBVIOUS
<1>6. /\ LA \in Seq(Insn32) /\ Len(LA) = 4
      /\ \A i \in 1 .. 2 : LA[i] = L[i]
      /\ \A j \in 1 .. 2 : LA[j + 2] = A[j]
  <2>1. LA \in Seq(Insn32)
    BY <1>2, <1>7, Concatenation
  <2>2. Len(LA) = Len(L) + Len(A)
    BY <1>2, <1>7, Concatenation
  <2>3. \A i \in 1 .. Len(L) : LA[i] = L[i]
    BY <1>2, <1>7, Concatenation
  <2>4. \A j \in 1 .. Len(A) : LA[j + Len(L)] = A[j]
    BY <1>2, <1>7, Concatenation
  <2>5. Len(L) = 2 /\ Len(A) = 2
    BY <1>2, <1>7
  <2>6. Len(LA) = 4
    BY <2>2, <2>5
  <2>7. \A i \in 1 .. 2 : LA[i] = L[i]
    BY <2>3, <2>5
  <2>8. \A j \in 1 .. 2 : LA[j + 2] = A[j]
    BY <2>4, <2>5
  <2>9. QED
    BY <2>1, <2>6, <2>7, <2>8
<1>9. PICK LAB : LAB = Cat(LA, B)
  OBVIOUS
<1>8. /\ LAB \in Seq(Insn32) /\ Len(LAB) = 6
      /\ \A i \in 1 .. 4 : LAB[i] = LA[i]
      /\ \A j \in 1 .. 2 : LAB[j + 4] = B[j]
  <2>1. LAB \in Seq(Insn32)
    BY <1>2, <1>6, <1>9, Concatenation
  <2>2. Len(LAB) = Len(LA) + Len(B)
    BY <1>2, <1>6, <1>9, Concatenation
  <2>3. \A i \in 1 .. Len(LA) : LAB[i] = LA[i]
    BY <1>2, <1>6, <1>9, Concatenation
  <2>4. \A j \in 1 .. Len(B) : LAB[j + Len(LA)] = B[j]
    BY <1>2, <1>6, <1>9, Concatenation
  <2>5. Len(LA) = 4 /\ Len(B) = 2
    BY <1>2, <1>6, <1>9
  <2>6. Len(LAB) = 6
    BY <2>2, <2>5
  <2>7. \A i \in 1 .. 4 : LAB[i] = LA[i]
    BY <2>3, <2>5
  <2>8. \A j \in 1 .. 2 : LAB[j + 4] = B[j]
    BY <2>4, <2>5
  <2>9. QED
    BY <2>1, <2>6, <2>7, <2>8
<1>11. PICK all : all = Cat(LAB, ops)
  OBVIOUS
<1>10. /\ all \in Seq(Insn32) /\ Len(all) = 22
      /\ \A i \in 1 .. 6 : all[i] = LAB[i]
      /\ \A j \in 1 .. 16 : all[j + 6] = ops[j]
  <2>1. all \in Seq(Insn32)
    BY <1>3, <1>8, <1>11, Concatenation
  <2>2. Len(all) = Len(LAB) + Len(ops)
    BY <1>3, <1>8, <1>11, Concatenation
  <2>3. \A i \in 1 .. Len(LAB) : all[i] = LAB[i]
    BY <1>3, <1>8, <1>11, Concatenation
  <2>4. \A j \in 1 .. Len(ops) : all[j + Len(LAB)] = ops[j]
    BY <1>3, <1>8, <1>11, Concatenation
  <2>5. Len(LAB) = 6 /\ Len(ops) = 16
    BY <1>3, <1>8, <1>11
  <2>6. Len(all) = 22
    BY <2>2, <2>5
  <2>7. \A i \in 1 .. 6 : all[i] = LAB[i]
    BY <2>3, <2>5
  <2>8. \A j \in 1 .. 16 : all[j + 6] = ops[j]
    BY <2>4, <2>5
  <2>9. QED
    BY <2>1, <2>6, <2>7, <2>8
<1>13. PICK p : p = Cat(all, E)
  OBVIOUS
<1>12. /\ p \in Seq(Insn32) /\ Len(p) = 23
      /\ \A i \in 1 .. 22 : p[i] = all[i]
      /\ \A j \in 1 .. 1 : p[j + 22] = E[j]
  <2>1. p \in Seq(Insn32)
    BY <1>4, <1>10, <1>13, Concatenation
  <2>2. Len(p) = Len(all) + Len(E)
    BY <1>4, <1>10, <1>13, Concatenation
  <2>3. \A i \in 1 .. Len(all) : p[i] = all[i]
    BY <1>4, <1>10, <1>13, Concatenation
  <2>4. \A j \in 1 .. Len(E) : p[j + Len(all)] = E[j]
    BY <1>4, <1>10, <1>13, Concatenation
  <2>5. Len(all) = 22 /\ Len(E) = 1
    BY <1>4, <1>10, <1>13
  <2>6. Len(p) = 23
    BY <2>2, <2>5
  <2>7. \A i \in 1 .. 22 : p[i] = all[i]
    BY <2>3, <2>5
  <2>8. \A j \in 1 .. 1 : p[j + 22] = E[j]
    BY <2>4, <2>5
  <2>9. QED
    BY <2>1, <2>6, <2>7, <2>8
<1>14. p = build_firmware(a, b)
  BY <1>5, <1>7, <1>9, <1>11, <1>13
<1>15. \A j \in {1, 2} : p[j] = L[j] /\ p[j + 2] = A[j] /\ p[j + 4] = B[j]
  <2>1. TAKE j \in {1, 2}
  <2>2. j \in 1 .. 2 /\ j \in 1 .. 4 /\ j + 2 \in 1 .. 4 /\ j \in 1 .. 6 /\ j + 2 \in 1 .. 6
        /\ j + 4 \in 1 .. 6 /\ j \in 1 .. 22 /\ j + 2 \in 1 .. 22 /\ j + 4 \in 1 .. 22
    OBVIOUS
  <2>3. LA[j] = L[j] /\ LA[j + 2] = A[j]
    BY <1>6, <2>2
  <2>4. LAB[j] = LA[j] /\ LAB[j + 2] = LA[j + 2] /\ LAB[j + 4] = B[j]
    BY <1>8, <2>2
  <2>5. all[j] = LAB[j] /\ all[j + 2] = LAB[j + 2] /\ all[j + 4] = LAB[j + 4]
    BY <1>10, <2>2
  <2>6. p[j] = all[j] /\ p[j + 2] = all[j + 2] /\ p[j + 4] = all[j + 4]
    BY <1>12, <2>2
  <2>7. QED
    BY <2>3, <2>4, <2>5, <2>6
<1>16. \A k \in 1 .. 16 : p[k + 6] = Operation(k)
  <2>1. TAKE k \in 1 .. 16
  <2>2. k + 6 \in 1 .. 22
    OBVIOUS
  <2>3. p[k + 6] = all[k + 6]
    BY <1>12, <2>2
  <2>4. all[k + 6] = ops[k]
    BY <1>10
  <2>5. ops[k] = Operation(k)
    BY <1>3
  <2>6. QED
    BY <2>3, <2>4, <2>5
<1>17. p[23] = make_ebreak
  <2>1. 1 \in 1 .. 1 /\ 1 + 22 = 23
    OBVIOUS
  <2>2. p[1 + 22] = E[1]
    BY <1>12, <2>1
  <2>3. QED
    BY <1>4, <2>1, <2>2
<1>18. p \in Seq(Insn32) /\ Len(p) = 23
  BY <1>12
<1>19. QED
  BY <1>14, <1>15, <1>16, <1>17, <1>18 DEF L, A, B

\* The two kinds of instruction, by their length.
LEMMA LongInsn ==
  ASSUME NEW i, IsInsn(i), i.bytes = 4  PROVE i.code \in Insn32
<1>1. i \in ShortInsns => i.bytes = 2
  BY DEF ShortInsns
<1>2. i \in LongInsns
  BY <1>1 DEF IsInsn
<1>3. QED
  BY <1>2 DEF LongInsns

LEMMA ShortInsn ==
  ASSUME NEW i, IsInsn(i), i.bytes = 2  PROVE i.code \in Insn16 /\ Quadrant(i.code) # 3
<1>1. i \in LongInsns => i.bytes = 4
  BY DEF LongInsns
<1>2. i \in ShortInsns /\ Quadrant(i.code) # 3
  BY <1>1 DEF IsInsn
<1>3. i \in ShortInsns => i.code \in Insn16
  BY DEF ShortInsns
<1>4. QED
  BY <1>2, <1>3

LEMMA InsnLong ==
  ASSUME NEW c \in Insn32  PROVE IsInsn(Long(c))
BY DEF IsInsn, LongInsns, Long

\* The bench's program in memory.
LEMMA LayoutOK ==
  ASSUME NEW a \in Int, NEW b \in Int
  PROVE  \A addr \in DOMAIN Layout(build_firmware(a, b)) : IsInsn(Layout(build_firmware(a, b))[addr])
<1>1. PICK p : p = build_firmware(a, b)
  OBVIOUS
<1>2. p \in Seq(Insn32)
  BY <1>1, Firmware
<1>3. ASSUME NEW addr \in DOMAIN Layout(p)  PROVE IsInsn(Layout(p)[addr])
  <2>1. PICK k \in 1 .. Len(p) : addr = 4 * (k - 1)
    BY <1>2 DEF Layout
  <2>2. addr \div 4 + 1 = k
    BY <2>1
  <2>3. Layout(p)[addr] = Long(p[k])
    BY <2>2 DEF Layout
  <2>4. p[k] \in Insn32
    BY <1>2
  <2>5. QED
    BY <2>3, <2>4, InsnLong
<1>4. QED
  BY <1>1, <1>3

LEMMA StartOK ==
  ASSUME NEW input, input.x \in [0 .. 31 -> Word], input.x[0] = 0,
         input.pc \in Word, input.data \in Word
  PROVE  HartOK(Start(input))
<1>1. "none" \in Ops /\ 0 \in Word
  BY WordSize DEF Ops, Word
<1>2. QED
  BY <1>1 DEF HartOK, Hart, Start, NoRequest

LEMMA InsnInvInit == InsnInit => InsnInv
<1>1. SUFFICES ASSUME InsnInit  PROVE InsnInv
  OBVIOUS
<1>2. PICK input \in Started : hart = Start(input) /\ prog = input.prog
  BY <1>1 DEF InsnInit
<1>3. 0 \in Word
  BY WordSize DEF Word
<1>4. hw_cfg_reg \in [0 .. NRegs - 1 -> Word]
  BY <1>1, <1>3 DEF InsnInit
<1>5. CASE input \in Inputs
  BY <1>2, <1>4, <1>5, InputsAssumption, StartOK DEF InsnInv, ProgOK
<1>6. CASE input \notin Inputs
  <2>1. PICK o \in Operands : input = BenchInput(o[1], o[2])
    BY <1>2, <1>6 DEF Started
  <2>2. o[1] \in Int /\ o[2] \in Int
    BY InputsAssumption, WordSize DEF Word
  <2>3. input.x = [r \in 0 .. 31 |-> 0] /\ input.pc = 0 /\ input.data = 0
        /\ input.prog = Layout(build_firmware(o[1], o[2]))
    BY <2>1 DEF BenchInput
  <2>4. HartOK(Start(input))
    BY <1>3, <2>3, StartOK
  <2>5. ProgOK
    BY <1>2, <2>2, <2>3, LayoutOK DEF ProgOK
  <2>6. QED
    BY <1>2, <1>4, <2>4, <2>5 DEF InsnInv
<1>7. QED
  BY <1>5, <1>6

LEMMA QuietOK == HartOK(hart) => HartOK(Quiet)
<1>1. "none" \in Ops /\ 0 \in Word
  BY WordSize DEF Ops, Word
<1>2. QED
  BY <1>1 DEF HartOK, Hart, Quiet, NoRequest

LEMMA AfterQuiet ==
  ASSUME HartOK(hart), NEW done
  PROVE  AfterCompressed(hart, done) = AfterCompressed(Quiet, done)
BY DEF AfterCompressed, Quiet, HartOK, Hart

\* The store of the bench hits one of its registers.
LEMMA StoreType ==
  ASSUME hw_cfg_reg \in [0 .. NRegs - 1 -> Word], HartOK(hart'), dpi_mmio_write(hart'.request)
  PROVE  hw_cfg_reg' \in [0 .. NRegs - 1 -> Word]
<1> DEFINE r == hart'.request
           k == (r.addr - MMIO_BASE) \div 4
<1>1. r.addr \in Word /\ r.data \in Word
  BY DEF HartOK, Hart
<1>0. r.addr \in Nat
  BY <1>1, WordSize DEF Word
<1>2. CASE r.op = "SW" /\ r.addr >= MMIO_BASE /\ r.addr < MMIO_BASE + 4 * NRegs
  <2>1. hw_cfg_reg' = [hw_cfg_reg EXCEPT ![k] = r.data]
    BY <1>2 DEF dpi_mmio_write
  <2> HIDE DEF r, k
  <2>2. QED
    BY <1>0, <1>1, <2>1
<1>3. CASE ~(r.op = "SW" /\ r.addr >= MMIO_BASE /\ r.addr < MMIO_BASE + 4 * NRegs)
  <2>1. hw_cfg_reg' = hw_cfg_reg
    BY <1>3 DEF dpi_mmio_write
  <2>2. QED
    BY <2>1
<1>4. QED
  BY <1>2, <1>3

LEMMA InsnInvStep == InsnInv /\ [InsnNext]_insnVars => InsnInv'
<1>1. SUFFICES ASSUME InsnInv, [InsnNext]_insnVars  PROVE InsnInv'
  OBVIOUS
<1>2. HartOK(hart) /\ HartOK(Quiet) /\ hw_cfg_reg \in [0 .. NRegs - 1 -> Word]
  BY <1>1, QuietOK DEF InsnInv
<1>3. CASE InsnNext
  <2>1. prog' = prog /\ ProgOK'
    BY <1>1, <1>3 DEF InsnNext, InsnInv, ProgOK
  <2>2. ASSUME Running(4) \/ Running(2)  PROVE IsInsn(prog[hart.pc])
    BY <1>1, <2>2 DEF Running, InsnInv, ProgOK
  <2>3. CASE StepLong
    <3>1. prog[hart.pc].code \in Insn32
      <4>1. prog[hart.pc].bytes = 4 /\ IsInsn(prog[hart.pc])
        BY <2>2, <2>3 DEF StepLong, Running
      <4>2. QED
        BY <4>1, LongInsn
    <3>2. hart' = execute_instruction(Quiet, prog[hart.pc].code, 4)
      BY <2>3 DEF StepLong
    <3>3. QED
      <4>1. HartOK(execute_instruction(Quiet, prog[hart.pc].code, 4))
        BY <1>2, <3>1, InstructionOK
      <4>2. HartOK(hart')
        BY <3>2, <4>1
      <4>3. QED
        BY <1>2, <1>3, <2>1, <4>2, StoreType DEF InsnNext, InsnInv, HartOK
  <2>4. CASE StepShort
    <3> DEFINE c == prog[hart.pc].code
    <3>1. c \in Insn16 /\ Quadrant(c) # 3
      <4>1. prog[hart.pc].bytes = 2 /\ IsInsn(prog[hart.pc])
        BY <2>2, <2>4 DEF StepShort, Running
      <4>2. QED
        BY <4>1, ShortInsn
    <3>2. hart' = AfterCompressed(hart, execute_compressed(Quiet, c))
      BY <2>4 DEF StepShort
    <3> HIDE DEF c
    <3>3. hart' = AfterCompressed(Quiet, execute_compressed(Quiet, c))
      BY <1>2, <3>2, AfterQuiet
    <3>4. HartOK(AfterCompressed(Quiet, execute_compressed(Quiet, c)))
      BY <1>2, <3>1, CompressedOK
    <3>5. HartOK(hart')
      BY <3>3, <3>4
    <3>6. QED
      BY <1>2, <1>3, <2>1, <3>5, StoreType DEF InsnNext, InsnInv, HartOK
  <2>5. QED
    BY <1>3, <2>3, <2>4 DEF InsnNext
<1>4. CASE UNCHANGED insnVars
  BY <1>1, <1>4 DEF InsnInv, insnVars, ProgOK, HartOK
<1>5. QED
  BY <1>1, <1>3, <1>4

\* Types, and x0 0, whatever program runs.  InsnInv adds what a type of the state
\* does not say: that every instruction of the program is one, with registers,
\* immediates and functions in the ranges the encodings give.
THEOREM InsnTypesCorrect == InsnSpec => []InsnTypeOK
<1>1. InsnInv => InsnTypeOK
  BY DEF InsnInv, HartOK, Hart, InsnTypeOK
<1>2. QED
  BY <1>1, InsnInvInit, InsnInvStep, PTL DEF InsnSpec

-----------------------------------------------------------------------------
(* The MUL/DIV bench, one instruction after the other.                     *)

\* Words wrap at most once around a sum of two of them.
LEMMA WrapOnce ==
  ASSUME NEW v \in Int, v >= -WORD, v < 2 * WORD
  PROVE  Wrap(v) = IF v < 0 THEN v + WORD ELSE IF v < WORD THEN v ELSE v - WORD
BY WordSizes DEF Wrap

\* What lui leaves in the register, and what addi makes of it.
Low(v) == v % 4096
High(v) == v \div 4096
Upper(v) == IF Low(v) >= 2048 THEN Wrap(4096 * High(v) + 4096) ELSE 4096 * High(v)

LEMMA WordUnits ==
  /\ WORD \in Nat /\ WORD >= 8192
  /\ WORD \div 4096 \in Nat /\ WORD = 4096 * (WORD \div 4096)
BY SMT, WordSizes

LEMMA Halves ==
  ASSUME NEW v \in Word
  PROVE  /\ Low(v) \in 0 .. 4095 /\ High(v) \in Nat /\ v = 4096 * High(v) + Low(v)
         /\ v \in Nat /\ v < WORD /\ High(v) < WORD \div 4096
BY SMT, WordSizes DEF Word, Low, High

LEMMA LuiFields ==
  ASSUME NEW n \in Nat, n <= 1048576
  PROVE  (n % 8) + 8 * ((n \div 8) % 32) + 256 * ((n \div 256) % 32) + 8192 * ((n \div 8192) % 128)
         = IF n = 1048576 THEN 0 ELSE n
BY SMT

LEMMA LuiValue ==
  ASSUME NEW rd \in 0 .. 31, NEW n \in Nat, n <= WORD \div 4096
  PROVE  ImmU(make_lui(rd, n)) = IF n = WORD \div 4096 THEN 0 ELSE 4096 * n
<1>1. n <= 1048576 /\ (n = 1048576 => WORD \div 4096 = 1048576)
  BY SMT, WordSizes
<1> DEFINE m == (n % 8) + 8 * ((n \div 8) % 32) + 256 * ((n \div 256) % 32)
                + 8192 * ((n \div 8192) % 128)
<1>2. m = IF n = 1048576 THEN 0 ELSE n
  BY SMT, <1>1, LuiFields
<1>3. ImmU(make_lui(rd, n)) = 4096 * (m % (WORD \div 4096))
  BY SMT DEF ImmU, make_lui, Fields
<1> HIDE DEF m
<1>4. m % (WORD \div 4096) = IF n = WORD \div 4096 THEN 0 ELSE n
  BY SMT, <1>1, <1>2, WordSizes
<1>5. QED
  BY SMT, <1>3, <1>4

LEMMA LoadImmUpper ==
  ASSUME NEW rd \in 0 .. 31, NEW v \in Word
  PROVE  /\ ImmU(load_imm(rd, v)[1]) = Upper(v) /\ load_imm(rd, v)[1].opcode = 55
         /\ load_imm(rd, v)[1].rd = rd
<1>1. High(v) \in Nat /\ High(v) < WORD \div 4096 /\ WORD \div 4096 \in Nat
      /\ WORD = 4096 * (WORD \div 4096)
  BY Halves, WordUnits
<1>2. CASE Low(v) >= 2048
  <2>1. load_imm(rd, v)[1] = make_lui(rd, High(v) + 1)
    BY <1>2 DEF load_imm, Low, High
  <2>2. ImmU(make_lui(rd, High(v) + 1))
        = IF High(v) + 1 = WORD \div 4096 THEN 0 ELSE 4096 * (High(v) + 1)
    BY <1>1, LuiValue
  <2>3. Wrap(4096 * High(v) + 4096)
        = IF High(v) + 1 = WORD \div 4096 THEN 0 ELSE 4096 * (High(v) + 1)
    BY <1>1, WrapOnce
  <2>4. QED
    BY <1>2, <2>1, <2>2, <2>3 DEF Upper, make_lui, Fields
<1>3. CASE ~(Low(v) >= 2048)
  <2>1. load_imm(rd, v)[1] = make_lui(rd, High(v))
    BY <1>3 DEF load_imm, Low, High
  <2>2. ImmU(make_lui(rd, High(v))) = 4096 * High(v)
    BY <1>1, LuiValue
  <2>3. QED
    BY <1>3, <2>1, <2>2 DEF Upper, make_lui, Fields
<1>4. QED
  BY <1>2, <1>3

LEMMA AddiValue ==
  ASSUME NEW rd \in 0 .. 31, NEW n \in Int, n >= -2048, n < 2048
  PROVE  ImmI(make_addi(rd, rd, n)) = Wrap(n)
<1>1. (n % 32) + 32 * ((n \div 32) % 128) = IF n < 0 THEN n + 4096 ELSE n
  OBVIOUS
<1>2. ImmI(make_addi(rd, rd, n)) = sign_extend((n % 32) + 32 * ((n \div 32) % 128), 12)
  BY DEF ImmI, make_addi, IType, Fields
<1>3. 2^12 = 4096 /\ 2^(12 - 1) = 2048
  BY PowerTable
<1>4. QED
  BY <1>1, <1>2, <1>3 DEF sign_extend

LEMMA Fits ==
  ASSUME NEW v \in Nat, v < WORD
  PROVE  Wrap(v) = v /\ Wrap(v + WORD) = v
<1>1. WORD \in Nat
  BY WordUnits
<1>2. v \in Int /\ v >= -WORD /\ v < 2 * WORD /\ ~(v < 0)
  BY <1>1
<1>3. v + WORD \in Int /\ v + WORD >= -WORD /\ v + WORD < 2 * WORD /\ ~(v + WORD < 0)
      /\ ~(v + WORD < WORD)
  BY <1>1
<1>4. Wrap(v + WORD) = (v + WORD) - WORD
  BY <1>3, WrapOnce
<1>5. (v + WORD) - WORD = v
  BY <1>1
<1>6. QED
  BY <1>2, <1>4, <1>5, WrapOnce

Carried(l, n) == Wrap(Wrap(4096 * n + 4096) + Wrap(l - 4096))

Joined(l, n) == 4096 * n + l
UpperHalf == 2048 .. 4095

LEMMA NegativeLow ==
  ASSUME NEW l \in UpperHalf, NEW n \in Nat, Joined(l, n) < WORD
  PROVE  Carried(l, n) = Joined(l, n)
<1>0. 4096 * n + l < WORD /\ l \in 2048 .. 4095
  BY DEF Joined, UpperHalf
<1>1. PICK u \in Nat : WORD = 4096 * u
  BY WordUnits
<1>2. WORD \in Nat /\ WORD >= 8192
  BY WordUnits
<1>3. l - 4096 \in Int /\ l - 4096 >= -WORD /\ l - 4096 < 0 /\ l - 4096 < 2 * WORD
  BY <1>0, <1>2
<1>4. Wrap(l - 4096) = (l - 4096) + WORD
  BY <1>3, WrapOnce
<1>5. 4096 * n + l \in Nat
  BY <1>0
<1>6. n + 1 <= u
  BY <1>0, <1>1
<1>7. CASE n + 1 = u
  <2>1. 4096 * n + 4096 = 0 + WORD /\ 0 \in Nat /\ 0 < WORD
    BY <1>1, <1>2, <1>7
  <2>2. Wrap(0 + WORD) = 0
    BY <2>1, Fits
  <2>3. Wrap(4096 * n + 4096) = 0
    BY <2>1, <2>2
  <2>4. 0 + ((l - 4096) + WORD) = 4096 * n + l
    BY <1>0, <1>1, <1>7
  <2>5. QED
    BY <1>0, <1>4, <1>5, <2>3, <2>4, Fits DEF Carried, Joined
<1>8. CASE n + 1 < u
  <2>1. 4096 * n + 4096 \in Nat /\ 4096 * n + 4096 < WORD
    BY <1>1, <1>8
  <2>2. Wrap(4096 * n + 4096) = 4096 * n + 4096
    BY <2>1, Fits
  <2>3. (4096 * n + 4096) + ((l - 4096) + WORD) = (4096 * n + l) + WORD
    BY <1>0, <1>2
  <2>4. QED
    BY <1>0, <1>4, <1>5, <2>2, <2>3, Fits DEF Carried, Joined
<1>9. QED
  BY <1>6, <1>7, <1>8

LEMMA LoadImmLower ==
  ASSUME NEW rd \in 0 .. 31, NEW v \in Word
  PROVE  /\ Wrap(Upper(v) + ImmI(load_imm(rd, v)[2])) = v
         /\ load_imm(rd, v)[2].opcode = 19 /\ load_imm(rd, v)[2].funct3 = 0
         /\ load_imm(rd, v)[2].rd = rd /\ load_imm(rd, v)[2].rs1 = rd
<1>1. PICK l : l = Low(v)
  OBVIOUS
<1>2. PICK n : n = High(v)
  OBVIOUS
<1>3. l \in 0 .. 4095 /\ n \in Nat /\ v = 4096 * n + l /\ v < WORD
  BY <1>1, <1>2, Halves
<1>4. 4096 * n + l < WORD
  BY <1>3
<1>5. CASE l >= 2048
  <2>1. load_imm(rd, v)[2] = make_addi(rd, rd, l - 4096)
    BY <1>1, <1>5 DEF load_imm, Low, High
  <2>2. l - 4096 \in Int /\ l - 4096 >= -2048 /\ l - 4096 < 2048
    BY <1>3, <1>5
  <2>3. ImmI(make_addi(rd, rd, l - 4096)) = Wrap(l - 4096)
    BY <2>2, AddiValue
  <2>4. Upper(v) = Wrap(4096 * n + 4096)
    BY <1>1, <1>2, <1>5 DEF Upper
  <2>5. l \in UpperHalf
    BY <1>3, <1>5 DEF UpperHalf
  <2>6. Carried(l, n) = v
    <3>1. n \in Nat /\ Joined(l, n) < WORD /\ Joined(l, n) = v
      BY <1>3, <1>4 DEF Joined
    <3>2. Carried(l, n) = Joined(l, n)
      BY <2>5, <3>1, NegativeLow
    <3>3. QED
      BY <3>1, <3>2
  <2>7. Wrap(Upper(v) + ImmI(load_imm(rd, v)[2])) = v
    BY <2>1, <2>3, <2>4, <2>6 DEF Carried
  <2>8. QED
    BY <2>1, <2>7 DEF make_addi, IType, Fields
<1>6. CASE ~(l >= 2048)
  <2>1. load_imm(rd, v)[2] = make_addi(rd, rd, l)
    BY <1>1, <1>6 DEF load_imm, Low, High
  <2>2. l \in Int /\ l >= -2048 /\ l < 2048 /\ l \in 0 .. 2047
    BY <1>3, <1>6
  <2>3. ImmI(make_addi(rd, rd, l)) = Wrap(l)
    BY <2>2, AddiValue
  <2>4. Upper(v) = 4096 * n
    BY <1>1, <1>2, <1>6 DEF Upper
  <2>5. Wrap(4096 * n + Wrap(l)) = v
    <3>1. l \in Nat /\ v \in Nat /\ l < WORD
      BY <1>3, <1>4, WordUnits
    <3>2. Wrap(l) = l /\ Wrap(v) = v
      BY <1>3, <3>1, Fits
    <3>3. QED
      BY <1>3, <3>2
  <2>6. Wrap(Upper(v) + ImmI(load_imm(rd, v)[2])) = v
    BY <2>1, <2>3, <2>4, <2>5
  <2>7. QED
    BY <2>1, <2>6 DEF make_addi, IType, Fields
<1>7. QED
  BY <1>5, <1>6

\* Each kind of instruction of the bench, carried out.
Next(h) == Goto(h, h.pc + 4)

LEMMA LuiStep ==
  ASSUME NEW h, NEW rd \in 0 .. 31, NEW v \in Word
  PROVE  execute_instruction(h, load_imm(rd, v)[1], 4) = write_reg(Next(h), rd, Upper(v))
<1>1. PICK i : i = load_imm(rd, v)[1]
  OBVIOUS
<1>2. ImmU(i) = Upper(v) /\ i.opcode = 55 /\ i.rd = rd
  BY <1>1, LoadImmUpper
<1>3. execute_instruction(h, i, 4) = write_reg(Next(h), rd, Upper(v))
  BY <1>2 DEF execute_instruction, Next
<1>4. QED
  BY <1>1, <1>3

LEMMA AddiStep ==
  ASSUME NEW h, NEW rd \in 0 .. 31, NEW v \in Word, h.x[rd] = Upper(v)
  PROVE  execute_instruction(h, load_imm(rd, v)[2], 4) = write_reg(Next(h), rd, v)
<1>1. PICK i : i = load_imm(rd, v)[2]
  OBVIOUS
<1>2. Wrap(Upper(v) + ImmI(i)) = v /\ i.opcode = 19 /\ i.funct3 = 0 /\ i.rd = rd /\ i.rs1 = rd
  BY <1>1, LoadImmLower
<1>3. OpImm(i, Upper(v), h.x[rd]) = v
  BY <1>2 DEF OpImm, Alu
<1>4. execute_instruction(h, i, 4) = write_reg(Next(h), rd, OpImm(i, Upper(v), h.x[rd]))
  BY <1>2 DEF execute_instruction, Next
<1>5. QED
  BY <1>1, <1>3, <1>4

LEMMA MulDivStep ==
  ASSUME NEW h, NEW f \in 0 .. 7
  PROVE  execute_instruction(h, make_muldiv(f, 28, 6, 7), 4)
         = write_reg(Next(h), 28, MulDiv(f, h.x[6], h.x[7]))
<1>1. PICK i : i = make_muldiv(f, 28, 6, 7)
  OBVIOUS
<1>2. i.opcode = 51 /\ i.funct3 = f /\ i.funct7 = 1 /\ i.rd = 28 /\ i.rs1 = 6 /\ i.rs2 = 7
  BY <1>1 DEF make_muldiv, Fields
<1>3. Op(i, h.x[6], h.x[7], h.x[28]) = MulDiv(f, h.x[6], h.x[7])
  BY <1>2 DEF Op
<1>4. execute_instruction(h, i, 4) = write_reg(Next(h), 28, Op(i, h.x[6], h.x[7], h.x[28]))
  BY <1>2 DEF execute_instruction, Next
<1>5. QED
  BY <1>1, <1>3, <1>4

LEMMA StoreValue ==
  ASSUME NEW m \in 0 .. 28
  PROVE  ImmS(make_sw(28, 5, m)) = m
<1>1. (m % 32) + 32 * ((m \div 32) % 128) = m
  OBVIOUS
<1>2. ImmS(make_sw(28, 5, m)) = sign_extend((m % 32) + 32 * ((m \div 32) % 128), 12)
  BY DEF ImmS, make_sw, Fields
<1>3. 2^12 = 4096 /\ 2^(12 - 1) = 2048
  BY PowerTable
<1>4. m \in Nat /\ m < WORD
  BY WordUnits
<1>5. Wrap(m) = m
  BY <1>4, Fits
<1>6. QED
  BY <1>1, <1>2, <1>3, <1>5 DEF sign_extend

LEMMA StoreStep ==
  ASSUME NEW h, NEW m \in 0 .. 28, h.x[28] \in Word
  PROVE  execute_instruction(h, make_sw(28, 5, m), 4) = Request(Next(h), "SW", h.x[5] + m, h.x[28])
<1>1. PICK i : i = make_sw(28, 5, m)
  OBVIOUS
<1>2. i.opcode = 35 /\ i.funct3 = 2 /\ i.rs1 = 5 /\ i.rs2 = 28
  BY <1>1 DEF make_sw, Fields
<1>3. ImmS(i) = m
  BY <1>1, StoreValue
<1>4. h.x[28] % WORD = h.x[28]
  BY WordUnits DEF Word
<1>5. StoreNames[2 + 1] = "SW"
  BY DEF StoreNames
<1>6. execute_instruction(h, i, 4)
      = Request(Next(h), StoreNames[i.funct3 + 1], h.x[i.rs1] + ImmS(i), h.x[i.rs2] % WORD)
  BY <1>2 DEF execute_instruction, Next
<1>7. QED
  BY <1>1, <1>2, <1>3, <1>4, <1>5, <1>6

LEMMA EbreakStep ==
  ASSUME NEW h  PROVE execute_instruction(h, make_ebreak, 4) = Stop(h)
<1>1. make_ebreak.opcode = 115
  BY DEF make_ebreak, IType, Fields
<1>2. QED
  BY <1>1 DEF execute_instruction

\* The instruction the bench is at.
LEMMA Fetch ==
  ASSUME NEW a \in Int, NEW b \in Int, NEW k \in 0 .. 22,
         prog = Layout(build_firmware(a, b))
  PROVE  prog[4 * k].code = build_firmware(a, b)[k + 1] /\ prog[4 * k].bytes = 4
<1>1. PICK p : p = build_firmware(a, b)
  OBVIOUS
<1>2. Len(p) = 23
  BY <1>1, Firmware
<1>3. 4 * k \in {4 * (j - 1) : j \in 1 .. Len(p)}
  <2>1. k + 1 \in 1 .. Len(p) /\ 4 * k = 4 * ((k + 1) - 1)
    BY <1>2
  <2>2. QED
    BY <2>1
<1>4. (4 * k) \div 4 + 1 = k + 1
  OBVIOUS
<1>5. prog[4 * k] = Long(p[k + 1])
  BY <1>1, <1>3, <1>4 DEF Layout
<1>6. QED
  BY <1>1, <1>5 DEF Long

LEMMA BaseType == MMIO_BASE \in Word /\ MMIO_BASE \in Nat /\ MMIO_BASE + 32 <= WORD
BY WidthAssumption, WordUnits DEF Word

\* How far the bench has come: before instruction k the registers hold what the
\* instructions before it loaded, and its own registers the results stored.
Prepared(x, a, b, k) ==
  /\ k = 1 => x[5] = Upper(MMIO_BASE)
  /\ k >= 2 => x[5] = MMIO_BASE
  /\ k = 3 => x[6] = Upper(a)
  /\ k >= 4 => x[6] = a
  /\ k = 5 => x[7] = Upper(b)
  /\ k >= 6 => x[7] = b
Computed(x, a, b, k) == \A f \in 0 .. 7 : k = 2 * f + 7 => x[28] = MulDiv(f, a, b)
Stored(regs, a, b, k) == \A f \in 0 .. 7 : k >= 2 * f + 8 => regs[f] = MulDiv(f, a, b)
BenchAt(a, b, k) ==
  /\ prog = Layout(build_firmware(a, b))
  /\ hart.pc = 4 * k
  /\ Prepared(hart.x, a, b, k) /\ Computed(hart.x, a, b, k) /\ Stored(hw_cfg_reg, a, b, k)
  /\ ~hart.running => k = 22
BenchInv == 0 \in DOMAIN prog => \E a, b \in Word, k \in 0 .. 22 : BenchAt(a, b, k)

LEMMA BenchInit == InsnInit => BenchInv
<1>1. SUFFICES ASSUME InsnInit, 0 \in DOMAIN prog  PROVE \E a, b \in Word, k \in 0 .. 22 : BenchAt(a, b, k)
  BY DEF BenchInv
<1>2. PICK input \in Started : hart = Start(input) /\ prog = input.prog
  BY <1>1 DEF InsnInit
<1>3. input \notin Inputs
  BY <1>1, <1>2, InputsAssumption
<1>4. PICK o \in Operands : input = BenchInput(o[1], o[2])
  BY <1>2, <1>3 DEF Started
<1>5. o[1] \in Word /\ o[2] \in Word
  BY InputsAssumption
<1>6. prog = Layout(build_firmware(o[1], o[2])) /\ hart.pc = 0 /\ hart.running = TRUE
  BY <1>2, <1>4 DEF Start, BenchInput
<1>7. BenchAt(o[1], o[2], 0)
  BY <1>6 DEF BenchAt, Prepared, Computed, Stored
<1>8. 0 \in 0 .. 22
  OBVIOUS
<1>9. QED
  BY <1>5, <1>7, <1>8

LEMMA WriteEffect ==
  ASSUME HartOK(hart), hart.running, NEW r \in 1 .. 31, NEW v, NEW k \in 0 .. 21, hart.pc = 4 * k,
         hart' = write_reg(Next(Quiet), r, v), dpi_mmio_write(hart'.request)
  PROVE  /\ hart'.x = [hart.x EXCEPT ![r] = v] /\ hart'.pc = 4 * (k + 1) /\ hart'.running
         /\ hw_cfg_reg' = hw_cfg_reg
<1>1. Wrap(4 * k + 4) = 4 * (k + 1)
  <2>1. 4 * k + 4 \in Nat /\ 4 * k + 4 < WORD
    BY WordUnits
  <2>2. QED
    BY <2>1, Fits
<1>2. Quiet.x = hart.x /\ Quiet.pc = hart.pc /\ Quiet.running = hart.running
      /\ Quiet.request.op = "none"
  BY DEF Quiet, NoRequest, HartOK, Hart
<1>3. HartOK(Quiet)
  BY QuietOK
<1>4. hart' = [[Quiet EXCEPT !.pc = 4 * (k + 1)] EXCEPT !.x[r] = v]
  <2>1. Next(Quiet) = [Quiet EXCEPT !.pc = 4 * (k + 1)]
    BY <1>1, <1>2 DEF Next, Goto
  <2>2. write_reg(Next(Quiet), r, v) = [Next(Quiet) EXCEPT !.x[r] = v]
    BY DEF write_reg
  <2>3. QED
    BY <2>1, <2>2
<1>5. /\ hart'.x = [hart.x EXCEPT ![r] = v] /\ hart'.pc = 4 * (k + 1) /\ hart'.running
      /\ hart'.request.op = "none"
  BY <1>2, <1>3, <1>4 DEF HartOK, Hart
<1>6. QED
  BY <1>5 DEF dpi_mmio_write

LEMMA StoreEffect ==
  ASSUME HartOK(hart), hart.running, NEW f \in 0 .. 7, NEW k \in 0 .. 21, hart.pc = 4 * k,
         NEW v \in Word, hw_cfg_reg \in [0 .. NRegs - 1 -> Word],
         hart' = Request(Next(Quiet), "SW", MMIO_BASE + 4 * f, v), dpi_mmio_write(hart'.request)
  PROVE  /\ hart'.x = hart.x /\ hart'.pc = 4 * (k + 1) /\ hart'.running
         /\ hw_cfg_reg' = [hw_cfg_reg EXCEPT ![f] = v]
<1>1. Wrap(4 * k + 4) = 4 * (k + 1)
  <2>1. 4 * k + 4 \in Nat /\ 4 * k + 4 < WORD
    BY WordUnits
  <2>2. QED
    BY <2>1, Fits
<1>2. Quiet.x = hart.x /\ Quiet.pc = hart.pc /\ Quiet.running = hart.running
  BY DEF Quiet, NoRequest, HartOK, Hart
<1>3. HartOK(Quiet)
  BY QuietOK
<1>4. Wrap(MMIO_BASE + 4 * f) = MMIO_BASE + 4 * f
  <2>1. MMIO_BASE + 4 * f \in Nat /\ MMIO_BASE + 4 * f < WORD
    BY BaseType, WordUnits
  <2>2. QED
    BY <2>1, Fits
<1>5. hart' = [[Quiet EXCEPT !.pc = 4 * (k + 1)]
                 EXCEPT !.request = [op |-> "SW", addr |-> MMIO_BASE + 4 * f, data |-> v]]
  BY <1>1, <1>2, <1>4 DEF Request, Next, Goto
<1>6. /\ hart'.x = hart.x /\ hart'.pc = 4 * (k + 1) /\ hart'.running
      /\ hart'.request = [op |-> "SW", addr |-> MMIO_BASE + 4 * f, data |-> v]
  BY <1>2, <1>3, <1>5 DEF HartOK, Hart
<1>7. MMIO_BASE + 4 * f >= MMIO_BASE /\ MMIO_BASE + 4 * f < MMIO_BASE + 4 * NRegs
      /\ ((MMIO_BASE + 4 * f) - MMIO_BASE) \div 4 = f
  BY WidthAssumption, BaseType
<1>8. PICK q : q = hart'.request
  OBVIOUS
<1>9. q.op = "SW" /\ q.addr = MMIO_BASE + 4 * f /\ q.data = v
  BY <1>6, <1>8
<1>10. hw_cfg_reg' = [hw_cfg_reg EXCEPT ![(q.addr - MMIO_BASE) \div 4] = q.data]
  BY <1>7, <1>8, <1>9 DEF dpi_mmio_write
<1>11. hw_cfg_reg' = [hw_cfg_reg EXCEPT ![f] = v]
  BY <1>7, <1>9, <1>10
<1>12. QED
  BY <1>6, <1>11

LEMMA BenchLoads ==
  ASSUME InsnInv, NEW a \in Word, NEW b \in Word, NEW k \in 0 .. 5, BenchAt(a, b, k),
         hart.running, prog' = prog, dpi_mmio_write(hart'.request),
         hart' = execute_instruction(Quiet, build_firmware(a, b)[k + 1], 4)
  PROVE  BenchAt(a, b, k + 1)'
<1> DEFINE instruction == build_firmware(a, b)[k + 1]
<1>1. /\ HartOK(hart) /\ hart.x \in [0 .. 31 -> Word] /\ MMIO_BASE \in Word
      /\ 5 \in 0 .. 31 /\ 6 \in 0 .. 31 /\ 7 \in 0 .. 31
      /\ 5 \in 1 .. 31 /\ 6 \in 1 .. 31 /\ 7 \in 1 .. 31
  BY BaseType DEF InsnInv, HartOK, Hart
<1>2. BenchAt(a, b, k) /\ k \in 0 .. 21 /\ hart.pc = 4 * k /\ hart.running /\ prog' = prog
      /\ dpi_mmio_write(hart'.request)
  BY DEF BenchAt
<1>3. BenchAt(a, b, k) /\ Quiet.x = hart.x
  BY <1>1 DEF Quiet, HartOK, Hart
<1>4. hart' = execute_instruction(Quiet, instruction, 4)
  OBVIOUS
<1>5. /\ k = 0 => instruction = load_imm(5, MMIO_BASE)[1]
      /\ k = 1 => instruction = load_imm(5, MMIO_BASE)[2]
      /\ k = 2 => instruction = load_imm(6, a)[1]
      /\ k = 3 => instruction = load_imm(6, a)[2]
      /\ k = 4 => instruction = load_imm(7, b)[1]
      /\ k = 5 => instruction = load_imm(7, b)[2]
  <2>1. a \in Int /\ b \in Int
    BY WordUnits DEF Word
  <2>2. \A j \in {1, 2} : /\ build_firmware(a, b)[j] = load_imm(5, MMIO_BASE)[j]
                          /\ build_firmware(a, b)[j + 2] = load_imm(6, a)[j]
                          /\ build_firmware(a, b)[j + 4] = load_imm(7, b)[j]
    BY <2>1, Firmware
  <2>3. QED
    BY <2>2
<1> HIDE DEF instruction
<1>10. CASE k = 0
  <2>1. instruction = load_imm(5, MMIO_BASE)[1]
    BY <1>5, <1>10
  <2>2. hart' = write_reg(Next(Quiet), 5, Upper(MMIO_BASE))
    BY <1>1, <1>4, <2>1, LuiStep
  <2>3. /\ hart'.x = [hart.x EXCEPT ![5] = Upper(MMIO_BASE)] /\ hart'.pc = 4 * (k + 1) /\ hart'.running
        /\ hw_cfg_reg' = hw_cfg_reg
    BY <1>1, <1>2, <1>10, <2>2, WriteEffect
  <2>4. Prepared(hart'.x, a, b, k + 1)
    BY <1>1, <1>2, <1>10, <2>3 DEF BenchAt, Prepared, HartOK, Hart
  <2>5. QED
    BY <1>2, <1>10, <2>3, <2>4 DEF BenchAt, Computed, Stored
<1>11. CASE k = 1
  <2>1. instruction = load_imm(5, MMIO_BASE)[2]
    BY <1>5, <1>11
  <2>2. Quiet.x[5] = Upper(MMIO_BASE)
    BY <1>1, <1>3, <1>11 DEF BenchAt, Prepared
  <2>3. hart' = write_reg(Next(Quiet), 5, MMIO_BASE)
    BY <1>1, <1>4, <2>1, <2>2, AddiStep
  <2>4. /\ hart'.x = [hart.x EXCEPT ![5] = MMIO_BASE] /\ hart'.pc = 4 * (k + 1) /\ hart'.running
        /\ hw_cfg_reg' = hw_cfg_reg
    BY <1>1, <1>2, <1>11, <2>3, WriteEffect
  <2>5. Prepared(hart'.x, a, b, k + 1)
    BY <1>1, <1>2, <1>11, <2>4 DEF BenchAt, Prepared, HartOK, Hart
  <2>6. QED
    BY <1>2, <1>11, <2>4, <2>5 DEF BenchAt, Computed, Stored
<1>12. CASE k = 2
  <2>1. instruction = load_imm(6, a)[1]
    BY <1>5, <1>12
  <2>2. hart' = write_reg(Next(Quiet), 6, Upper(a))
    BY <1>1, <1>4, <2>1, LuiStep
  <2>3. /\ hart'.x = [hart.x EXCEPT ![6] = Upper(a)] /\ hart'.pc = 4 * (k + 1) /\ hart'.running
        /\ hw_cfg_reg' = hw_cfg_reg
    BY <1>1, <1>2, <1>12, <2>2, WriteEffect
  <2>4. Prepared(hart'.x, a, b, k + 1)
    BY <1>1, <1>2, <1>12, <2>3 DEF BenchAt, Prepared, HartOK, Hart
  <2>5. QED
    BY <1>2, <1>12, <2>3, <2>4 DEF BenchAt, Computed, Stored
<1>13. CASE k = 3
  <2>1. instruction = load_imm(6, a)[2]
    BY <1>5, <1>13
  <2>2. Quiet.x[6] = Upper(a)
    BY <1>1, <1>3, <1>13 DEF BenchAt, Prepared
  <2>3. hart' = write_reg(Next(Quiet), 6, a)
    BY <1>1, <1>4, <2>1, <2>2, AddiStep
  <2>4. /\ hart'.x = [hart.x EXCEPT ![6] = a] /\ hart'.pc = 4 * (k + 1) /\ hart'.running
        /\ hw_cfg_reg' = hw_cfg_reg
    BY <1>1, <1>2, <1>13, <2>3, WriteEffect
  <2>5. Prepared(hart'.x, a, b, k + 1)
    BY <1>1, <1>2, <1>13, <2>4 DEF BenchAt, Prepared, HartOK, Hart
  <2>6. QED
    BY <1>2, <1>13, <2>4, <2>5 DEF BenchAt, Computed, Stored
<1>14. CASE k = 4
  <2>1. instruction = load_imm(7, b)[1]
    BY <1>5, <1>14
  <2>2. hart' = write_reg(Next(Quiet), 7, Upper(b))
    BY <1>1, <1>4, <2>1, LuiStep
  <2>3. /\ hart'.x = [hart.x EXCEPT ![7] = Upper(b)] /\ hart'.pc = 4 * (k + 1) /\ hart'.running
        /\ hw_cfg_reg' = hw_cfg_reg
    BY <1>1, <1>2, <1>14, <2>2, WriteEffect
  <2>4. Prepared(hart'.x, a, b, k + 1)
    BY <1>1, <1>2, <1>14, <2>3 DEF BenchAt, Prepared, HartOK, Hart
  <2>5. QED
    BY <1>2, <1>14, <2>3, <2>4 DEF BenchAt, Computed, Stored
<1>15. CASE k = 5
  <2>1. instruction = load_imm(7, b)[2]
    BY <1>5, <1>15
  <2>2. Quiet.x[7] = Upper(b)
    BY <1>1, <1>3, <1>15 DEF BenchAt, Prepared
  <2>3. hart' = write_reg(Next(Quiet), 7, b)
    BY <1>1, <1>4, <2>1, <2>2, AddiStep
  <2>4. /\ hart'.x = [hart.x EXCEPT ![7] = b] /\ hart'.pc = 4 * (k + 1) /\ hart'.running
        /\ hw_cfg_reg' = hw_cfg_reg
    BY <1>1, <1>2, <1>15, <2>3, WriteEffect
  <2>5. Prepared(hart'.x, a, b, k + 1)
    BY <1>1, <1>2, <1>15, <2>4 DEF BenchAt, Prepared, HartOK, Hart
  <2>6. QED
    BY <1>2, <1>15, <2>4, <2>5 DEF BenchAt, Computed, Stored
<1>20. QED
  BY <1>10, <1>11, <1>12, <1>13, <1>14, <1>15

LEMMA BenchOperations ==
  ASSUME InsnInv, NEW a \in Word, NEW b \in Word, NEW k \in 6 .. 21, BenchAt(a, b, k),
         hart.running, prog' = prog, dpi_mmio_write(hart'.request),
         hart' = execute_instruction(Quiet, build_firmware(a, b)[k + 1], 4)
  PROVE  BenchAt(a, b, k + 1)'
<1> DEFINE instruction == build_firmware(a, b)[k + 1]
<1>1. /\ HartOK(hart) /\ hart.x \in [0 .. 31 -> Word] /\ hw_cfg_reg \in [0 .. NRegs - 1 -> Word]
      /\ 5 \in 0 .. 31 /\ 6 \in 0 .. 31 /\ 7 \in 0 .. 31 /\ 28 \in 0 .. 31
  BY DEF InsnInv, HartOK, Hart
<1>2. /\ k \in 0 .. 21 /\ hart.pc = 4 * k /\ hart.running /\ prog' = prog
      /\ prog = Layout(build_firmware(a, b))
      /\ hart.x[5] = MMIO_BASE /\ hart.x[6] = a /\ hart.x[7] = b
  BY DEF BenchAt, Prepared
<1>3. Quiet.x = hart.x
  BY <1>1 DEF Quiet, HartOK, Hart
<1>4. Computed(hart.x, a, b, k) /\ Stored(hw_cfg_reg, a, b, k)
  BY DEF BenchAt
<1>5. instruction = Operation(k - 5)
  <2>1. a \in Int /\ b \in Int
    BY WordUnits DEF Word
  <2>2. \A n \in 1 .. 16 : build_firmware(a, b)[n + 6] = Operation(n)
    BY <2>1, Firmware
  <2>3. k - 5 \in 1 .. 16 /\ (k - 5) + 6 = k + 1
    OBVIOUS
  <2>4. QED
    BY <2>2, <2>3
<1>6. hart' = execute_instruction(Quiet, instruction, 4)
  OBVIOUS
<1> HIDE DEF instruction
<1>7. CASE k % 2 = 0
  <2>1. PICK f \in 0 .. 7 : k = 2 * f + 6
    <3>1. (k \div 2) - 3 \in 0 .. 7 /\ k = 2 * ((k \div 2) - 3) + 6
      BY <1>7
    <3>2. QED
      BY <3>1
  <2>2. instruction = make_muldiv(f, 28, 6, 7)
    <3>1. (k - 5) % 2 = 1 /\ (k - 5) \div 2 = f
      BY <2>1
    <3>2. QED
      BY <1>5, <3>1 DEF Operation
  <2>3. hart' = write_reg(Next(Quiet), 28, MulDiv(f, a, b))
    BY <1>2, <1>3, <1>6, <2>2, MulDivStep
  <2>4. 28 \in 1 .. 31
    OBVIOUS
  <2>5. /\ hart'.x = [hart.x EXCEPT ![28] = MulDiv(f, a, b)] /\ hart'.pc = 4 * (k + 1)
        /\ hart'.running /\ hw_cfg_reg' = hw_cfg_reg
    BY <1>1, <1>2, <2>3, <2>4, WriteEffect
  <2>6. Prepared(hart'.x, a, b, k + 1)
    <3>0. \A r \in 0 .. 31 : r # 28 => hart'.x[r] = hart.x[r]
      BY <1>1, <2>5
    <3>1. hart'.x[5] = hart.x[5] /\ hart'.x[6] = hart.x[6] /\ hart'.x[7] = hart.x[7]
      BY <1>1, <3>0
    <3>2. k + 1 >= 6
      OBVIOUS
    <3>3. QED
      BY <1>2, <3>1, <3>2 DEF Prepared
  <2>7. Computed(hart'.x, a, b, k + 1)
    <3>1. hart'.x[28] = MulDiv(f, a, b)
      BY <1>1, <2>5
    <3>2. \A g \in 0 .. 7 : k + 1 = 2 * g + 7 => g = f
      BY <2>1
    <3>3. QED
      BY <3>1, <3>2 DEF Computed
  <2>8. Stored(hw_cfg_reg', a, b, k + 1)
    <3>1. \A g \in 0 .. 7 : k + 1 >= 2 * g + 8 => k >= 2 * g + 8
      BY <2>1
    <3>2. QED
      BY <1>4, <2>5, <3>1 DEF Stored
  <2>9. QED
    BY <1>2, <2>5, <2>6, <2>7, <2>8 DEF BenchAt
<1>8. CASE k % 2 = 1
  <2>1. PICK f \in 0 .. 7 : k = 2 * f + 7
    <3>1. ((k - 1) \div 2) - 3 \in 0 .. 7 /\ k = 2 * (((k - 1) \div 2) - 3) + 7
      BY <1>8
    <3>2. QED
      BY <3>1
  <2>2. instruction = make_sw(28, 5, 4 * f)
    <3>1. (k - 5) % 2 # 1 /\ (k - 5) \div 2 - 1 = f
      BY <2>1
    <3>2. QED
      BY <1>5, <3>1 DEF Operation
  <2>3. PICK v \in Word : v = hart.x[28]
    <3>1. hart.x[28] \in Word
      BY <1>1
    <3>2. QED
      BY <3>1
  <2>4. v = MulDiv(f, a, b)
    BY <1>4, <2>1, <2>3 DEF Computed
  <2>5. hart' = Request(Next(Quiet), "SW", MMIO_BASE + 4 * f, v)
    <3>1. PICK m \in 0 .. 28 : m = 4 * f
      OBVIOUS
    <3>2. execute_instruction(Quiet, make_sw(28, 5, m), 4)
          = Request(Next(Quiet), "SW", Quiet.x[5] + m, Quiet.x[28])
      BY <1>3, <2>3, StoreStep
    <3>3. QED
      BY <1>2, <1>3, <1>6, <2>2, <2>3, <3>1, <3>2
  <2>6. /\ hart'.x = hart.x /\ hart'.pc = 4 * (k + 1) /\ hart'.running
        /\ hw_cfg_reg' = [hw_cfg_reg EXCEPT ![f] = v]
    BY <1>1, <1>2, <2>5, StoreEffect
  <2>7. Prepared(hart'.x, a, b, k + 1)
    BY <1>2, <2>6 DEF Prepared
  <2>8. Computed(hart'.x, a, b, k + 1)
    <3>1. \A g \in 0 .. 7 : k + 1 # 2 * g + 7
      BY <2>1
    <3>2. QED
      BY <3>1 DEF Computed
  <2>9. Stored(hw_cfg_reg', a, b, k + 1)
    <3>1. ASSUME NEW g \in 0 .. 7, k + 1 >= 2 * g + 8  PROVE hw_cfg_reg'[g] = MulDiv(g, a, b)
      <4>0. g \in 0 .. NRegs - 1
        BY WidthAssumption
      <4>1. CASE g = f
        BY <1>1, <2>4, <2>6, <4>0, <4>1
      <4>2. CASE g # f
        <5>1. k >= 2 * g + 8
          BY <2>1, <3>1, <4>2
        <5>2. hw_cfg_reg[g] = MulDiv(g, a, b)
          BY <1>4, <5>1 DEF Stored
        <5>3. QED
          BY <1>1, <2>6, <4>0, <4>2, <5>2
      <4>3. QED
        BY <4>1, <4>2
    <3>2. QED
      BY <3>1 DEF Stored
  <2>10. QED
    BY <1>2, <2>6, <2>7, <2>8, <2>9 DEF BenchAt
<1>9. QED
  BY <1>7, <1>8

LEMMA BenchStep == InsnInv /\ BenchInv /\ [InsnNext]_insnVars => BenchInv'
<1>1. SUFFICES ASSUME InsnInv, BenchInv, [InsnNext]_insnVars, 0 \in DOMAIN prog'
               PROVE  \E a, b \in Word, k \in 0 .. 22 : BenchAt(a, b, k)'
  BY DEF BenchInv
<1>2. CASE UNCHANGED insnVars
  BY <1>1, <1>2 DEF BenchInv, BenchAt, insnVars
<1>3. CASE InsnNext
  <2>1. prog' = prog /\ dpi_mmio_write(hart'.request)
    BY <1>3 DEF InsnNext
  <2>2. PICK a \in Word, b \in Word, k \in 0 .. 22 : BenchAt(a, b, k)
    BY <1>1, <2>1 DEF BenchInv
  <2>3. a \in Int /\ b \in Int
    BY WordUnits DEF Word
  <2>4. hart.pc = 4 * k /\ prog = Layout(build_firmware(a, b))
    BY <2>2 DEF BenchAt
  <2>5. prog[hart.pc].code = build_firmware(a, b)[k + 1] /\ prog[hart.pc].bytes = 4
    BY <2>3, <2>4, Fetch
  <2>6. hart.running /\ hart' = execute_instruction(Quiet, build_firmware(a, b)[k + 1], 4)
    BY <1>3, <2>5 DEF InsnNext, StepLong, StepShort, Running
  <2>7. CASE k \in 0 .. 5
    <3>1. BenchAt(a, b, k + 1)'
      BY <1>1, <2>1, <2>2, <2>6, <2>7, BenchLoads
    <3>2. k + 1 \in 0 .. 22
      BY <2>7
    <3>3. QED
      BY <3>1, <3>2
  <2>8. CASE k \in 6 .. 21
    <3>1. BenchAt(a, b, k + 1)'
      BY <1>1, <2>1, <2>2, <2>6, <2>8, BenchOperations
    <3>2. k + 1 \in 0 .. 22
      BY <2>8
    <3>3. QED
      BY <3>1, <3>2
  <2>9. CASE k = 22
    <3>1. build_firmware(a, b)[k + 1] = make_ebreak
      BY <2>3, <2>9, Firmware
    <3>2. hart' = Stop(Quiet)
      BY <2>6, <3>1, EbreakStep
    <3>3. Quiet.x = hart.x /\ Quiet.pc = hart.pc /\ Quiet.request.op = "none" /\ HartOK(Quiet)
      BY <1>1, QuietOK DEF Quiet, NoRequest, InsnInv, HartOK, Hart
    <3>4. hart'.x = hart.x /\ hart'.pc = hart.pc /\ hart'.request.op = "none"
      BY <3>2, <3>3 DEF Stop, HartOK, Hart
    <3>5. hw_cfg_reg' = hw_cfg_reg
      BY <2>1, <3>4 DEF dpi_mmio_write
    <3>6. BenchAt(a, b, k)'
      BY <2>1, <2>2, <2>9, <3>4, <3>5 DEF BenchAt
    <3>7. QED
      BY <3>6
  <2>10. QED
    BY <2>7, <2>8, <2>9
<1>4. QED
  BY <1>1, <1>2, <1>3

-----------------------------------------------------------------------------
(* The laws of the results.                                                *)

Half == WORD \div 2

LEMMA HalfWord == Half \in Nat /\ Half >= 4096 /\ WORD = 2 * Half /\ WORD \in Nat
BY SMT, WordSizes DEF Half

LEMMA SignedRange ==
  ASSUME NEW v \in Word
  PROVE  /\ Signed(v) \in Int /\ -Half <= Signed(v) /\ Signed(v) <= Half - 1
         /\ v \in Nat /\ v < WORD
         /\ Signed(v) < 0 => v = Signed(v) + WORD
         /\ Signed(v) >= 0 => v = Signed(v)
BY SMT, HalfWord DEF Signed, Word, Half

\* A number is a multiple of the size of a word and a word.
LEMMA Divided ==
  ASSUME NEW n \in Int
  PROVE  n \div WORD \in Int /\ Wrap(n) \in Int /\ n = WORD * (n \div WORD) + Wrap(n)
BY SMT, WordSizes DEF Wrap, Word

LEMMA WrapMultiple ==
  ASSUME NEW n \in Int, NEW m \in Int  PROVE Wrap(n + WORD * m) = Wrap(n)
BY SMT, WordSizes DEF Wrap

LEMMA SignedWrap ==
  ASSUME NEW n \in Int, -Half <= n, n <= Half - 1  PROVE Signed(Wrap(n)) = n
BY SMT, WordSizes DEF Wrap, Signed, Half

LEMMA WrapSigned ==
  ASSUME NEW v \in Word  PROVE Wrap(Signed(v)) = v
BY SMT, WordSizes DEF Wrap, Signed, Word

LEMMA UpperRange ==
  ASSUME NEW n \in Int, -(Half * WORD) <= n, n < Half * WORD
  PROVE  -Half <= n \div WORD /\ n \div WORD <= Half - 1
BY SMT, WordSizes DEF Half

\* Products of words, read as signed or as unsigned.
LEMMA ProductRange ==
  ASSUME NEW p \in Int, NEW q \in Int, NEW h \in Nat, NEW w \in Nat,
         -h <= p, p <= h - 1, -w <= q, q <= w - 1
  PROVE  p * q \in Int /\ -(h * w) <= p * q /\ p * q <= h * w
<1>1. CASE p >= 0
  <2>1. p * q <= p * w
    BY <1>1
  <2>2. p * q >= -(p * w)
    BY <1>1
  <2>3. p * w <= h * w
    BY <1>1
  <2>4. QED
    BY <2>1, <2>2, <2>3
<1>2. CASE p < 0
  <2>1. p * q <= (-p) * w
    BY <1>2
  <2>2. p * q >= -((-p) * w)
    BY <1>2
  <2>3. (-p) * w <= h * w
    BY <1>2
  <2>4. QED
    BY <2>1, <2>2, <2>3
<1>3. QED
  BY <1>1, <1>2

\* An upper product completes the lower one: n is the product as the upper one
\* reads its operands, m as the lower one does.
LEMMA UpperSigned ==
  ASSUME NEW n \in Int, -(Half * WORD) <= n, n < Half * WORD
  PROVE  Signed(Wrap(n \div WORD)) * WORD + Wrap(n) = n
<1>1. n \div WORD \in Int /\ Wrap(n) \in Int /\ n = WORD * (n \div WORD) + Wrap(n)
  BY Divided
<1>2. Signed(Wrap(n \div WORD)) = n \div WORD
  BY <1>1, UpperRange, SignedWrap
<1>3. QED
  BY <1>1, <1>2, HalfWord

LEMMA MulLaw ==
  ASSUME NEW a \in Word, NEW b \in Word
  PROVE  /\ Signed(MulDiv(1, a, b)) * WORD + MulDiv(0, a, b) = Signed(a) * Signed(b)
         /\ Signed(MulDiv(2, a, b)) * WORD + MulDiv(0, a, b) = Signed(a) * b
         /\ MulDiv(3, a, b) * WORD + MulDiv(0, a, b) = a * b
<1>1. PICK p \in Int : p = Signed(a)
  BY SignedRange
<1>2. PICK q \in Int : q = Signed(b)
  BY SignedRange
<1>3. PICK h \in Nat : h = Half /\ WORD = 2 * h /\ h >= 1
  BY HalfWord
<1>4. /\ -h <= p /\ p <= h - 1 /\ -h <= q /\ q <= h - 1 /\ a \in Nat /\ b \in Nat /\ b < WORD
  BY <1>1, <1>2, <1>3, SignedRange
<1>5. (a = p \/ a = p + WORD) /\ (b = q \/ b = q + WORD)
  BY <1>1, <1>2, <1>3, <1>4, SignedRange
<1>6. WORD \in Nat
  BY HalfWord
<1>7. /\ MulDiv(0, a, b) = Wrap(p * q) /\ MulDiv(1, a, b) = Wrap((p * q) \div WORD)
      /\ MulDiv(2, a, b) = Wrap((p * b) \div WORD) /\ MulDiv(3, a, b) = (a * b) \div WORD
  BY <1>1, <1>2 DEF MulDiv
<1>8. p * q \in Int /\ p * b \in Int /\ a * b \in Int
  BY <1>4
<1>9. Signed(MulDiv(1, a, b)) * WORD + MulDiv(0, a, b) = p * q
  <2>1. -(h * h) <= p * q /\ p * q <= h * h
    BY <1>4, ProductRange
  <2>2. h * WORD = h * h + h * h /\ h * h >= 1
    BY <1>3
  <2>3. -(Half * WORD) <= p * q /\ p * q < Half * WORD
    BY <1>3, <1>6, <1>8, <2>1, <2>2
  <2>4. Signed(Wrap((p * q) \div WORD)) * WORD + Wrap(p * q) = p * q
    BY <1>8, <2>3, UpperSigned
  <2>5. QED
    BY <1>7, <2>4
<1>10. Wrap(p * b) = Wrap(p * q)
  <2>1. CASE b = q
    BY <2>1
  <2>2. CASE b = q + WORD
    <3>1. p * b = p * q + WORD * p
      BY <1>6, <2>2
    <3>2. QED
      BY <1>8, <3>1, WrapMultiple
  <2>3. QED
    BY <1>5, <2>1, <2>2
<1>11. Wrap(a * b) = Wrap(p * b)
  <2>1. CASE a = p
    BY <2>1
  <2>2. CASE a = p + WORD
    <3>1. a * b = p * b + WORD * b
      BY <1>4, <1>6, <2>2
    <3>2. b \in Int
      BY <1>4
    <3>3. QED
      BY <1>8, <3>1, <3>2, WrapMultiple
  <2>3. QED
    BY <1>5, <2>1, <2>2
<1>12. Signed(MulDiv(2, a, b)) * WORD + MulDiv(0, a, b) = p * b
  <2>1. -(h * WORD) <= p * b /\ p * b < h * WORD
    <3>1. CASE p >= 0
      <4>1. p * b <= p * WORD /\ p * b >= 0
        BY <1>4, <1>6, <3>1
      <4>2. (h - p) * WORD >= 1 /\ (h - p) * WORD = h * WORD - p * WORD /\ h * WORD >= 0
        BY <1>3, <1>4, <1>6
      <4>3. h * WORD \in Int /\ p * WORD \in Int
        BY <1>6
      <4>4. QED
        BY <1>8, <4>1, <4>2, <4>3
    <3>2. CASE p < 0
      <4>1. (-p) * b <= (-p) * WORD /\ (-p) * b >= 0
        BY <1>4, <1>6, <3>2
      <4>2. (h + p) * WORD >= 0 /\ (h + p) * WORD = h * WORD - (-p) * WORD /\ h * WORD >= 1
        BY <1>3, <1>4, <1>6
      <4>3. h * WORD \in Int /\ (-p) * WORD \in Int /\ (-p) * b \in Int /\ (-p) * b = -(p * b)
        BY <1>4, <1>6
      <4>4. QED
        BY <1>8, <4>1, <4>2, <4>3
    <3>3. QED
      BY <3>1, <3>2
  <2>2. -(Half * WORD) <= p * b /\ p * b < Half * WORD
    BY <1>3, <2>1
  <2>3. Signed(Wrap((p * b) \div WORD)) * WORD + Wrap(p * b) = p * b
    BY <1>8, <2>2, UpperSigned
  <2>4. QED
    BY <1>7, <1>10, <2>3
<1>13. MulDiv(3, a, b) * WORD + MulDiv(0, a, b) = a * b
  <2>1. (a * b) \div WORD \in Int /\ Wrap(a * b) \in Int
        /\ a * b = WORD * ((a * b) \div WORD) + Wrap(a * b)
    BY <1>8, Divided
  <2>2. QED
    BY <1>6, <1>7, <1>10, <1>11, <2>1
<1>14. QED
  BY <1>1, <1>2, <1>9, <1>12, <1>13

\* Division towards zero, of numbers without a sign.
LEMMA NatDivision ==
  ASSUME NEW m \in Nat, NEW n \in Nat, n > 0
  PROVE  /\ m \div n \in Nat /\ m % n \in Nat /\ m % n < n
         /\ m = n * (m \div n) + (m % n) /\ m \div n <= m
OBVIOUS

LEMMA TowardsZero ==
  ASSUME NEW p \in Int, NEW q \in Int, q # 0
  PROVE  /\ Quotient(p, q) \in Int /\ Remainder(p, q) \in Int
         /\ Remainder(p, q) = p - q * Quotient(p, q)
         /\ Abs(Remainder(p, q)) < Abs(q)
         /\ Remainder(p, q) = 0 \/ (Remainder(p, q) < 0) = (p < 0)
         /\ -Abs(p) <= Quotient(p, q) /\ Quotient(p, q) <= Abs(p)
<1>1. PICK m \in Nat : m = Abs(p)
  BY DEF Abs
<1>2. PICK n \in Nat : n = Abs(q) /\ n > 0
  BY DEF Abs
<1>3. PICK d \in Nat : d = m \div n
  BY <1>2, NatDivision
<1>4. PICK r \in Nat : r = m % n
  BY <1>2, NatDivision
<1>5. r < n /\ m = n * d + r /\ d <= m
  BY <1>2, <1>3, <1>4, NatDivision
<1>6. Quotient(p, q) = IF (p < 0) = (q < 0) THEN d ELSE -d
  BY <1>1, <1>2, <1>3 DEF Quotient
<1>7. Remainder(p, q) = IF p < 0 THEN -r ELSE r
  <2>1. CASE p < 0 /\ q < 0
    <3>1. p = -m /\ q = -n /\ Quotient(p, q) = d
      BY <1>1, <1>2, <1>6, <2>1 DEF Abs
    <3>2. (-m) - (-n) * d = -r
      BY <1>5
    <3>3. QED
      BY <2>1, <3>1, <3>2 DEF Remainder
  <2>2. CASE p < 0 /\ ~(q < 0)
    <3>1. p = -m /\ q = n /\ Quotient(p, q) = -d
      BY <1>1, <1>2, <1>6, <2>2 DEF Abs
    <3>2. (-m) - n * (-d) = -r
      BY <1>5
    <3>3. QED
      BY <2>2, <3>1, <3>2 DEF Remainder
  <2>3. CASE ~(p < 0) /\ q < 0
    <3>1. p = m /\ q = -n /\ Quotient(p, q) = -d
      BY <1>1, <1>2, <1>6, <2>3 DEF Abs
    <3>2. m - (-n) * (-d) = r
      BY <1>5
    <3>3. QED
      BY <2>3, <3>1, <3>2 DEF Remainder
  <2>4. CASE ~(p < 0) /\ ~(q < 0)
    <3>1. p = m /\ q = n /\ Quotient(p, q) = d
      BY <1>1, <1>2, <1>6, <2>4 DEF Abs
    <3>2. m - n * d = r
      BY <1>5
    <3>3. QED
      BY <2>4, <3>1, <3>2 DEF Remainder
  <2>5. QED
    BY <2>1, <2>2, <2>3, <2>4
<1>8. Remainder(p, q) = p - q * Quotient(p, q)
  BY DEF Remainder
<1>9. Abs(Remainder(p, q)) = r
  BY <1>7 DEF Abs
<1>10. Remainder(p, q) = 0 \/ (Remainder(p, q) < 0) = (p < 0)
  BY <1>7
<1>11. Quotient(p, q) \in Int /\ -m <= Quotient(p, q) /\ Quotient(p, q) <= m
  BY <1>5, <1>6
<1>12. Remainder(p, q) \in Int
  BY <1>7
<1>13. QED
  BY <1>1, <1>2, <1>5, <1>8, <1>9, <1>10, <1>11, <1>12

LEMMA SignedMultiple ==
  ASSUME NEW n \in Int  PROVE \E z \in Int : Signed(Wrap(n)) = n + WORD * z
<1>1. PICK d \in Int : d = n \div WORD
  BY Divided
<1>2. PICK v \in Word : v = Wrap(n)
  BY WrapType
<1>3. n = WORD * d + v /\ v \in Int
  BY <1>1, <1>2, Divided
<1>4. WORD \in Nat
  BY HalfWord
<1>5. CASE Signed(v) < 0
  <2>1. Signed(v) \in Int /\ v = Signed(v) + WORD
    BY <1>5, SignedRange
  <2>2. Signed(v) = n + WORD * (-d - 1) /\ -d - 1 \in Int
    BY <1>3, <1>4, <2>1
  <2>3. QED
    BY <1>2, <2>2
<1>6. CASE Signed(v) >= 0
  <2>1. v = Signed(v)
    BY <1>6, SignedRange
  <2>2. v = n + WORD * (-d) /\ -d \in Int
    BY <1>3, <1>4
  <2>3. QED
    BY <1>2, <2>1, <2>2
<1>7. QED
  BY <1>5, <1>6, SignedRange

LEMMA DivLaw ==
  ASSUME NEW a \in Word, NEW b \in Word, b # 0
  PROVE  /\ a = MulDiv(5, a, b) * b + MulDiv(7, a, b) /\ MulDiv(7, a, b) < b
         /\ a = Wrap(Signed(MulDiv(4, a, b)) * Signed(b) + Signed(MulDiv(6, a, b)))
         /\ Abs(Signed(MulDiv(6, a, b))) < Abs(Signed(b))
         /\ MulDiv(6, a, b) = 0 \/ (Signed(MulDiv(6, a, b)) < 0) = (Signed(a) < 0)
<1>1. PICK p \in Int : p = Signed(a)
  BY SignedRange
<1>2. PICK q \in Int : q = Signed(b)
  BY SignedRange
<1>3. PICK h \in Nat : h = Half /\ WORD = 2 * h /\ h >= 1
  BY HalfWord
<1>4. /\ -h <= p /\ p <= h - 1 /\ -h <= q /\ q <= h - 1 /\ a \in Nat /\ b \in Nat
  BY <1>1, <1>2, <1>3, SignedRange
<1>5. q # 0
  BY <1>2, SignedRange
<1>6. PICK Q \in Int : Q = Quotient(p, q)
  BY <1>5, TowardsZero
<1>7. PICK R \in Int : R = Remainder(p, q)
  BY <1>5, TowardsZero
<1>8. R = p - q * Q /\ Abs(R) < Abs(q) /\ (R = 0 \/ (R < 0) = (p < 0))
  BY <1>5, <1>6, <1>7, TowardsZero
<1>9. /\ MulDiv(4, a, b) = Wrap(Q) /\ MulDiv(6, a, b) = Wrap(R)
      /\ MulDiv(5, a, b) = a \div b /\ MulDiv(7, a, b) = a % b
  BY <1>1, <1>2, <1>6, <1>7 DEF MulDiv
<1>10. a = MulDiv(5, a, b) * b + MulDiv(7, a, b) /\ MulDiv(7, a, b) < b
  <2>1. /\ a \div b \in Nat /\ a % b \in Nat /\ a % b < b /\ a = b * (a \div b) + (a % b)
    BY <1>4, NatDivision
  <2>2. PICK d \in Nat : d = MulDiv(5, a, b) /\ d = a \div b
    BY <1>9, <2>1
  <2>3. PICK r \in Nat : r = MulDiv(7, a, b) /\ r = a % b
    BY <1>9, <2>1
  <2>4. b * d = d * b
    BY <1>4
  <2>5. r < b /\ a = d * b + r
    BY <2>1, <2>2, <2>3, <2>4
  <2>6. QED
    BY <2>2, <2>3, <2>5
<1>11. Signed(MulDiv(6, a, b)) = R
  <2>1. -h <= R /\ R <= h - 1
    BY <1>4, <1>8 DEF Abs
  <2>2. QED
    BY <1>3, <1>9, <2>1, SignedWrap
<1>12. a = Wrap(Signed(MulDiv(4, a, b)) * q + Signed(MulDiv(6, a, b)))
  <2>1. PICK z \in Int : Signed(Wrap(Q)) = Q + WORD * z
    BY SignedMultiple
  <2>2. WORD \in Int
    BY HalfWord
  <2>3. (Q + WORD * z) * q + R = p + WORD * (z * q) /\ z * q \in Int
    BY <1>8, <2>2
  <2>4. Wrap(p + WORD * (z * q)) = Wrap(p)
    BY <2>3, WrapMultiple
  <2>5. Wrap(p) = a
    BY <1>1, WrapSigned
  <2>6. QED
    BY <1>9, <1>11, <2>1, <2>3, <2>4, <2>5
<1>13. MulDiv(6, a, b) = 0 \/ (R < 0) = (p < 0)
  <2>1. Wrap(0) = 0
    BY HalfWord, Fits
  <2>2. QED
    BY <1>8, <1>9, <2>1
<1>14. QED
  BY <1>1, <1>2, <1>8, <1>10, <1>11, <1>12, <1>13

LEMMA DivByZero ==
  ASSUME NEW a, NEW b, b = 0
  PROVE  /\ MulDiv(4, a, b) = WORD - 1 /\ MulDiv(5, a, b) = WORD - 1
         /\ MulDiv(6, a, b) = a /\ MulDiv(7, a, b) = a
BY DEF MulDiv

LEMMA LawsHold == InsnInv /\ BenchInv => MulDivLaws
<1>1. SUFFICES ASSUME InsnInv, BenchInv, ~hart.running, 0 \in DOMAIN prog  PROVE MulDivLaws
  BY DEF MulDivLaws
<1>2. PICK a \in Word, b \in Word, k \in 0 .. 22 : BenchAt(a, b, k)
  BY <1>1 DEF BenchInv
<1>3. k = 22
  BY <1>1, <1>2 DEF BenchAt
<1>4. hart.x[6] = a /\ hart.x[7] = b /\ prog = Layout(build_firmware(a, b))
  BY <1>2, <1>3 DEF BenchAt, Prepared
<1>5. \A f \in 0 .. 7 : hw_cfg_reg[f] = MulDiv(f, a, b)
  <2>1. Stored(hw_cfg_reg, a, b, k)
    BY <1>2 DEF BenchAt
  <2>2. \A f \in 0 .. 7 : k >= 2 * f + 8
    BY <1>3
  <2>3. QED
    BY <2>1, <2>2 DEF Stored
<1>6. /\ hw_cfg_reg[0] = MulDiv(0, a, b) /\ hw_cfg_reg[1] = MulDiv(1, a, b)
      /\ hw_cfg_reg[2] = MulDiv(2, a, b) /\ hw_cfg_reg[3] = MulDiv(3, a, b)
      /\ hw_cfg_reg[4] = MulDiv(4, a, b) /\ hw_cfg_reg[5] = MulDiv(5, a, b)
      /\ hw_cfg_reg[6] = MulDiv(6, a, b) /\ hw_cfg_reg[7] = MulDiv(7, a, b)
  BY <1>5
<1>7. QED
  BY <1>4, <1>6, MulLaw, DivLaw, DivByZero DEF MulDivLaws

\* For every pair of operands and every width of a word, the bench's program loads
\* them and leaves results in its registers that fit each other and the operands.
\* BenchInv follows the program instruction by instruction; the rest is
\* arithmetic on MulDiv.
THEOREM MulDivLawsCorrect == InsnSpec => []MulDivLaws
<1>1. InsnInit => InsnInv /\ BenchInv
  BY InsnInvInit, BenchInit
<1>2. InsnInv /\ BenchInv /\ [InsnNext]_insnVars => (InsnInv /\ BenchInv)'
  BY InsnInvStep, BenchStep
<1>3. InsnInv /\ BenchInv => MulDivLaws
  BY LawsHold
<1>4. QED
  BY <1>1, <1>2, <1>3, PTL DEF InsnSpec

-----------------------------------------------------------------------------
(* 16-bit instructions against the manual's table.                         *)

\* A field is its bits, and so are the positions the manual's tables list.
LEMMA BitTable ==
  ASSUME NEW c \in Insn16
  PROVE  /\ Field(c, 2, 1) = (c \div 4) % 2 /\ Field(c, 3, 1) = (c \div 8) % 2
         /\ Field(c, 4, 1) = (c \div 16) % 2 /\ Field(c, 5, 1) = (c \div 32) % 2
         /\ Field(c, 6, 1) = (c \div 64) % 2 /\ Field(c, 7, 1) = (c \div 128) % 2
         /\ Field(c, 8, 1) = (c \div 256) % 2 /\ Field(c, 9, 1) = (c \div 512) % 2
         /\ Field(c, 10, 1) = (c \div 1024) % 2 /\ Field(c, 11, 1) = (c \div 2048) % 2
         /\ Field(c, 12, 1) = (c \div 4096) % 2
BY PowerTable DEF Field

LEMMA FieldTable ==
  ASSUME NEW c \in Insn16
  PROVE  /\ Field(c, 2, 5) = (c \div 4) % 32 /\ Field(c, 7, 5) = (c \div 128) % 32
         /\ Field(c, 7, 3) = (c \div 128) % 8 /\ Field(c, 2, 3) = (c \div 4) % 8
         /\ Field(c, 10, 3) = (c \div 1024) % 8 /\ Field(c, 3, 3) = (c \div 8) % 8
         /\ Field(c, 5, 2) = (c \div 32) % 4 /\ Field(c, 10, 2) = (c \div 1024) % 4
         /\ Field(c, 9, 2) = (c \div 512) % 4 /\ Field(c, 3, 2) = (c \div 8) % 4
BY PowerTable DEF Field

LEMMA FieldBits ==
  ASSUME NEW c \in Insn16
  PROVE  /\ Field(c, 2, 5) = Field(c, 2, 1) + 2 * Field(c, 3, 1) + 4 * Field(c, 4, 1)
                             + 8 * Field(c, 5, 1) + 16 * Field(c, 6, 1)
         /\ Field(c, 2, 3) = Field(c, 2, 1) + 2 * Field(c, 3, 1) + 4 * Field(c, 4, 1)
         /\ Field(c, 3, 3) = Field(c, 3, 1) + 2 * Field(c, 4, 1) + 4 * Field(c, 5, 1)
         /\ Field(c, 10, 3) = Field(c, 10, 1) + 2 * Field(c, 11, 1) + 4 * Field(c, 12, 1)
         /\ Field(c, 3, 2) = Field(c, 3, 1) + 2 * Field(c, 4, 1)
         /\ Field(c, 5, 2) = Field(c, 5, 1) + 2 * Field(c, 6, 1)
         /\ Field(c, 9, 2) = Field(c, 9, 1) + 2 * Field(c, 10, 1)
         /\ Field(c, 10, 2) = Field(c, 10, 1) + 2 * Field(c, 11, 1)
<1>1. c \in Nat
  BY DEF Insn16
<1>2. (c \div 4) % 32 = ((c \div 4) % 2) + 2 * ((c \div 8) % 2) + 4 * ((c \div 16) % 2)
                         + 8 * ((c \div 32) % 2) + 16 * ((c \div 64) % 2)
  <2>1. PICK v \in Nat : v = c \div 4
    BY SMT, <1>1
  <2>2. v % 32 = (v % 2) + 2 * ((v \div 2) % 2) + 4 * ((v \div 4) % 2)
                 + 8 * ((v \div 8) % 2) + 16 * ((v \div 16) % 2)
    BY SMT
  <2>3. /\ v \div 2 = c \div 8 /\ v \div 4 = c \div 16 /\ v \div 8 = c \div 32
        /\ v \div 16 = c \div 64
    BY SMT, <1>1, <2>1
  <2>4. QED
    BY <2>1, <2>2, <2>3
<1>3. (c \div 4) % 8 = ((c \div 4) % 2) + 2 * ((c \div 8) % 2) + 4 * ((c \div 16) % 2)
  BY SMTT(30), <1>1
<1>4. (c \div 8) % 8 = ((c \div 8) % 2) + 2 * ((c \div 16) % 2) + 4 * ((c \div 32) % 2)
  BY SMTT(30), <1>1
<1>5. (c \div 1024) % 8 = ((c \div 1024) % 2) + 2 * ((c \div 2048) % 2) + 4 * ((c \div 4096) % 2)
  BY SMTT(30), <1>1
<1>6. (c \div 8) % 4 = ((c \div 8) % 2) + 2 * ((c \div 16) % 2)
  BY SMTT(30), <1>1
<1>7. (c \div 32) % 4 = ((c \div 32) % 2) + 2 * ((c \div 64) % 2)
  BY SMTT(30), <1>1
<1>8. (c \div 512) % 4 = ((c \div 512) % 2) + 2 * ((c \div 1024) % 2)
  BY SMTT(30), <1>1
<1>9. (c \div 1024) % 4 = ((c \div 1024) % 2) + 2 * ((c \div 2048) % 2)
  <2>1. PICK v \in Nat : v = c \div 1024
    BY SMT, <1>1
  <2>2. v % 4 = (v % 2) + 2 * ((v \div 2) % 2)
    BY SMT
  <2>3. v \div 2 = c \div 2048
    BY SMT, <1>1, <2>1
  <2>4. QED
    BY <2>1, <2>2, <2>3
<1>10. QED
  BY <1>2, <1>3, <1>4, <1>5, <1>6, <1>7, <1>8, <1>9, BitTable, FieldTable

LEMMA BitType ==
  ASSUME NEW c \in Insn16, NEW k \in 0 .. 15  PROVE Field(c, k, 1) \in {0, 1}
<1>1. 2^1 = 2
  OBVIOUS
<1>2. Field(c, k, 1) \in Nat /\ Field(c, k, 1) < 2
  BY <1>1, FieldType
<1>3. QED
  BY <1>2

\* What an immediate is: the sum over its positions, however many.
Weighted(c, at, bits, k) == Field(c, at[k], 1) * 2^bits[k]
SumTo(c, at, bits, s, k) == IF k = 0 THEN 0 ELSE s[k - 1] + Weighted(c, at, bits, k)
SumsUp(c, at, bits, n, s) == s = [k \in 0 .. n |-> SumTo(c, at, bits, s, k)]

LEMMA ImmExists ==
  ASSUME NEW c, NEW at, NEW bits, NEW n \in Nat
  PROVE  \E s : SumsUp(c, at, bits, n, s)
<1> DEFINE T == {m \in Nat : \E s : s = [k \in 0 .. m |-> SumTo(c, at, bits, s, k)]}
<1>1. 0 \in T
  <2> DEFINE s == [k \in 0 .. 0 |-> 0]
  <2>1. s = [k \in 0 .. 0 |-> SumTo(c, at, bits, s, k)]
    BY DEF SumTo
  <2> HIDE DEF s
  <2>2. QED
    BY <2>1
<1>2. ASSUME NEW m \in T  PROVE m + 1 \in T
  <2>1. PICK s : s = [k \in 0 .. m |-> SumTo(c, at, bits, s, k)]
    OBVIOUS
  <2> DEFINE t == [k \in 0 .. m + 1 |-> IF k = m + 1 THEN s[m] + Weighted(c, at, bits, m + 1) ELSE s[k]]
  <2>2. m \in Nat /\ m + 1 \in Nat
    OBVIOUS
  <2>3. ASSUME NEW k \in 0 .. m + 1  PROVE t[k] = SumTo(c, at, bits, t, k)
    <3>1. CASE k = 0
      BY <2>1, <2>2, <3>1 DEF SumTo
    <3>2. CASE k = m + 1
      <4>1. t[k] = s[m] + Weighted(c, at, bits, k)
        BY <2>2, <3>2
      <4>2. t[k - 1] = s[m]
        BY <2>2, <3>2
      <4>3. k # 0
        BY <2>2, <3>2
      <4> HIDE DEF t
      <4>4. QED
        BY <4>1, <4>2, <4>3 DEF SumTo
    <3>3. CASE k # 0 /\ k # m + 1
      <4>1. k \in 0 .. m /\ k - 1 \in 0 .. m
        BY <2>2, <3>3
      <4>2. t[k] = s[k] /\ t[k - 1] = s[k - 1]
        BY <2>2, <3>3, <4>1
      <4>3. s[k] = SumTo(c, at, bits, s, k)
        BY <2>1, <4>1
      <4> HIDE DEF t
      <4>4. QED
        BY <3>3, <4>2, <4>3 DEF SumTo
    <3>4. QED
      BY <3>1, <3>2, <3>3
  <2>4. t = [k \in 0 .. m + 1 |-> t[k]]
    OBVIOUS
  <2> HIDE DEF t
  <2>5. t = [k \in 0 .. m + 1 |-> SumTo(c, at, bits, t, k)]
    BY <2>3, <2>4
  <2>6. QED
    BY <2>2, <2>5
<1>3. T \in SUBSET Nat
  OBVIOUS
<1> HIDE DEF T
<1>4. T = Nat
  BY <1>1, <1>2, <1>3, NatSetInduction
<1>5. n \in T
  BY <1>4
<1>6. QED
  BY <1>5 DEF T, SumsUp

Unfolds(c, at, bits, n, s) ==
  /\ s[0] = 0 /\ Imm(c, at, bits) = s[n]
  /\ \A k \in 1 .. n : s[k] = s[k - 1] + Weighted(c, at, bits, k)

LEMMA ImmSum ==
  ASSUME NEW c, NEW at, NEW bits, NEW n \in Nat, Len(at) = n
  PROVE  \E s : Unfolds(c, at, bits, n, s)
<1> DEFINE s == CHOOSE t : t = [k \in 0 .. n |-> SumTo(c, at, bits, t, k)]
<1>1. PICK t : SumsUp(c, at, bits, n, t)
  BY ImmExists
<1>2. t = [k \in 0 .. n |-> SumTo(c, at, bits, t, k)]
  BY <1>1 DEF SumsUp
<1>3. s = [k \in 0 .. n |-> SumTo(c, at, bits, s, k)]
  BY <1>2
<1>4. Imm(c, at, bits) = s[n]
  BY DEF Imm, SumTo, Weighted
<1> HIDE DEF s
<1>5. s[0] = 0
  BY <1>3 DEF SumTo
<1>6. ASSUME NEW k \in 1 .. n  PROVE s[k] = s[k - 1] + Weighted(c, at, bits, k)
  <2>1. s[k] = SumTo(c, at, bits, s, k) /\ k # 0
    BY <1>3
  <2>2. QED
    BY <2>1 DEF SumTo
<1>7. QED
  BY <1>4, <1>5, <1>6 DEF Unfolds

\* The manual's immediates, bit by bit.
LEMMA SumCI ==
  ASSUME NEW c \in Insn16
  PROVE  Imm(c, CI, <<5, 4, 3, 2, 1, 0>>)
         = 32 * Field(c, 12, 1) + 16 * Field(c, 6, 1) + 8 * Field(c, 5, 1)
           + 4 * Field(c, 4, 1) + 2 * Field(c, 3, 1) + Field(c, 2, 1)
<1>1. PICK w : w = <<5, 4, 3, 2, 1, 0>>
  OBVIOUS
<1>2. Len(CI) = 6 /\ 6 \in Nat
  BY DEF CI
<1>3. PICK s : Unfolds(c, CI, w, 6, s)
  BY <1>2, ImmSum
<1>4. /\ s[0] = 0 /\ Imm(c, CI, w) = s[6]
      /\ s[1] = s[1 - 1] + Weighted(c, CI, w, 1)
      /\ s[2] = s[2 - 1] + Weighted(c, CI, w, 2)
      /\ s[3] = s[3 - 1] + Weighted(c, CI, w, 3)
      /\ s[4] = s[4 - 1] + Weighted(c, CI, w, 4)
      /\ s[5] = s[5 - 1] + Weighted(c, CI, w, 5)
      /\ s[6] = s[6 - 1] + Weighted(c, CI, w, 6)
  BY <1>3 DEF Unfolds
<1>5. /\ Weighted(c, CI, w, 1) = 32 * Field(c, 12, 1)
      /\ Weighted(c, CI, w, 2) = 16 * Field(c, 6, 1)
      /\ Weighted(c, CI, w, 3) = 8 * Field(c, 5, 1)
      /\ Weighted(c, CI, w, 4) = 4 * Field(c, 4, 1)
      /\ Weighted(c, CI, w, 5) = 2 * Field(c, 3, 1)
      /\ Weighted(c, CI, w, 6) = Field(c, 2, 1)
  BY <1>1, BitType, PowerTable DEF Weighted, CI
<1>6. \A k \in 0 .. 15 : Field(c, k, 1) \in Int
  BY BitType
<1>7. QED
  BY <1>1, <1>4, <1>5, <1>6

LEMMA SumSp16 ==
  ASSUME NEW c \in Insn16
  PROVE  Imm(c, CI, <<9, 4, 6, 8, 7, 5>>)
         = 512 * Field(c, 12, 1) + 16 * Field(c, 6, 1) + 64 * Field(c, 5, 1)
           + 256 * Field(c, 4, 1) + 128 * Field(c, 3, 1) + 32 * Field(c, 2, 1)
<1>1. PICK w : w = <<9, 4, 6, 8, 7, 5>>
  OBVIOUS
<1>2. Len(CI) = 6 /\ 6 \in Nat
  BY DEF CI
<1>3. PICK s : Unfolds(c, CI, w, 6, s)
  BY <1>2, ImmSum
<1>4. /\ s[0] = 0 /\ Imm(c, CI, w) = s[6]
      /\ s[1] = s[1 - 1] + Weighted(c, CI, w, 1)
      /\ s[2] = s[2 - 1] + Weighted(c, CI, w, 2)
      /\ s[3] = s[3 - 1] + Weighted(c, CI, w, 3)
      /\ s[4] = s[4 - 1] + Weighted(c, CI, w, 4)
      /\ s[5] = s[5 - 1] + Weighted(c, CI, w, 5)
      /\ s[6] = s[6 - 1] + Weighted(c, CI, w, 6)
  BY <1>3 DEF Unfolds
<1>5. /\ Weighted(c, CI, w, 1) = 512 * Field(c, 12, 1)
      /\ Weighted(c, CI, w, 2) = 16 * Field(c, 6, 1)
      /\ Weighted(c, CI, w, 3) = 64 * Field(c, 5, 1)
      /\ Weighted(c, CI, w, 4) = 256 * Field(c, 4, 1)
      /\ Weighted(c, CI, w, 5) = 128 * Field(c, 3, 1)
      /\ Weighted(c, CI, w, 6) = 32 * Field(c, 2, 1)
  BY <1>1, BitType, PowerTable DEF Weighted, CI
<1>6. \A k \in 0 .. 15 : Field(c, k, 1) \in Int
  BY BitType
<1>7. QED
  BY <1>1, <1>4, <1>5, <1>6

LEMMA SumLwsp ==
  ASSUME NEW c \in Insn16
  PROVE  Imm(c, CI, <<5, 4, 3, 2, 7, 6>>)
         = 32 * Field(c, 12, 1) + 16 * Field(c, 6, 1) + 8 * Field(c, 5, 1)
           + 4 * Field(c, 4, 1) + 128 * Field(c, 3, 1) + 64 * Field(c, 2, 1)
<1>1. PICK w : w = <<5, 4, 3, 2, 7, 6>>
  OBVIOUS
<1>2. Len(CI) = 6 /\ 6 \in Nat
  BY DEF CI
<1>3. PICK s : Unfolds(c, CI, w, 6, s)
  BY <1>2, ImmSum
<1>4. /\ s[0] = 0 /\ Imm(c, CI, w) = s[6]
      /\ s[1] = s[1 - 1] + Weighted(c, CI, w, 1)
      /\ s[2] = s[2 - 1] + Weighted(c, CI, w, 2)
      /\ s[3] = s[3 - 1] + Weighted(c, CI, w, 3)
      /\ s[4] = s[4 - 1] + Weighted(c, CI, w, 4)
      /\ s[5] = s[5 - 1] + Weighted(c, CI, w, 5)
      /\ s[6] = s[6 - 1] + Weighted(c, CI, w, 6)
  BY <1>3 DEF Unfolds
<1>5. /\ Weighted(c, CI, w, 1) = 32 * Field(c, 12, 1)
      /\ Weighted(c, CI, w, 2) = 16 * Field(c, 6, 1)
      /\ Weighted(c, CI, w, 3) = 8 * Field(c, 5, 1)
      /\ Weighted(c, CI, w, 4) = 4 * Field(c, 4, 1)
      /\ Weighted(c, CI, w, 5) = 128 * Field(c, 3, 1)
      /\ Weighted(c, CI, w, 6) = 64 * Field(c, 2, 1)
  BY <1>1, BitType, PowerTable DEF Weighted, CI
<1>6. \A k \in 0 .. 15 : Field(c, k, 1) \in Int
  BY BitType
<1>7. QED
  BY <1>1, <1>4, <1>5, <1>6

LEMMA SumCJ ==
  ASSUME NEW c \in Insn16
  PROVE  Imm(c, CJ, <<11, 4, 9, 8, 10, 6, 7, 3, 2, 1, 5>>)
         = 2048 * Field(c, 12, 1) + 16 * Field(c, 11, 1) + 512 * Field(c, 10, 1)
           + 256 * Field(c, 9, 1) + 1024 * Field(c, 8, 1) + 64 * Field(c, 7, 1)
           + 128 * Field(c, 6, 1) + 8 * Field(c, 5, 1) + 4 * Field(c, 4, 1)
           + 2 * Field(c, 3, 1) + 32 * Field(c, 2, 1)
<1>1. PICK w : w = <<11, 4, 9, 8, 10, 6, 7, 3, 2, 1, 5>>
  OBVIOUS
<1>2. Len(CJ) = 11 /\ 11 \in Nat
  BY DEF CJ
<1>3. PICK s : Unfolds(c, CJ, w, 11, s)
  BY <1>2, ImmSum
<1>4. /\ s[0] = 0 /\ Imm(c, CJ, w) = s[11]
      /\ s[1] = s[1 - 1] + Weighted(c, CJ, w, 1)
      /\ s[2] = s[2 - 1] + Weighted(c, CJ, w, 2)
      /\ s[3] = s[3 - 1] + Weighted(c, CJ, w, 3)
      /\ s[4] = s[4 - 1] + Weighted(c, CJ, w, 4)
      /\ s[5] = s[5 - 1] + Weighted(c, CJ, w, 5)
      /\ s[6] = s[6 - 1] + Weighted(c, CJ, w, 6)
      /\ s[7] = s[7 - 1] + Weighted(c, CJ, w, 7)
      /\ s[8] = s[8 - 1] + Weighted(c, CJ, w, 8)
      /\ s[9] = s[9 - 1] + Weighted(c, CJ, w, 9)
      /\ s[10] = s[10 - 1] + Weighted(c, CJ, w, 10)
      /\ s[11] = s[11 - 1] + Weighted(c, CJ, w, 11)
  BY <1>3 DEF Unfolds
<1>5. /\ Weighted(c, CJ, w, 1) = 2048 * Field(c, 12, 1)
      /\ Weighted(c, CJ, w, 2) = 16 * Field(c, 11, 1)
      /\ Weighted(c, CJ, w, 3) = 512 * Field(c, 10, 1)
      /\ Weighted(c, CJ, w, 4) = 256 * Field(c, 9, 1)
      /\ Weighted(c, CJ, w, 5) = 1024 * Field(c, 8, 1)
      /\ Weighted(c, CJ, w, 6) = 64 * Field(c, 7, 1)
      /\ Weighted(c, CJ, w, 7) = 128 * Field(c, 6, 1)
      /\ Weighted(c, CJ, w, 8) = 8 * Field(c, 5, 1)
      /\ Weighted(c, CJ, w, 9) = 4 * Field(c, 4, 1)
      /\ Weighted(c, CJ, w, 10) = 2 * Field(c, 3, 1)
      /\ Weighted(c, CJ, w, 11) = 32 * Field(c, 2, 1)
  BY <1>1, BitType, PowerTable DEF Weighted, CJ
<1>6. \A k \in 0 .. 15 : Field(c, k, 1) \in Int
  BY BitType
<1>7. QED
  BY <1>1, <1>4, <1>5, <1>6

LEMMA SumCB ==
  ASSUME NEW c \in Insn16
  PROVE  Imm(c, CB, <<8, 4, 3, 7, 6, 2, 1, 5>>)
         = 256 * Field(c, 12, 1) + 16 * Field(c, 11, 1) + 8 * Field(c, 10, 1)
           + 128 * Field(c, 6, 1) + 64 * Field(c, 5, 1) + 4 * Field(c, 4, 1)
           + 2 * Field(c, 3, 1) + 32 * Field(c, 2, 1)
<1>1. PICK w : w = <<8, 4, 3, 7, 6, 2, 1, 5>>
  OBVIOUS
<1>2. Len(CB) = 8 /\ 8 \in Nat
  BY DEF CB
<1>3. PICK s : Unfolds(c, CB, w, 8, s)
  BY <1>2, ImmSum
<1>4. /\ s[0] = 0 /\ Imm(c, CB, w) = s[8]
      /\ s[1] = s[1 - 1] + Weighted(c, CB, w, 1)
      /\ s[2] = s[2 - 1] + Weighted(c, CB, w, 2)
      /\ s[3] = s[3 - 1] + Weighted(c, CB, w, 3)
      /\ s[4] = s[4 - 1] + Weighted(c, CB, w, 4)
      /\ s[5] = s[5 - 1] + Weighted(c, CB, w, 5)
      /\ s[6] = s[6 - 1] + Weighted(c, CB, w, 6)
      /\ s[7] = s[7 - 1] + Weighted(c, CB, w, 7)
      /\ s[8] = s[8 - 1] + Weighted(c, CB, w, 8)
  BY <1>3 DEF Unfolds
<1>5. /\ Weighted(c, CB, w, 1) = 256 * Field(c, 12, 1)
      /\ Weighted(c, CB, w, 2) = 16 * Field(c, 11, 1)
      /\ Weighted(c, CB, w, 3) = 8 * Field(c, 10, 1)
      /\ Weighted(c, CB, w, 4) = 128 * Field(c, 6, 1)
      /\ Weighted(c, CB, w, 5) = 64 * Field(c, 5, 1)
      /\ Weighted(c, CB, w, 6) = 4 * Field(c, 4, 1)
      /\ Weighted(c, CB, w, 7) = 2 * Field(c, 3, 1)
      /\ Weighted(c, CB, w, 8) = 32 * Field(c, 2, 1)
  BY <1>1, BitType, PowerTable DEF Weighted, CB
<1>6. \A k \in 0 .. 15 : Field(c, k, 1) \in Int
  BY BitType
<1>7. QED
  BY <1>1, <1>4, <1>5, <1>6

LEMMA SumCL ==
  ASSUME NEW c \in Insn16
  PROVE  Imm(c, CL, <<5, 4, 3, 2, 6>>)
         = 32 * Field(c, 12, 1) + 16 * Field(c, 11, 1) + 8 * Field(c, 10, 1)
           + 4 * Field(c, 6, 1) + 64 * Field(c, 5, 1)
<1>1. PICK w : w = <<5, 4, 3, 2, 6>>
  OBVIOUS
<1>2. Len(CL) = 5 /\ 5 \in Nat
  BY DEF CL
<1>3. PICK s : Unfolds(c, CL, w, 5, s)
  BY <1>2, ImmSum
<1>4. /\ s[0] = 0 /\ Imm(c, CL, w) = s[5]
      /\ s[1] = s[1 - 1] + Weighted(c, CL, w, 1)
      /\ s[2] = s[2 - 1] + Weighted(c, CL, w, 2)
      /\ s[3] = s[3 - 1] + Weighted(c, CL, w, 3)
      /\ s[4] = s[4 - 1] + Weighted(c, CL, w, 4)
      /\ s[5] = s[5 - 1] + Weighted(c, CL, w, 5)
  BY <1>3 DEF Unfolds
<1>5. /\ Weighted(c, CL, w, 1) = 32 * Field(c, 12, 1)
      /\ Weighted(c, CL, w, 2) = 16 * Field(c, 11, 1)
      /\ Weighted(c, CL, w, 3) = 8 * Field(c, 10, 1)
      /\ Weighted(c, CL, w, 4) = 4 * Field(c, 6, 1)
      /\ Weighted(c, CL, w, 5) = 64 * Field(c, 5, 1)
  BY <1>1, BitType, PowerTable DEF Weighted, CL
<1>6. \A k \in 0 .. 15 : Field(c, k, 1) \in Int
  BY BitType
<1>7. QED
  BY <1>1, <1>4, <1>5, <1>6

LEMMA SumCIW ==
  ASSUME NEW c \in Insn16
  PROVE  Imm(c, CIW, <<5, 4, 9, 8, 7, 6, 2, 3>>)
         = 32 * Field(c, 12, 1) + 16 * Field(c, 11, 1) + 512 * Field(c, 10, 1)
           + 256 * Field(c, 9, 1) + 128 * Field(c, 8, 1) + 64 * Field(c, 7, 1)
           + 4 * Field(c, 6, 1) + 8 * Field(c, 5, 1)
<1>1. PICK w : w = <<5, 4, 9, 8, 7, 6, 2, 3>>
  OBVIOUS
<1>2. Len(CIW) = 8 /\ 8 \in Nat
  BY DEF CIW
<1>3. PICK s : Unfolds(c, CIW, w, 8, s)
  BY <1>2, ImmSum
<1>4. /\ s[0] = 0 /\ Imm(c, CIW, w) = s[8]
      /\ s[1] = s[1 - 1] + Weighted(c, CIW, w, 1)
      /\ s[2] = s[2 - 1] + Weighted(c, CIW, w, 2)
      /\ s[3] = s[3 - 1] + Weighted(c, CIW, w, 3)
      /\ s[4] = s[4 - 1] + Weighted(c, CIW, w, 4)
      /\ s[5] = s[5 - 1] + Weighted(c, CIW, w, 5)
      /\ s[6] = s[6 - 1] + Weighted(c, CIW, w, 6)
      /\ s[7] = s[7 - 1] + Weighted(c, CIW, w, 7)
      /\ s[8] = s[8 - 1] + Weighted(c, CIW, w, 8)
  BY <1>3 DEF Unfolds
<1>5. /\ Weighted(c, CIW, w, 1) = 32 * Field(c, 12, 1)
      /\ Weighted(c, CIW, w, 2) = 16 * Field(c, 11, 1)
      /\ Weighted(c, CIW, w, 3) = 512 * Field(c, 10, 1)
      /\ Weighted(c, CIW, w, 4) = 256 * Field(c, 9, 1)
      /\ Weighted(c, CIW, w, 5) = 128 * Field(c, 8, 1)
      /\ Weighted(c, CIW, w, 6) = 64 * Field(c, 7, 1)
      /\ Weighted(c, CIW, w, 7) = 4 * Field(c, 6, 1)
      /\ Weighted(c, CIW, w, 8) = 8 * Field(c, 5, 1)
  BY <1>1, BitType, PowerTable DEF Weighted, CIW
<1>6. \A k \in 0 .. 15 : Field(c, k, 1) \in Int
  BY BitType
<1>7. QED
  BY <1>1, <1>4, <1>5, <1>6

\* Where the code's immediates are the manual's.
LEMMA ImmediateCI ==
  ASSUME NEW c \in Insn16
  PROVE  /\ CImm6(c) = Wrap(ImmCI(c)) /\ ImmCI(c) \in -32 .. 31
         /\ ImmCI(c) = 0 <=> Shamt(c) = 0
         /\ Rs2(c) = 0 /\ Shamt(c) # 0 => ImmCI(c) = -32
<1>1. Imm(c, CI, <<5, 4, 3, 2, 1, 0>>) = Shamt(c)
  BY SumCI, FieldBits, BitType DEF Shamt
<1>2. ImmCI(c) = Minus(Shamt(c), 6)
  BY <1>1 DEF ImmCI
<1>3. Shamt(c) \in 0 .. 63 /\ Rs2(c) \in 0 .. 31 /\ Field(c, 12, 1) \in {0, 1}
  BY RegisterTypes, BitType
<1>4. 2^6 = 64 /\ 2^(6 - 1) = 32
  BY PowerTable
<1>5. Rs2(c) = 0 /\ Shamt(c) # 0 => Shamt(c) = 32
  BY <1>3 DEF Rs2, Shamt
<1>6. QED
  BY <1>2, <1>3, <1>4, <1>5 DEF CImm6, Minus, sign_extend

LEMMA ImmediateCJ ==
  ASSUME NEW c \in Insn16
  PROVE  /\ CImmJ(c) = Wrap(OffsetCJ(c)) /\ OffsetCJ(c) \in -2048 .. 2047
         /\ OffsetCJ(c) % 2 = 0
<1>1. PICK v : v = Imm(c, CJ, <<11, 4, 9, 8, 10, 6, 7, 3, 2, 1, 5>>)
  OBVIOUS
<1>2. \A k \in 0 .. 15 : Field(c, k, 1) \in {0, 1}
  BY BitType
<1>3. v = 2048 * Field(c, 12, 1) + 16 * Field(c, 11, 1) + 512 * Field(c, 10, 1)
          + 256 * Field(c, 9, 1) + 1024 * Field(c, 8, 1) + 64 * Field(c, 7, 1)
          + 128 * Field(c, 6, 1) + 8 * Field(c, 5, 1) + 4 * Field(c, 4, 1)
          + 2 * Field(c, 3, 1) + 32 * Field(c, 2, 1)
  BY <1>1, SumCJ
<1>4. PICK u \in 0 .. 2047 : v = 2 * u
  <2> DEFINE u == 1024 * Field(c, 12, 1) + 8 * Field(c, 11, 1) + 256 * Field(c, 10, 1)
                 + 128 * Field(c, 9, 1) + 512 * Field(c, 8, 1) + 32 * Field(c, 7, 1)
                 + 64 * Field(c, 6, 1) + 4 * Field(c, 5, 1) + 2 * Field(c, 4, 1)
                 + Field(c, 3, 1) + 16 * Field(c, 2, 1)
  <2>1. u \in 0 .. 2047
    BY <1>2
  <2>2. v = 2 * u
    BY <1>2, <1>3
  <2> HIDE DEF u
  <2>3. QED
    BY <2>1, <2>2
<1>5. CImmJ(c) = sign_extend(v, 12)
  BY <1>2, <1>3, FieldBits DEF CImmJ
<1>6. OffsetCJ(c) = IF v >= 2048 THEN v - 4096 ELSE v
  BY <1>1, PowerTable DEF OffsetCJ, Minus
<1>7. CImmJ(c) = Wrap(OffsetCJ(c))
  BY <1>5, <1>6, PowerTable DEF sign_extend
<1>8. OffsetCJ(c) \in -2048 .. 2047 /\ OffsetCJ(c) % 2 = 0
  BY <1>4, <1>6
<1>9. QED
  BY <1>7, <1>8

LEMMA ImmediateCB ==
  ASSUME NEW c \in Insn16, Field(c, 6, 1) = 0
  PROVE  /\ CImmB(c) = Wrap(OffsetCB(c)) /\ OffsetCB(c) \in -256 .. 255
         /\ OffsetCB(c) % 2 = 0
<1>1. PICK v : v = Imm(c, CB, <<8, 4, 3, 7, 6, 2, 1, 5>>)
  OBVIOUS
<1>2. \A k \in 0 .. 15 : Field(c, k, 1) \in {0, 1}
  BY BitType
<1>3. v = 256 * Field(c, 12, 1) + 16 * Field(c, 11, 1) + 8 * Field(c, 10, 1)
          + 128 * Field(c, 6, 1) + 64 * Field(c, 5, 1) + 4 * Field(c, 4, 1)
          + 2 * Field(c, 3, 1) + 32 * Field(c, 2, 1)
  BY <1>1, SumCB
<1>4. PICK u \in 0 .. 255 : v = 2 * u
  <2> DEFINE u == 128 * Field(c, 12, 1) + 8 * Field(c, 11, 1) + 4 * Field(c, 10, 1)
                 + 64 * Field(c, 6, 1) + 32 * Field(c, 5, 1) + 2 * Field(c, 4, 1)
                 + Field(c, 3, 1) + 16 * Field(c, 2, 1)
  <2>1. u \in 0 .. 255
    BY <1>2
  <2>2. v = 2 * u
    BY <1>2, <1>3
  <2> HIDE DEF u
  <2>3. QED
    BY <2>1, <2>2
<1>5. CImmB(c) = sign_extend(v, 9)
  BY <1>2, <1>3, FieldBits DEF CImmB
<1>6. OffsetCB(c) = IF v >= 256 THEN v - 512 ELSE v
  BY <1>1, PowerTable DEF OffsetCB, Minus
<1>7. CImmB(c) = Wrap(OffsetCB(c))
  BY <1>5, <1>6, PowerTable DEF sign_extend
<1>8. OffsetCB(c) \in -256 .. 255 /\ OffsetCB(c) % 2 = 0
  BY <1>4, <1>6
<1>9. QED
  BY <1>7, <1>8

LEMMA ImmediateCL ==
  ASSUME NEW c \in Insn16, Field(c, 5, 1) = 0
  PROVE  CImmLw(c) = OffsetCL(c) /\ OffsetCL(c) \in 0 .. 127
<1>1. \A k \in 0 .. 15 : Field(c, k, 1) \in {0, 1}
  BY BitType
<1>2. QED
  BY <1>1, SumCL, FieldBits DEF CImmLw, OffsetCL

\* C.LWSP and C.ADDI16SP, where bits 2 to 6 are 0.
LEMMA ImmediateSp ==
  ASSUME NEW c \in Insn16, Rs2(c) = 0
  PROVE  /\ CImmLwsp(c) = Imm(c, CI, <<5, 4, 3, 2, 7, 6>>)
         /\ CImmLwsp(c) \in 0 .. 255
         /\ CImm16sp(c) = Wrap(Minus(Imm(c, CI, <<9, 4, 6, 8, 7, 5>>), 10))
         /\ Minus(Imm(c, CI, <<9, 4, 6, 8, 7, 5>>), 10) \in -512 .. 511
         /\ Minus(Imm(c, CI, <<9, 4, 6, 8, 7, 5>>), 10) = 0 <=> Shamt(c) = 0
<1>1. \A k \in 0 .. 15 : Field(c, k, 1) \in {0, 1}
  BY BitType
<1>2. /\ Field(c, 2, 1) = 0 /\ Field(c, 3, 1) = 0 /\ Field(c, 4, 1) = 0 /\ Field(c, 5, 1) = 0
      /\ Field(c, 6, 1) = 0 /\ Field(c, 12, 1) \in {0, 1}
  BY <1>1, FieldBits DEF Rs2
<1>3. CImmLwsp(c) = 32 * Field(c, 12, 1) /\ Imm(c, CI, <<5, 4, 3, 2, 7, 6>>) = 32 * Field(c, 12, 1)
  BY <1>2, SumLwsp, FieldBits DEF CImmLwsp
<1>4. Imm(c, CI, <<9, 4, 6, 8, 7, 5>>) = 512 * Field(c, 12, 1)
  BY <1>2, SumSp16
<1>5. CImm16sp(c) = sign_extend(512 * Field(c, 12, 1), 10)
  BY <1>2 DEF CImm16sp
<1>6. Shamt(c) = 32 * Field(c, 12, 1)
  BY <1>2 DEF Shamt, Rs2
<1>7. 2^10 = 1024 /\ 2^(10 - 1) = 512
  BY PowerTable
<1>8. QED
  BY <1>2, <1>3, <1>4, <1>5, <1>6, <1>7 DEF Minus, sign_extend

LEMMA ImmediateCIW ==
  ASSUME NEW c \in Insn16
  PROVE  /\ CImm4spn(c) = Imm(c, CIW, <<5, 4, 9, 8, 7, 6, 2, 3>>)
         /\ CImm4spn(c) \in 0 .. 1023
<1>1. \A k \in 0 .. 15 : Field(c, k, 1) \in {0, 1}
  BY BitType
<1>2. QED
  BY <1>1, SumCIW DEF CImm4spn

\* The 32-bit instructions of the table, two bytes long.
Two(h) == Goto(h, h.pc + 2)

Imm12 == -2048 .. 2047

LEMMA ITypeFields ==
  ASSUME NEW op, NEW f, NEW rd, NEW rs1, NEW n \in Imm12, NEW i, i = IType(op, f, rd, rs1, n)
  PROVE  /\ i.opcode = op /\ i.funct3 = f /\ i.rd = rd /\ i.rs1 = rs1
         /\ ImmI(i) = Wrap(n)
<1>1. (n % 32) + 32 * ((n \div 32) % 128) = IF n < 0 THEN n + 4096 ELSE n
  BY SMT DEF Imm12
<1>2. PICK u : u = (n % 32) + 32 * ((n \div 32) % 128)
  OBVIOUS
<1>3. ImmI(i) = sign_extend(u, 12)
  BY <1>2 DEF ImmI, IType, Fields
<1>4. sign_extend(u, 12) = Wrap(IF u >= 2048 THEN u - 4096 ELSE u)
  BY PowerTable DEF sign_extend
<1>5. (IF u >= 2048 THEN u - 4096 ELSE u) = n
  BY <1>1, <1>2 DEF Imm12
<1>6. QED
  BY <1>3, <1>4, <1>5 DEF IType, Fields

LEMMA ExecAddi ==
  ASSUME NEW h, NEW rd, NEW rs1, NEW n \in Imm12
  PROVE  execute_instruction(h, make_addi(rd, rs1, n), 2)
         = write_reg(Two(h), rd, Wrap(h.x[rs1] + Wrap(n)))
<1>1. PICK i : i = make_addi(rd, rs1, n)
  OBVIOUS
<1>2. i.opcode = 19 /\ i.funct3 = 0 /\ i.rd = rd /\ i.rs1 = rs1 /\ ImmI(i) = Wrap(n)
  BY <1>1, ITypeFields DEF make_addi
<1>3. OpImm(i, h.x[rs1], h.x[rd]) = Wrap(h.x[rs1] + Wrap(n))
  BY <1>2 DEF OpImm, Alu
<1>4. execute_instruction(h, i, 2) = write_reg(Two(h), rd, OpImm(i, h.x[rs1], h.x[rd]))
  BY <1>2 DEF execute_instruction, Two
<1>5. QED
  BY <1>1, <1>3, <1>4

LEMMA ExecAndi ==
  ASSUME NEW h, NEW r, NEW n \in Imm12
  PROVE  execute_instruction(h, IType(19, 7, r, r, n), 2)
         = write_reg(Two(h), r, And(h.x[r], Wrap(n)))
<1>1. PICK i : i = IType(19, 7, r, r, n)
  OBVIOUS
<1>2. i.opcode = 19 /\ i.funct3 = 7 /\ i.rd = r /\ i.rs1 = r /\ ImmI(i) = Wrap(n)
  BY <1>1, ITypeFields
<1>3. OpImm(i, h.x[r], h.x[r]) = And(h.x[r], Wrap(n))
  BY <1>2 DEF OpImm, Alu
<1>4. execute_instruction(h, i, 2) = write_reg(Two(h), r, OpImm(i, h.x[r], h.x[r]))
  BY <1>2 DEF execute_instruction, Two
<1>5. QED
  BY <1>1, <1>3, <1>4

\* Shifts: the count is below 32, so its five bits are all of it.
LEMMA ExecShift ==
  ASSUME NEW h, NEW r, NEW s \in 0 .. 31
  PROVE  /\ execute_instruction(h, IType(19, 1, r, r, s), 2) = write_reg(Two(h), r, Sll(h.x[r], s))
         /\ execute_instruction(h, IType(19, 5, r, r, s), 2) = write_reg(Two(h), r, Srl(h.x[r], s))
         /\ execute_instruction(h, IType(19, 5, r, r, 1024 + s), 2)
            = write_reg(Two(h), r, Sra(h.x[r], s))
<1>1. s \in Imm12 /\ s \in Nat /\ s < WORD /\ s % 32 = s /\ s \div 32 = 0
  BY WordUnits DEF Imm12
<1>2. Wrap(s) % 32 = s
  BY <1>1, Fits
<1>3. 1024 + s \in Imm12 /\ (1024 + s) % 32 = s /\ (1024 + s) \div 32 = 32
  BY SMT DEF Imm12
<1>4. PICK i : i = IType(19, 1, r, r, s)
  OBVIOUS
<1>5. PICK j : j = IType(19, 5, r, r, s)
  OBVIOUS
<1>6. PICK k : k = IType(19, 5, r, r, 1024 + s)
  OBVIOUS
<1>7. /\ i.opcode = 19 /\ i.funct3 = 1 /\ i.rd = r /\ i.rs1 = r /\ i.funct7 = 0 /\ ImmI(i) = Wrap(s)
      /\ j.opcode = 19 /\ j.funct3 = 5 /\ j.rd = r /\ j.rs1 = r /\ j.funct7 = 0 /\ ImmI(j) = Wrap(s)
  <2>1. i.funct7 = 0 /\ j.funct7 = 0
    BY <1>1, <1>4, <1>5 DEF IType, Fields
  <2>2. QED
    BY <1>1, <1>4, <1>5, <2>1, ITypeFields
<1>8. k.opcode = 19 /\ k.funct3 = 5 /\ k.rd = r /\ k.rs1 = r /\ k.funct7 = 32 /\ k.rs2 = s
  BY <1>3, <1>6 DEF IType, Fields
<1>9. /\ OpImm(i, h.x[r], h.x[r]) = Sll(h.x[r], s)
      /\ OpImm(j, h.x[r], h.x[r]) = Srl(h.x[r], s)
      /\ OpImm(k, h.x[r], h.x[r]) = Sra(h.x[r], s)
  BY <1>2, <1>7, <1>8 DEF OpImm, Alu
<1>10. /\ execute_instruction(h, i, 2) = write_reg(Two(h), r, OpImm(i, h.x[r], h.x[r]))
       /\ execute_instruction(h, j, 2) = write_reg(Two(h), r, OpImm(j, h.x[r], h.x[r]))
       /\ execute_instruction(h, k, 2) = write_reg(Two(h), r, OpImm(k, h.x[r], h.x[r]))
  BY <1>7, <1>8 DEF execute_instruction, Two
<1>11. QED
  BY <1>4, <1>5, <1>6, <1>9, <1>10

LEMMA ExecRegisters ==
  ASSUME NEW h, NEW rd, NEW rs1, NEW rs2
  PROVE  /\ execute_instruction(h, RType(0, rd, rs1, rs2, 32), 2)
            = write_reg(Two(h), rd, Wrap(h.x[rs1] - h.x[rs2]))
         /\ execute_instruction(h, RType(0, rd, rs1, rs2, 0), 2)
            = write_reg(Two(h), rd, Wrap(h.x[rs1] + h.x[rs2]))
         /\ execute_instruction(h, RType(4, rd, rs1, rs2, 0), 2)
            = write_reg(Two(h), rd, Xor(h.x[rs1], h.x[rs2]))
         /\ execute_instruction(h, RType(6, rd, rs1, rs2, 0), 2)
            = write_reg(Two(h), rd, Or(h.x[rs1], h.x[rs2]))
         /\ execute_instruction(h, RType(7, rd, rs1, rs2, 0), 2)
            = write_reg(Two(h), rd, And(h.x[rs1], h.x[rs2]))
<1>1. ASSUME NEW f, NEW g
      PROVE  execute_instruction(h, RType(f, rd, rs1, rs2, g), 2)
             = write_reg(Two(h), rd, Op(RType(f, rd, rs1, rs2, g), h.x[rs1], h.x[rs2], h.x[rd]))
  <2>1. PICK i : i = RType(f, rd, rs1, rs2, g)
    OBVIOUS
  <2>2. i.opcode = 51 /\ i.rd = rd /\ i.rs1 = rs1 /\ i.rs2 = rs2
    BY <2>1 DEF RType, Fields
  <2>3. execute_instruction(h, i, 2) = write_reg(Two(h), rd, Op(i, h.x[rs1], h.x[rs2], h.x[rd]))
    BY <2>2 DEF execute_instruction, Two
  <2>4. QED
    BY <2>1, <2>3
<1>2. ASSUME NEW f, NEW g
      PROVE  RType(f, rd, rs1, rs2, g).funct3 = f /\ RType(f, rd, rs1, rs2, g).funct7 = g
  BY DEF RType, Fields
<1>3. Op(RType(0, rd, rs1, rs2, 32), h.x[rs1], h.x[rs2], h.x[rd]) = Wrap(h.x[rs1] - h.x[rs2])
  BY <1>2 DEF Op
<1>4. ASSUME NEW f \in {0, 4, 6, 7}
      PROVE  Op(RType(f, rd, rs1, rs2, 0), h.x[rs1], h.x[rs2], h.x[rd]) = Alu(f, h.x[rs1], h.x[rs2])
  BY <1>2 DEF Op
<1>5. /\ Alu(0, h.x[rs1], h.x[rs2]) = Wrap(h.x[rs1] + h.x[rs2])
      /\ Alu(4, h.x[rs1], h.x[rs2]) = Xor(h.x[rs1], h.x[rs2])
      /\ Alu(6, h.x[rs1], h.x[rs2]) = Or(h.x[rs1], h.x[rs2])
      /\ Alu(7, h.x[rs1], h.x[rs2]) = And(h.x[rs1], h.x[rs2])
  BY DEF Alu
<1>6. QED
  BY <1>1, <1>3, <1>4, <1>5

\* Loads and stores, whose offsets in the table are below 1024.
Imm10 == 0 .. 1023

LEMMA ShortOffset ==
  ASSUME NEW n \in Imm10  PROVE n \in Imm12 /\ n \in Nat /\ n < WORD /\ Wrap(n) = n
<1>1. n \in Imm12 /\ n \in Nat /\ n < WORD
  BY SMT, WordUnits DEF Imm10, Imm12
<1>2. QED
  BY SMT, <1>1, Fits

LEMMA ExecLw ==
  ASSUME NEW h, NEW rd, NEW rs1, NEW n \in Imm10
  PROVE  execute_instruction(h, make_lw(rd, rs1, n), 2)
         = Request(write_reg(Two(h), rd, h.data), "LW", h.x[rs1] + n, 0)
<1>1. PICK i : i = make_lw(rd, rs1, n)
  OBVIOUS
<1>2. i.opcode = 3 /\ i.funct3 = 2 /\ i.rd = rd /\ i.rs1 = rs1 /\ ImmI(i) = n
  BY SMT, <1>1, ShortOffset, ITypeFields DEF make_lw
<1>3. LoadNames[2 + 1] = "LW" /\ Loaded(2, h.data) = h.data
  BY SMT DEF LoadNames, Loaded
<1>4. execute_instruction(h, i, 2)
      = Request(write_reg(Two(h), i.rd, Loaded(i.funct3, h.data)), LoadNames[i.funct3 + 1],
                h.x[i.rs1] + ImmI(i), 0)
  BY SMT, <1>2 DEF execute_instruction, Two
<1>5. QED
  BY SMT, <1>1, <1>2, <1>3, <1>4

LEMMA ExecSw ==
  ASSUME NEW h, NEW rs2, NEW rs1, NEW n \in Imm10, h.x[rs2] \in Word
  PROVE  execute_instruction(h, make_sw(rs2, rs1, n), 2)
         = Request(Two(h), "SW", h.x[rs1] + n, h.x[rs2])
<1>1. PICK i : i = make_sw(rs2, rs1, n)
  OBVIOUS
<1>2. i.opcode = 35 /\ i.funct3 = 2 /\ i.rs1 = rs1 /\ i.rs2 = rs2
  BY SMT, <1>1 DEF make_sw, Fields
<1>3. (n % 32) + 32 * ((n \div 32) % 128) = n
  BY SMT DEF Imm10
<1>4. ImmS(i) = sign_extend(n, 12)
  BY SMT, <1>1, <1>3 DEF ImmS, make_sw, Fields
<1>5. sign_extend(n, 12) = n
  BY SMT, ShortOffset, PowerTable DEF sign_extend, Imm10
<1>6. StoreNames[2 + 1] = "SW" /\ h.x[rs2] % WORD = h.x[rs2]
  BY SMT, WordUnits DEF StoreNames, Word
<1>7. execute_instruction(h, i, 2)
      = Request(Two(h), StoreNames[i.funct3 + 1], h.x[i.rs1] + ImmS(i), h.x[i.rs2] % WORD)
  BY SMT, <1>2 DEF execute_instruction, Two
<1>8. QED
  BY SMT, <1>1, <1>2, <1>4, <1>5, <1>6, <1>7

\* Jumps: the parts of the offset are where execute_instruction looks for them.
Parts(o, k, m, s) == o = 2 * k + 32 * m - 2048 * s

LEMMA OffsetParts ==
  ASSUME NEW o \in Imm12, o % 2 = 0
  PROVE  \E k \in 0 .. 15, m \in 0 .. 63, s \in 0 .. 1 : Parts(o, k, m, s)
<1>1. PICK s : s = IF o < 0 THEN 1 ELSE 0
  OBVIOUS
<1>2. s \in 0 .. 1
  BY <1>1
<1>3. PICK v : v = o + 2048 * s
  OBVIOUS
<1>4. v \in 0 .. 2047 /\ v % 2 = 0
  BY SMT, <1>1, <1>3 DEF Imm12
<1>5. PICK h : h = v \div 2
  OBVIOUS
<1>6. h \in 0 .. 1023 /\ v = 2 * h
  BY SMT, <1>4, <1>5
<1>7. PICK k \in 0 .. 15, m \in 0 .. 63 : h = k + 16 * m
  <2>1. h % 16 \in 0 .. 15 /\ h \div 16 \in 0 .. 63 /\ h = (h % 16) + 16 * (h \div 16)
    BY SMT, <1>6
  <2>2. QED
    BY <2>1
<1>8. Parts(o, k, m, s)
  BY SMT, <1>2, <1>3, <1>6, <1>7 DEF Imm12, Parts
<1>9. QED
  BY <1>2, <1>8

LEMMA JumpOffset ==
  ASSUME NEW rd, NEW o \in Imm12, o % 2 = 0
  PROVE  ImmJ(JType(rd, o)) = Wrap(o)
<1>1. PICK u : u = o % 2^21
  OBVIOUS
<1>2. PICK k \in 0 .. 15, m \in 0 .. 63, s \in 0 .. 1 : Parts(o, k, m, s)
  BY OffsetParts
<1>3. u = 2 * k + 32 * m + 2095104 * s
  <2>1. u = o % 2097152
    BY SMT, <1>1, PowerTable
  <2>2. QED
    BY SMT, <1>2, <2>1 DEF Parts
<1>4. PICK i : i = JType(rd, o)
  OBVIOUS
<1>5. /\ i.funct3 = (u \div 4096) % 8 /\ i.rs1 = (u \div 32768) % 32
      /\ i.rs2 = (u % 32) - (u % 2) + ((u \div 2048) % 2)
      /\ i.funct7 = ((u \div 32) % 64) + 64 * (u \div 1048576)
  BY SMT, <1>1, <1>4, PowerTable DEF JType, Fields
<1>6. (u \div 4096) % 8 = 7 * s /\ (u \div 32768) % 32 = 31 * s
  BY SMT, <1>3
<1>7. u % 32 = 2 * k /\ u % 2 = 0 /\ (u \div 2048) % 2 = s
  BY SMT, <1>3
<1>8. (u \div 32) % 64 = m /\ u \div 1048576 = s
  BY SMT, <1>3
<1>9. i.funct3 = 7 * s /\ i.rs1 = 31 * s /\ i.rs2 = 2 * k + s /\ i.funct7 = m + 64 * s
  BY SMT, <1>5, <1>6, <1>7, <1>8
<1>10. /\ (2 * k + s) \div 2 = k /\ (2 * k + s) % 2 = s /\ (m + 64 * s) % 64 = m
       /\ (m + 64 * s) \div 64 = s
  BY SMT
<1>11. ImmJ(i) = sign_extend(2 * (k + 16 * m) + 2048 * s + 4096 * (7 * s + 8 * (31 * s))
                             + 1048576 * s, 21)
  BY SMT, <1>9, <1>10, PowerTable DEF ImmJ
<1>12. 2 * (k + 16 * m) + 2048 * s + 4096 * (7 * s + 8 * (31 * s)) + 1048576 * s = u
  BY SMT, <1>3
<1>13. sign_extend(u, 21) = Wrap(IF u >= 1048576 THEN u - 2097152 ELSE u)
  BY SMT, PowerTable DEF sign_extend
<1>14. (IF u >= 1048576 THEN u - 2097152 ELSE u) = o
  BY SMT, <1>2, <1>3 DEF Parts
<1>15. QED
  BY SMT, <1>4, <1>11, <1>12, <1>13, <1>14

LEMMA BranchOffset ==
  ASSUME NEW f, NEW rs1, NEW rs2, NEW o \in Imm12, o % 2 = 0
  PROVE  ImmB(BType(f, rs1, rs2, o)) = Wrap(o)
<1>1. PICK u : u = o % 2^13
  OBVIOUS
<1>2. PICK k \in 0 .. 15, m \in 0 .. 63, s \in 0 .. 1 : Parts(o, k, m, s)
  BY OffsetParts
<1>3. u = 2 * k + 32 * m + 6144 * s
  <2>1. u = o % 8192
    BY SMT, <1>1, PowerTable
  <2>2. QED
    BY SMT, <1>2, <2>1 DEF Parts
<1>4. PICK i : i = BType(f, rs1, rs2, o)
  OBVIOUS
<1>5. /\ i.rd = (u % 32) - (u % 2) + ((u \div 2048) % 2)
      /\ i.funct7 = ((u \div 32) % 64) + 64 * (u \div 4096)
  BY SMT, <1>1, <1>4 DEF BType, Fields
<1>6. u % 32 = 2 * k /\ u % 2 = 0 /\ (u \div 2048) % 2 = s
  BY SMT, <1>3
<1>7. (u \div 32) % 64 = m /\ u \div 4096 = s
  BY SMT, <1>3
<1>8. i.rd = 2 * k + s /\ i.funct7 = m + 64 * s
  BY SMT, <1>5, <1>6, <1>7
<1>9. /\ (2 * k + s) % 2 = s /\ (m + 64 * s) % 64 = m /\ (m + 64 * s) \div 64 = s
  BY SMT
<1>10. ImmB(i) = sign_extend(2 * k + s - s + 32 * m + 2048 * s + 4096 * s, 13)
  BY SMT, <1>8, <1>9 DEF ImmB
<1>11. 2 * k + s - s + 32 * m + 2048 * s + 4096 * s = u
  BY SMT, <1>3
<1>12. sign_extend(u, 13) = Wrap(IF u >= 4096 THEN u - 8192 ELSE u)
  BY SMT, PowerTable DEF sign_extend
<1>13. (IF u >= 4096 THEN u - 8192 ELSE u) = o
  BY SMT, <1>2, <1>3 DEF Parts
<1>14. QED
  BY SMT, <1>4, <1>10, <1>11, <1>12, <1>13

LEMMA ExecJal ==
  ASSUME NEW h, NEW rd, NEW o \in Imm12, o % 2 = 0
  PROVE  execute_instruction(h, JType(rd, o), 2)
         = Goto(write_reg(h, rd, Wrap(h.pc + 2)), h.pc + Wrap(o))
<1>1. PICK i : i = JType(rd, o)
  OBVIOUS
<1>2. i.opcode = 111 /\ i.rd = rd
  BY <1>1 DEF JType, Fields
<1>3. ImmJ(i) = Wrap(o)
  BY <1>1, JumpOffset
<1>4. execute_instruction(h, i, 2) = Goto(write_reg(h, i.rd, Wrap(h.pc + 2)), h.pc + ImmJ(i))
  BY <1>2 DEF execute_instruction
<1>5. QED
  BY <1>1, <1>2, <1>3, <1>4

LEMMA ExecJalr ==
  ASSUME NEW h, NEW rd, NEW r, h.x[r] \in Word, h.x[r] % 2 = 0
  PROVE  execute_instruction(h, Jalr(rd, r), 2) = Goto(write_reg(h, rd, Wrap(h.pc + 2)), h.x[r])
<1>1. PICK i : i = Jalr(rd, r)
  OBVIOUS
<1>2. 0 \in Imm10
  BY DEF Imm10
<1>3. i.opcode = 103 /\ i.rd = rd /\ i.rs1 = r /\ ImmI(i) = 0
  BY <1>1, <1>2, ShortOffset, ITypeFields DEF Jalr
<1>4. h.x[r] \in Nat /\ h.x[r] < WORD
  BY WordUnits DEF Word
<1>5. Wrap(h.x[r] + 0) = h.x[r]
  BY <1>4, Fits
<1>6. PICK t : t = Wrap(h.x[r] + 0)
  OBVIOUS
<1>7. execute_instruction(h, i, 2) = Goto(write_reg(h, rd, Wrap(h.pc + 2)), t - (t % 2))
  BY <1>3, <1>6 DEF execute_instruction
<1>8. t - (t % 2) = h.x[r]
  BY <1>4, <1>5, <1>6
<1>9. QED
  BY <1>1, <1>7, <1>8

LEMMA ExecBranch ==
  ASSUME NEW h, NEW r, NEW f \in {0, 1}, NEW o \in Imm12, o % 2 = 0
  PROVE  execute_instruction(h, BType(f, r, 0, o), 2)
         = IF (h.x[r] = h.x[0]) = (f = 0) THEN Goto(h, h.pc + Wrap(o)) ELSE Two(h)
<1>1. PICK i : i = BType(f, r, 0, o)
  OBVIOUS
<1>2. i.opcode = 99 /\ i.funct3 = f /\ i.rs1 = r /\ i.rs2 = 0
  BY <1>1 DEF BType, Fields
<1>3. ImmB(i) = Wrap(o)
  BY <1>1, BranchOffset
<1>4. Taken(f, h.x[r], h.x[0]) <=> (h.x[r] = h.x[0]) = (f = 0)
  BY DEF Taken
<1>5. execute_instruction(h, i, 2)
      = IF Taken(i.funct3, h.x[i.rs1], h.x[i.rs2]) THEN Goto(h, h.pc + ImmB(i)) ELSE Two(h)
  BY <1>2 DEF execute_instruction, Two
<1>6. QED
  BY <1>1, <1>2, <1>3, <1>4, <1>5

LEMMA ExecEbreak ==
  ASSUME NEW h  PROVE execute_instruction(h, make_ebreak, 2) = Stop(h)
<1>1. make_ebreak.opcode = 115
  BY DEF make_ebreak, IType, Fields
<1>2. QED
  BY <1>1 DEF execute_instruction

\* lui fills the upper part of the word, however wide it is.
LEMMA ShiftedUp ==
  ASSUME NEW n \in -32 .. 31
  PROVE  ImmU(make_lui(0, n % 2^20)) = Sll(Wrap(n), 12)
<1>1. PICK k : k = n % 2^20
  OBVIOUS
<1>2. k = IF n < 0 THEN n + 1048576 ELSE n
  BY SMT, <1>1, PowerTable
<1>3. k \in Nat /\ k < 1048576
  BY SMT, <1>2
<1>4. PICK Q : Q = WORD \div 4096
  OBVIOUS
<1>5. (k % 8) + 8 * ((k \div 8) % 32) + 256 * ((k \div 256) % 32) + 8192 * ((k \div 8192) % 128) = k
  BY SMT, <1>3, LuiFields
<1>6. ImmU(make_lui(0, k)) = 4096 * (k % Q)
  BY SMT, <1>4, <1>5 DEF ImmU, make_lui, Fields
<1>7. 2^(W - 12) = Q
  <2>1. 12 \in 0 .. W /\ W - 12 \in 0 .. 32
    BY WidthAssumption
  <2>2. 2^(W - 12) * 2^12 = WORD
    BY <2>1, PowersSplit
  <2>3. 2^(W - 12) \in Nat
    BY <2>1, Powers
  <2>4. 2^12 = 4096
    BY PowerTable
  <2>5. QED
    BY SMT, <1>4, <2>2, <2>3, <2>4
<1>8. Sll(Wrap(n), 12) = (Wrap(n) % Q) * 4096
  BY SMT, <1>7, WidthAssumption, PowerTable DEF Sll
<1>9. Wrap(n) % Q = k % Q /\ k % Q \in Nat
  <2>1. CASE n < 0
    <3>1. Wrap(n) = n + WORD /\ k = n + 1048576
      BY SMT, <1>2, <2>1, WrapOnce, WordUnits
    <3>2. (n + WORD) % Q = (n + 1048576) % Q
      BY SMTT(60), <1>4, <2>1, WordSizes
    <3>3. (n + 1048576) % Q \in Nat
      BY SMTT(60), <1>4, WordSizes
    <3>4. QED
      BY SMT, <3>1, <3>2, <3>3
  <2>2. CASE n >= 0
    <3>1. Wrap(n) = n /\ k = n
      BY SMT, <1>2, <2>2, Fits, WordUnits
    <3>2. n % Q \in Nat
      BY SMT, <1>4, <2>2, WordSizes
    <3>3. QED
      BY SMT, <3>1, <3>2
  <2>3. QED
    BY SMT, <2>1, <2>2
<1>10. QED
  BY SMT, <1>1, <1>6, <1>8, <1>9

LEMMA ExecLui ==
  ASSUME NEW h, NEW r, NEW n \in -32 .. 31
  PROVE  execute_instruction(h, make_lui(r, n % 2^20), 2) = write_reg(Two(h), r, Sll(Wrap(n), 12))
<1>1. PICK m : m = n % 2^20
  OBVIOUS
<1>2. PICK i : i = make_lui(r, m)
  OBVIOUS
<1>3. i.opcode = 55 /\ i.rd = r
  BY <1>2 DEF make_lui, Fields
<1>4. ImmU(i) = ImmU(make_lui(0, m))
  BY <1>2 DEF make_lui, Fields, ImmU
<1>5. execute_instruction(h, i, 2) = write_reg(Two(h), r, ImmU(i))
  BY <1>3 DEF execute_instruction, Two
<1>6. QED
  BY <1>1, <1>2, <1>4, <1>5, ShiftedUp

\* rv_step's advance by two bytes, which execute_instruction makes first.
LEMMA AfterWrite ==
  ASSUME NEW h, HartOK(h), h.running, NEW r, NEW v
  PROVE  /\ AfterCompressed(h, write_reg(h, r, v)) = write_reg(Two(h), r, v)
         /\ AfterCompressed(h, h) = Two(h)
         /\ AfterCompressed(h, Stop(h)) = Stop(h)
BY DEF AfterCompressed, write_reg, Two, Goto, Stop, HartOK, Hart

LEMMA AfterRequest ==
  ASSUME NEW h, HartOK(h), h.running, NEW r, NEW addr
  PROVE  /\ AfterCompressed(h, LoadWord(h, r, addr))
            = Request(write_reg(Two(h), r, h.data), "LW", addr, 0)
         /\ AfterCompressed(h, StoreWord(h, r, addr)) = Request(Two(h), "SW", addr, h.x[r])
BY DEF AfterCompressed, LoadWord, StoreWord, Request, write_reg, Two, Goto, HartOK, Hart

LEMMA AfterJump ==
  ASSUME NEW h, NEW done, done.pc # h.pc  PROVE AfterCompressed(h, done) = done
BY DEF AfterCompressed

LEMMA TwoState ==
  ASSUME NEW h, HartOK(h)
  PROVE  Two(h).x = h.x /\ Two(h).data = h.data /\ Two(h).running = h.running
BY DEF Two, Goto, HartOK, Hart

Matches(h, c) ==
  AfterCompressed(h, execute_compressed(h, c)) = execute_instruction(h, Expansion(c), 2)

LEMMA Quadrant0Expands ==
  ASSUME NEW h, HartOK(h), h.running, NEW c \in Insn16, Quadrant(c) = 0, ~Misread(c)
  PROVE  Matches(h, c)
<1> DEFINE n == Imm(c, CIW, <<5, 4, 9, 8, 7, 6, 2, 3>>)
           r2 == RegAt2(c)
           r7 == RegAt7(c)
<1>1. execute_compressed(h, c) = Quadrant0(h, c)
  BY DEF execute_compressed
<1>2. n = CImm4spn(c) /\ n \in Imm10
  BY ImmediateCIW DEF Imm10
<1>3. Field(c, 5, 1) \in {0, 1}
  BY BitType
<1>4. CASE Funct3(c) = 0 /\ n # 0
  <2>1. Expansion(c) = make_addi(r2, 2, n)
    BY <1>4 DEF Expansion
  <2>2. Quadrant0(h, c) = write_reg(h, r2, Wrap(h.x[2] + n))
    BY <1>2, <1>4 DEF Quadrant0
  <2> HIDE DEF n, r2
  <2>3. n \in Imm12 /\ Wrap(n) = n
    BY <1>2, ShortOffset
  <2>4. execute_instruction(h, make_addi(r2, 2, n), 2) = write_reg(Two(h), r2, Wrap(h.x[2] + n))
    BY <2>3, ExecAddi
  <2>5. AfterCompressed(h, Quadrant0(h, c)) = write_reg(Two(h), r2, Wrap(h.x[2] + n))
    BY <2>2, AfterWrite
  <2>6. QED
    BY <1>1, <2>1, <2>4, <2>5 DEF Matches
<1>5. CASE Funct3(c) \in {2, 6}
  <2>1. Field(c, 5, 1) = 0
    BY <1>3, <1>5 DEF Misread
  <2>2. PICK o : o = OffsetCL(c)
    OBVIOUS
  <2>3. CImmLw(c) = o /\ o \in Imm10
    BY <2>1, <2>2, ImmediateCL DEF Imm10
  <2>4. r2 \in 0 .. 31 /\ r7 \in 0 .. 31
    BY RegisterTypes
  <2>5. CASE Funct3(c) = 2
    <3>1. Expansion(c) = make_lw(r2, r7, o)
      BY <2>2, <2>5 DEF Expansion
    <3>2. Quadrant0(h, c) = LoadWord(h, r2, h.x[r7] + o)
      BY <2>3, <2>5 DEF Quadrant0
    <3> HIDE DEF r2, r7
    <3>3. QED
      BY <1>1, <2>3, <3>1, <3>2, ExecLw, AfterRequest DEF Matches
  <2>6. CASE Funct3(c) = 6
    <3>1. Expansion(c) = make_sw(r2, r7, o)
      BY <2>2, <2>6 DEF Expansion
    <3>2. Quadrant0(h, c) = StoreWord(h, r2, h.x[r7] + o)
      BY <2>3, <2>6 DEF Quadrant0
    <3> HIDE DEF r2, r7
    <3>3. h.x[r2] \in Word
      BY <2>4, ReadOK
    <3>4. QED
      BY <1>1, <2>3, <3>1, <3>2, <3>3, ExecSw, AfterRequest DEF Matches
  <2>7. QED
    BY <1>5, <2>5, <2>6
<1>6. CASE ~(Funct3(c) = 0 /\ n # 0) /\ Funct3(c) \notin {2, 6}
  <2>1. Expansion(c) = make_ebreak
    BY <1>6 DEF Expansion
  <2>2. Quadrant0(h, c) = Stop(h)
    BY <1>2, <1>6 DEF Quadrant0
  <2>3. QED
    BY <1>1, <2>1, <2>2, ExecEbreak, AfterWrite DEF Matches
<1>7. QED
  BY <1>4, <1>5, <1>6

\* Where the expansion jumps, so does the code, if not to itself.
LEMMA JumpMatches ==
  ASSUME NEW h, HartOK(h), h.running, NEW c, ~Misjumps(h, c), NEW r, NEW v, NEW target,
         execute_instruction(h, Expansion(c), 2) = Goto(write_reg(h, r, v), target),
         execute_compressed(h, c) = Goto(write_reg(h, r, v), target)
  PROVE  Matches(h, c)
<1>1. PICK due : due = execute_instruction(h, Expansion(c), 2)
  OBVIOUS
<1>2. ~(due.running /\ due.pc = h.pc)
  BY <1>1 DEF Misjumps
<1>3. due.running
  BY <1>1 DEF Goto, write_reg, HartOK, Hart
<1>4. AfterCompressed(h, due) = due
  BY <1>2, <1>3, AfterJump
<1>5. QED
  BY <1>1, <1>4 DEF Matches

LEMMA ArithmeticExpands ==
  ASSUME NEW h, HartOK(h), h.running, NEW c \in Insn16, Quadrant(c) = 1, Funct3(c) = 4,
         ~Unreserved(c)
  PROVE  Matches(h, c)
<1> DEFINE r7 == RegAt7(c)
           r2 == RegAt2(c)
           n == ImmCI(c)
           s == Rs2(c)
<1>1. execute_compressed(h, c) = Arithmetic(h, c)
  BY DEF execute_compressed, Quadrant1
<1>2. Field(c, 10, 2) \in 0 .. 3 /\ Field(c, 12, 1) \in {0, 1} /\ Field(c, 5, 2) \in 0 .. 3
  BY FieldBits, BitType
<1>3. CASE Field(c, 10, 2) \in {0, 1}
  <2>1. Shamt(c) < 32 /\ Shamt(c) = s /\ s \in 0 .. 31
    <3>1. Shamt(c) \in 0 .. 63 /\ s \in 0 .. 31
      BY RegisterTypes
    <3>2. ~(Shamt(c) >= 32)
      BY <1>3 DEF Unreserved
    <3>3. Shamt(c) = 32 * Field(c, 12, 1) + s
      BY DEF Shamt, Rs2
    <3> HIDE DEF s
    <3>4. QED
      BY <1>2, <3>1, <3>2, <3>3
  <2>2. Amount(c) = s
    BY <2>1 DEF Amount
  <2>3. CASE Field(c, 10, 2) = 0
    <3>1. Expansion(c) = IType(19, 5, r7, r7, s)
      BY <2>1, <2>3 DEF Expansion
    <3>2. Arithmetic(h, c) = write_reg(h, r7, Srl(h.x[r7], s))
      BY <2>2, <2>3 DEF Arithmetic
    <3> HIDE DEF r7, s
    <3>3. QED
      BY <1>1, <2>1, <3>1, <3>2, ExecShift, AfterWrite DEF Matches
  <2>4. CASE Field(c, 10, 2) = 1
    <3>1. Expansion(c) = IType(19, 5, r7, r7, 1024 + s)
      BY <2>1, <2>4 DEF Expansion
    <3>2. Arithmetic(h, c) = write_reg(h, r7, Sra(h.x[r7], s))
      BY <2>2, <2>4 DEF Arithmetic
    <3> HIDE DEF r7, s
    <3>3. QED
      BY <1>1, <2>1, <3>1, <3>2, ExecShift, AfterWrite DEF Matches
  <2>5. QED
    BY <1>3, <2>3, <2>4
<1>4. CASE Field(c, 10, 2) = 2
  <2>1. Expansion(c) = IType(19, 7, r7, r7, n)
    BY <1>4 DEF Expansion
  <2>2. Arithmetic(h, c) = write_reg(h, r7, And(h.x[r7], CImm6(c)))
    BY <1>4 DEF Arithmetic
  <2>3. CImm6(c) = Wrap(n) /\ n \in Imm12
    BY ImmediateCI DEF Imm12
  <2> HIDE DEF r7, n
  <2>4. QED
    BY <1>1, <2>1, <2>2, <2>3, ExecAndi, AfterWrite DEF Matches
<1>5. CASE Field(c, 10, 2) = 3 /\ Field(c, 12, 1) = 1
  <2>1. Expansion(c) = make_ebreak
    BY <1>5 DEF Expansion
  <2>2. Arithmetic(h, c) = Stop(h)
    BY <1>5 DEF Arithmetic
  <2>3. QED
    BY <1>1, <2>1, <2>2, ExecEbreak, AfterWrite DEF Matches
<1>6. CASE Field(c, 10, 2) = 3 /\ Field(c, 12, 1) = 0
  <2> DEFINE k == Field(c, 5, 2)
             a == h.x[r7]
             b == h.x[r2]
  <2>1. Expansion(c) = <<RType(0, r7, r7, r2, 32), RType(4, r7, r7, r2, 0),
                         RType(6, r7, r7, r2, 0), RType(7, r7, r7, r2, 0)>>[k + 1]
    BY <1>6 DEF Expansion
  <2>2. Arithmetic(h, c) = write_reg(h, r7, <<Wrap(a - b), Xor(a, b), Or(a, b), And(a, b)>>[k + 1])
    BY <1>6 DEF Arithmetic
  <2>3. k \in 0 .. 3
    BY <1>2
  <2> HIDE DEF r7, r2, k
  <2>4. \/ Expansion(c) = RType(0, r7, r7, r2, 32) /\ Arithmetic(h, c) = write_reg(h, r7, Wrap(a - b))
        \/ Expansion(c) = RType(4, r7, r7, r2, 0) /\ Arithmetic(h, c) = write_reg(h, r7, Xor(a, b))
        \/ Expansion(c) = RType(6, r7, r7, r2, 0) /\ Arithmetic(h, c) = write_reg(h, r7, Or(a, b))
        \/ Expansion(c) = RType(7, r7, r7, r2, 0) /\ Arithmetic(h, c) = write_reg(h, r7, And(a, b))
    BY <2>1, <2>2, <2>3
  <2>5. QED
    BY <1>1, <2>4, ExecRegisters, AfterWrite DEF Matches
<1>7. QED
  BY <1>2, <1>3, <1>4, <1>5, <1>6

LEMMA Quadrant1Expands ==
  ASSUME NEW h, HartOK(h), h.running, NEW c \in Insn16, Quadrant(c) = 1, ~Departs(h, c)
  PROVE  Matches(h, c)
<1> DEFINE r == Rd(c)
           n == ImmCI(c)
<1>1. execute_compressed(h, c) = Quadrant1(h, c)
  BY DEF execute_compressed
<1>2. ~Misread(c) /\ ~Unreserved(c) /\ ~Misjumps(h, c)
  BY DEF Departs
<1>3. CImm6(c) = Wrap(n) /\ n \in Imm12 /\ n \in -32 .. 31 /\ (n = 0 <=> Shamt(c) = 0)
  BY ImmediateCI DEF Imm12
<1>4. PICK o : o = OffsetCJ(c)
  OBVIOUS
<1>5. CImmJ(c) = Wrap(o) /\ o \in Imm12 /\ o % 2 = 0
  BY <1>4, ImmediateCJ DEF Imm12
<1>6. r \in 0 .. 31 /\ Funct3(c) \in 0 .. 7 /\ h.x[0] = 0
  BY RegisterTypes DEF HartOK
<1>7. CASE Funct3(c) = 0
  <2>1. Expansion(c) = make_addi(r, r, n)
    BY <1>7 DEF Expansion
  <2>2. Quadrant1(h, c) = write_reg(h, r, Wrap(h.x[r] + Wrap(n)))
    BY <1>3, <1>7 DEF Quadrant1
  <2> HIDE DEF r, n
  <2>3. QED
    BY <1>1, <1>3, <2>1, <2>2, ExecAddi, AfterWrite DEF Matches
<1>8. CASE Funct3(c) = 1
  <2>1. Expansion(c) = JType(1, o)
    BY <1>4, <1>8 DEF Expansion
  <2>2. Quadrant1(h, c) = Goto(write_reg(h, 1, Wrap(h.pc + 2)), h.pc + Wrap(o))
    BY <1>5, <1>8 DEF Quadrant1
  <2>3. execute_instruction(h, JType(1, o), 2)
        = Goto(write_reg(h, 1, Wrap(h.pc + 2)), h.pc + Wrap(o))
    BY <1>5, ExecJal
  <2>4. QED
    BY <1>1, <1>2, <2>1, <2>2, <2>3, JumpMatches
<1>9. CASE Funct3(c) = 2
  <2>1. Expansion(c) = make_addi(r, 0, n)
    BY <1>9 DEF Expansion
  <2>2. Quadrant1(h, c) = write_reg(h, r, Wrap(n))
    BY <1>3, <1>9 DEF Quadrant1
  <2>3. Wrap(h.x[0] + Wrap(n)) = Wrap(n)
    <3>1. Wrap(n) \in Nat /\ Wrap(n) < WORD
      BY <1>3, WrapType, WordUnits DEF Word
    <3>2. Wrap(Wrap(n)) = Wrap(n)
      BY <3>1, Fits
    <3>3. QED
      BY <1>6, <3>1, <3>2
  <2> HIDE DEF r, n
  <2>4. QED
    BY <1>1, <1>3, <2>1, <2>2, <2>3, ExecAddi, AfterWrite DEF Matches
<1>10. CASE Funct3(c) = 3 /\ r = 2
  <2>1. PICK m : m = Minus(Imm(c, CI, <<9, 4, 6, 8, 7, 5>>), 10)
    OBVIOUS
  <2>2. Rs2(c) = 0 /\ Shamt(c) # 0
    <3>1. Shamt(c) # 0
      BY <1>2, <1>10 DEF Unreserved
    <3>2. QED
      BY <1>2, <1>10, <3>1 DEF Misread
  <2>3. m \in Imm12 /\ m # 0 /\ CImm16sp(c) = Wrap(m)
    BY <2>1, <2>2, ImmediateSp DEF Imm12
  <2>4. Expansion(c) = make_addi(2, 2, m)
    BY <1>10, <2>1, <2>3 DEF Expansion
  <2>5. Quadrant1(h, c) = write_reg(h, 2, Wrap(h.x[2] + Wrap(m)))
    BY <1>10, <2>3 DEF Quadrant1
  <2>6. QED
    BY <1>1, <2>3, <2>4, <2>5, ExecAddi, AfterWrite DEF Matches
<1>11. CASE Funct3(c) = 3 /\ r # 2 /\ n # 0
  <2>1. Expansion(c) = make_lui(r, n % 2^20)
    BY <1>11 DEF Expansion
  <2>2. execute_instruction(h, make_lui(r, n % 2^20), 2) = write_reg(Two(h), r, Sll(Wrap(n), 12))
    BY <1>3, ExecLui
  <2>3. CASE r = 0
    <3>1. Quadrant1(h, c) = h
      BY <1>11, <2>3 DEF Quadrant1
    <3>2. write_reg(Two(h), r, Sll(Wrap(n), 12)) = Two(h)
      BY <2>3 DEF write_reg
    <3>3. QED
      BY <1>1, <2>1, <2>2, <3>1, <3>2, AfterWrite DEF Matches
  <2>4. CASE r # 0
    <3>1. Quadrant1(h, c) = write_reg(h, r, Sll(Wrap(n), 12))
      BY <1>3, <1>11, <2>4 DEF Quadrant1
    <3> HIDE DEF r, n
    <3>2. QED
      BY <1>1, <2>1, <2>2, <3>1, AfterWrite DEF Matches
  <2>5. QED
    BY <2>3, <2>4
<1>12. CASE Funct3(c) = 3 /\ r # 2 /\ n = 0
  <2>1. Shamt(c) = 0 /\ r # 0
    <3>1. Shamt(c) = 0
      BY <1>3, <1>12
    <3>2. QED
      BY <1>2, <1>12, <3>1 DEF Unreserved
  <2>2. Expansion(c) = make_ebreak
    BY <1>12 DEF Expansion
  <2>3. Quadrant1(h, c) = Stop(h)
    BY <1>12, <2>1 DEF Quadrant1
  <2>4. QED
    BY <1>1, <2>2, <2>3, ExecEbreak, AfterWrite DEF Matches
<1>13. CASE Funct3(c) = 4
  BY <1>2, <1>13, ArithmeticExpands
<1>14. CASE Funct3(c) = 5
  <2>1. Expansion(c) = JType(0, o)
    BY <1>4, <1>14 DEF Expansion
  <2>2. Quadrant1(h, c) = Goto(write_reg(h, 0, Wrap(h.pc + 2)), h.pc + Wrap(o))
    BY <1>5, <1>14 DEF Quadrant1, write_reg
  <2>3. execute_instruction(h, JType(0, o), 2)
        = Goto(write_reg(h, 0, Wrap(h.pc + 2)), h.pc + Wrap(o))
    BY <1>5, ExecJal
  <2>4. QED
    BY <1>1, <1>2, <2>1, <2>2, <2>3, JumpMatches
<1>15. CASE Funct3(c) \in {6, 7}
  <2> DEFINE r7 == RegAt7(c)
             f == Funct3(c) - 6
  <2>1. Field(c, 6, 1) = 0
    <3>1. Field(c, 6, 1) \in {0, 1}
      BY BitType
    <3>2. QED
      BY <1>2, <1>15, <3>1 DEF Misread
  <2>2. PICK b : b = OffsetCB(c)
    OBVIOUS
  <2>3. CImmB(c) = Wrap(b) /\ b \in Imm12 /\ b % 2 = 0
    BY <2>1, <2>2, ImmediateCB DEF Imm12
  <2>4. Expansion(c) = BType(f, r7, 0, b)
    BY <1>15, <2>2 DEF Expansion
  <2>5. f \in {0, 1} /\ (f = 0 <=> Funct3(c) = 6)
    BY <1>15
  <2>6. Quadrant1(h, c) = IF (h.x[r7] = h.x[0]) = (f = 0) THEN Goto(h, h.pc + Wrap(b)) ELSE h
    BY <1>6, <1>15, <2>3 DEF Quadrant1
  <2> HIDE DEF r7, f
  <2>7. execute_instruction(h, BType(f, r7, 0, b), 2)
        = IF (h.x[r7] = h.x[0]) = (f = 0) THEN Goto(h, h.pc + Wrap(b)) ELSE Two(h)
    BY <2>3, <2>5, ExecBranch
  <2>8. CASE (h.x[r7] = h.x[0]) = (f = 0)
    <3>1. Goto(h, h.pc + Wrap(b)) = Goto(write_reg(h, 0, 0), h.pc + Wrap(b))
      BY DEF write_reg
    <3>2. QED
      BY <1>1, <1>2, <2>4, <2>6, <2>7, <2>8, <3>1, JumpMatches
  <2>9. CASE ~((h.x[r7] = h.x[0]) = (f = 0))
    BY <1>1, <2>4, <2>6, <2>7, <2>9, AfterWrite DEF Matches
  <2>10. QED
    BY <2>8, <2>9
<1>16. QED
  BY <1>6, <1>7, <1>8, <1>9, <1>10, <1>11, <1>12, <1>13, <1>14, <1>15

LEMMA Quadrant2Expands ==
  ASSUME NEW h, HartOK(h), h.running, NEW c \in Insn16, Quadrant(c) = 2, ~Departs(h, c)
  PROVE  Matches(h, c)
<1> DEFINE r == Rd(c)
           s == Rs2(c)
<1>1. execute_compressed(h, c) = Quadrant2(h, c)
  BY DEF execute_compressed
<1>2. ~Misread(c) /\ ~Unreserved(c) /\ ~Misjumps(h, c)
  BY DEF Departs
<1>3. /\ r \in 0 .. 31 /\ s \in 0 .. 31 /\ Funct3(c) \in 0 .. 7 /\ h.x[0] = 0
      /\ h.x[r] \in Word /\ h.x[s] \in Word
  BY RegisterTypes, ReadOK DEF HartOK
<1>4. Field(c, 12, 1) \in {0, 1}
  BY BitType
<1>5. CASE Funct3(c) = 0
  <2>1. Shamt(c) < 32 /\ Shamt(c) = s /\ s \in 0 .. 31
    <3>1. Shamt(c) \in 0 .. 63 /\ s \in 0 .. 31
      BY RegisterTypes
    <3>2. ~(Shamt(c) >= 32)
      BY <1>2, <1>5 DEF Unreserved
    <3>3. Shamt(c) = 32 * Field(c, 12, 1) + s
      BY DEF Shamt, Rs2
    <3> HIDE DEF s
    <3>4. QED
      BY <1>4, <3>1, <3>2, <3>3
  <2>2. Amount(c) = s
    BY <2>1 DEF Amount
  <2>3. Expansion(c) = IType(19, 1, r, r, s)
    BY <1>5, <2>1 DEF Expansion
  <2>4. Quadrant2(h, c) = write_reg(h, r, Sll(h.x[r], s))
    BY <1>5, <2>2 DEF Quadrant2
  <2> HIDE DEF r, s
  <2>5. QED
    BY <1>1, <1>3, <2>3, <2>4, ExecShift, AfterWrite DEF Matches
<1>6. CASE Funct3(c) = 2
  <2>1. s = 0 /\ r # 0
    BY <1>2, <1>6 DEF Misread, Unreserved
  <2>2. PICK n : n = Imm(c, CI, <<5, 4, 3, 2, 7, 6>>)
    OBVIOUS
  <2>3. CImmLwsp(c) = n /\ n \in Imm10
    BY <2>1, <2>2, ImmediateSp DEF Imm10
  <2>4. Expansion(c) = make_lw(r, 2, n)
    BY <1>6, <2>1, <2>2 DEF Expansion
  <2>5. Quadrant2(h, c) = LoadWord(h, r, h.x[2] + n)
    BY <1>6, <2>3 DEF Quadrant2
  <2> HIDE DEF r
  <2>6. QED
    BY <1>1, <2>3, <2>4, <2>5, ExecLw, AfterRequest DEF Matches
<1>7. CASE Funct3(c) = 4 /\ s # 0 /\ Field(c, 12, 1) = 0
  <2>1. Expansion(c) = RType(0, r, 0, s, 0)
    BY <1>7 DEF Expansion
  <2>2. Quadrant2(h, c) = write_reg(h, r, h.x[s])
    BY <1>7 DEF Quadrant2
  <2> HIDE DEF r, s
  <2>3. Wrap(h.x[0] + h.x[s]) = h.x[s]
    <3>1. h.x[s] \in Nat /\ h.x[s] < WORD
      BY <1>3, WordUnits DEF Word
    <3>2. Wrap(h.x[s]) = h.x[s] /\ h.x[0] + h.x[s] = h.x[s]
      BY <1>3, <3>1, Fits
    <3>3. QED
      BY <3>2
  <2>4. QED
    BY <1>1, <2>1, <2>2, <2>3, ExecRegisters, AfterWrite DEF Matches
<1>8. CASE Funct3(c) = 4 /\ s # 0 /\ Field(c, 12, 1) = 1
  <2>1. Expansion(c) = RType(0, r, r, s, 0)
    BY <1>8 DEF Expansion
  <2>2. Quadrant2(h, c) = write_reg(h, r, Wrap(h.x[r] + h.x[s]))
    BY <1>8 DEF Quadrant2
  <2> HIDE DEF r, s
  <2>3. QED
    BY <1>1, <2>1, <2>2, ExecRegisters, AfterWrite DEF Matches
<1>9. CASE Funct3(c) = 4 /\ s = 0 /\ r = 0
  <2>1. Expansion(c) = make_ebreak
    BY <1>9 DEF Expansion
  <2>2. Quadrant2(h, c) = Stop(h)
    BY <1>9 DEF Quadrant2
  <2>3. QED
    BY <1>1, <2>1, <2>2, ExecEbreak, AfterWrite DEF Matches
<1>10. CASE Funct3(c) = 4 /\ s = 0 /\ r # 0
  <2> DEFINE link == Field(c, 12, 1)
  <2>1. Expansion(c) = Jalr(link, r)
    BY <1>10 DEF Expansion
  <2>2. h.x[r] % 2 = 0
    <3>1. ~(h.x[r] % 2 = 1) /\ h.x[r] \in Nat
      BY <1>2, <1>3, <1>10, WordUnits DEF Misjumps, Word
    <3>2. QED
      BY <3>1
  <2>3. execute_instruction(h, Jalr(link, r), 2) = Goto(write_reg(h, link, Wrap(h.pc + 2)), h.x[r])
    <3> HIDE DEF link, r
    <3>1. QED
      BY <1>3, <2>2, ExecJalr
  <2>4. ~(link = 1 /\ r = 1)
    BY <1>2, <1>10 DEF Misjumps
  <2>5. Quadrant2(h, c) = Goto(write_reg(h, link, Wrap(h.pc + 2)), h.x[r])
    <3>1. CASE link = 1
      <4>1. Quadrant2(h, c) = Goto(write_reg(h, 1, Wrap(h.pc + 2)), write_reg(h, 1, Wrap(h.pc + 2)).x[r])
        BY <1>10, <3>1 DEF Quadrant2
      <4>2. write_reg(h, 1, Wrap(h.pc + 2)).x[r] = h.x[r]
        BY <1>3, <2>4, <3>1 DEF write_reg, HartOK, Hart
      <4>3. QED
        BY <3>1, <4>1, <4>2
    <3>2. CASE link = 0
      BY <1>10, <3>2 DEF Quadrant2, write_reg
    <3>3. QED
      BY <1>4, <3>1, <3>2
  <2> HIDE DEF r, link
  <2>6. QED
    BY <1>1, <1>2, <2>1, <2>3, <2>5, JumpMatches
<1>11. CASE Funct3(c) = 6
  BY <1>2, <1>11 DEF Misread
<1>12. CASE Funct3(c) \notin {0, 2, 4, 6}
  <2>1. Expansion(c) = make_ebreak
    BY <1>12 DEF Expansion
  <2>2. Quadrant2(h, c) = Stop(h)
    BY <1>12 DEF Quadrant2
  <2>3. QED
    BY <1>1, <2>1, <2>2, ExecEbreak, AfterWrite DEF Matches
<1>13. QED
  BY <1>4, <1>5, <1>6, <1>7, <1>8, <1>9, <1>10, <1>11, <1>12

LEMMA ExpandsStep ==
  InsnInv /\ StepShort /\ ~Departs(Quiet, prog[hart.pc].code) => Expands(Quiet)
<1>1. SUFFICES ASSUME InsnInv, StepShort, ~Departs(Quiet, prog[hart.pc].code)
               PROVE  Expands(Quiet)
  OBVIOUS
<1>2. PICK c : c = prog[hart.pc].code
  OBVIOUS
<1>3. c \in Insn16 /\ Quadrant(c) # 3
  BY <1>1, <1>2, ShortInsn DEF InsnInv, ProgOK, StepShort, Running
<1>4. Quadrant(c) \in 0 .. 3
  BY <1>3, RegisterTypes
<1>5. HartOK(hart) /\ HartOK(Quiet)
  BY <1>1, QuietOK DEF InsnInv
<1>6. Quiet.running /\ Quiet.pc = hart.pc
  BY <1>1, <1>5 DEF StepShort, Running, Quiet, HartOK, Hart
<1>7. hart' = AfterCompressed(Quiet, execute_compressed(Quiet, c))
  BY <1>1, <1>2, <1>5, AfterQuiet DEF StepShort
<1>8. PICK h : h = Quiet
  OBVIOUS
<1>9. Matches(h, c)
  BY <1>1, <1>2, <1>3, <1>4, <1>5, <1>6, <1>8, Quadrant0Expands, Quadrant1Expands, Quadrant2Expands
     DEF Departs
<1>10. QED
  BY <1>2, <1>6, <1>7, <1>8, <1>9 DEF Expands, Matches

\* Every 16-bit instruction of every program does, on every register file, what
\* the manual's expansion of it does, but where Departs says it does not.
THEOREM CompressedIsExpanded == InsnSpec => CompressedExpands
<1>1. InsnInv /\ [InsnNext]_insnVars
      => [StepShort /\ ~Departs(Quiet, prog[hart.pc].code) => Expands(Quiet)]_insnVars
  BY ExpandsStep
<1>2. QED
  BY <1>1, InsnInvInit, InsnInvStep, PTL DEF InsnSpec, CompressedExpands
=============================================================================
