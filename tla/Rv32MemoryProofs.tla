-------------------------- MODULE Rv32MemoryProofs --------------------------
(***************************************************************************)
(* Rv32Memory for every width of a byte, address map, program and buffer:  *)
(* what the state holds, the one way an access can leave memory[], the     *)
(* agreement of tohost with the reported exit, RAM and the bench's         *)
(* registers as byte stores, and what the loaders place.                   *)
(***************************************************************************)
EXTENDS Rv32Memory, TLAPS

LEMMA Product == ASSUME NEW a \in Nat, NEW b \in Nat PROVE a * b \in Nat
  OBVIOUS

LEMMA ValNat == ASSUME NEW w \in Word PROVE Val(w) \in Nat
<1>1. /\ w[0] \in Nat /\ w[1] \in Nat /\ w[2] \in Nat /\ w[3] \in Nat
      /\ BYTE \in Nat
  BY ByteAssumption DEF Word, Lane, Byte
<1>2. BYTE * w[3] \in Nat
  BY <1>1, Product
<1>3. w[2] + BYTE * w[3] \in Nat
  BY <1>1, <1>2
<1>4. BYTE * (w[2] + BYTE * w[3]) \in Nat
  BY <1>1, <1>3, Product
<1>5. w[1] + BYTE * (w[2] + BYTE * w[3]) \in Nat
  BY <1>1, <1>4
<1>6. BYTE * (w[1] + BYTE * (w[2] + BYTE * w[3])) \in Nat
  BY <1>1, <1>5, Product
<1>7. QED
  BY <1>1, <1>6 DEF Val

LEMMA ConstantWords == ZeroWord \in Word /\ OneWord \in Word /\ Addr \subseteq Nat
<1>1. 0 \in Byte /\ 1 \in Byte
  BY ByteAssumption DEF Byte
<1>2. QED
  BY <1>1, MapAssumption DEF ZeroWord, OneWord, Word, Lane, Addr

LEMMA Widths == ASSUME NEW op PROVE Width(op) \in {1, 2, 4}
  BY DEF Width

\* What reading the windows and RAM returns is a word.
LEMMA ShiftedWord == ASSUME NEW w \in Word, NEW k \in Nat PROVE Shifted(w, k) \in Word
<1>1. 0 \in Byte
  BY ByteAssumption DEF Byte
<1>2. ASSUME NEW i \in Lane PROVE (IF i + k \in Lane THEN w[i + k] ELSE 0) \in Byte
  BY <1>1 DEF Word
<1>3. QED
  BY <1>2 DEF Shifted, Word

LEMMA DeviceWord ==
  ASSUME MemTypeOK, NEW a \in Addr, a >= MMIO_BASE PROVE dpi_mmio_read(a) \in Word
<1>1. CASE a < MMIO_BASE + 4 * NRegs
  <2>1. a \in Nat /\ MMIO_BASE \in Nat /\ NRegs \in Nat
    BY MapAssumption, ConstantWords DEF Addr
  <2>2. (a - MMIO_BASE) \div 4 \in 0 .. NRegs - 1
    BY <1>1, <2>1
  <2>3. QED
    BY <1>1, <2>2 DEF dpi_mmio_read, MemTypeOK
<1>2. CASE ~(a < MMIO_BASE + 4 * NRegs)
  BY <1>2, ConstantWords DEF dpi_mmio_read
<1>3. QED
  BY <1>1, <1>2

LEMMA AlignedInWindow ==
  ASSUME NEW a \in Addr, is_mmio_address(a)
  PROVE  Aligned(a) \in Addr /\ Aligned(a) >= MMIO_BASE
<1>1. a \in Nat /\ a < TOP /\ MMIO_BASE \in Nat /\ MMIO_BASE % 4 = 0 /\ a >= MMIO_BASE
  BY MapAssumption, ConstantWords DEF Addr, is_mmio_address
<1>2. QED
  BY <1>1, MapAssumption DEF Aligned, Addr

LEMMA RamWord ==
  ASSUME MemTypeOK, NEW a \in Addr, NEW n \in {1, 2, 4}, ~Leaves(a, n)
  PROVE  RamRead(a, n) \in Word
<1>1. 0 \in Byte
  BY ByteAssumption DEF Byte
<1>2. CASE ~valid_memory_access(a, n)
  BY <1>2, ConstantWords DEF RamRead
<1>3. CASE valid_memory_access(a, n)
  <2>1. a \in Nat /\ memory_base \in Nat /\ memory_size \in Nat
        /\ a >= memory_base /\ a - memory_base + n <= memory_size
    BY <1>3, ConstantWords, MapAssumption DEF Leaves, valid_memory_access, MemTypeOK
  <2>2. ASSUME NEW i \in Lane, i < n PROVE memory[a - memory_base + i] \in Byte
    <3>1. a - memory_base + i \in 0 .. memory_size - 1
      BY <2>1, <2>2 DEF Lane
    <3>2. QED
      BY <3>1 DEF MemTypeOK
  <2>3. QED
    BY <1>1, <1>3, <2>2 DEF RamRead, Word
<1>4. QED
  BY <1>2, <1>3

LEMMA ReadWord ==
  ASSUME MemTypeOK, NEW a \in Addr, NEW n \in {1, 2, 4},
         ~(~is_htif_address(a) /\ ~is_mmio_address(a) /\ Leaves(a, n))
  PROVE  Read(a, n) \in Word
<1>1. CASE is_htif_address(a)
  <2>1. HtifRead(a) \in Word
    BY ConstantWords DEF HtifRead, MemTypeOK
  <2>2. QED
    BY <1>1, <2>1 DEF Read
<1>2. CASE ~is_htif_address(a) /\ is_mmio_address(a)
  <2>1. dpi_mmio_read(a) \in Word /\ dpi_mmio_read(Aligned(a)) \in Word
    BY <1>2, AlignedInWindow, DeviceWord DEF is_mmio_address
  <2>2. LaneOf(a, n) \in Nat
    BY ConstantWords DEF LaneOf
  <2>3. MmioRead(a, n) \in Word
    BY <2>1, <2>2, ShiftedWord DEF MmioRead
  <2>4. QED
    BY <1>2, <2>3 DEF Read
<1>3. CASE ~is_htif_address(a) /\ ~is_mmio_address(a)
  BY <1>3, RamWord DEF Read
<1>4. QED
  BY <1>1, <1>2, <1>3

LEMMA ExtendedWord ==
  ASSUME NEW op \in Loads, NEW w \in Word PROVE Extended(op, w) \in Word
<1>1. 0 \in Byte /\ BYTE - 1 \in Byte
  BY ByteAssumption DEF Byte
<1>2. ASSUME NEW n \in {1, 2} PROVE SignExtend(w, n) \in Word
  <2>1. w[n - 1] \in Byte /\ \A i \in Lane : w[i] \in Byte
    BY <1>2 DEF Word, Lane
  <2>2. QED
    BY <1>1, <2>1 DEF SignExtend, SignByte, Word
<1>3. op \in {"LB", "LH"} => Width(op) \in {1, 2}
  BY DEF Width
<1>4. QED
  BY <1>2, <1>3 DEF Extended

-----------------------------------------------------------------------------
(* The state                                                               *)

HtifType == [tohost_lo: Word, tohost_hi: Word, fromhost_lo: Word, fromhost_hi: Word,
             halted: BOOLEAN, exit_code: Nat]
AccessType == [op: Loads \union Stores \union {"none"}, addr: Addr, data: Word]
LoaderType == [by: {"none", "rv_init_elf", "rv_load_elf"},
               program: Programs \union {{}}, size: 0 .. MaxRam]

LEMMA Constants ==
  NoAccess \in AccessType /\ NoLoader \in LoaderType /\ NoRequest \in HtifType
  BY ConstantWords, MapAssumption
     DEF NoAccess, NoLoader, NoRequest, AccessType, LoaderType, HtifType, Addr

\* RAM of some size with bytes in it, as every placement leaves it.
RamOK(base, contents, size) ==
  base \in Addr /\ size \in 0 .. MaxRam /\ contents \in [0 .. size - 1 -> Byte]

LEMMA RamType ==
  ASSUME NEW base, NEW contents, NEW size, Ram(base, contents, size), RamOK(base, contents, size)
  PROVE  RamOK(memory_base, memory, memory_size)'
  BY DEF Ram, RamOK

LEMMA LosesRamType ==
  ASSUME MemTypeOK, LosesRam PROVE RamOK(memory_base, memory, memory_size)'
<1>1. NoBytes \in [0 .. 0 - 1 -> Byte]
  BY DEF NoBytes
<1>2. 0 \in 0 .. MaxRam /\ memory_base \in Addr
  BY MapAssumption DEF MemTypeOK
<1>3. QED
  BY <1>1, <1>2, RamType DEF LosesRam, RamOK

LEMMA LoadType ==
  ASSUME MemTypeOK, NEW op \in Loads, NEW a \in Addrs, Load(op, a) PROVE MemTypeOK'
<1>1. a \in Addr /\ Width(op) \in {1, 2, 4}
  BY InputAssumption, Widths
<1>2. rd' \in Word
  BY <1>1, ReadWord, ExtendedWord DEF Load, MemTypeOK
<1>3. at' \in AccessType /\ placed' \in LoaderType
  BY <1>1, ConstantWords, Constants DEF Load, AccessType
<1>4. crashed' \in BOOLEAN
  BY DEF Load
<1>5. ops' \in 0 .. MaxOps
  BY MapAssumption DEF Load, Running, MemTypeOK
<1>6. QED
  BY <1>2, <1>3, <1>4, <1>5 DEF Load, MemTypeOK, ram, AccessType, LoaderType

LEMMA RequestType ==
  ASSUME MemTypeOK, NEW w \in Word, Request(w) PROVE htif' \in HtifType
<1>1. htif \in HtifType
  BY DEF MemTypeOK, HtifType
<1>2. Val(w) \div 2 \in Nat
  BY ValNat
<1>3. [htif EXCEPT !.tohost_lo = w] \in HtifType
  BY <1>1 DEF HtifType
<1>4. [[htif EXCEPT !.tohost_lo = w] EXCEPT !.fromhost_lo = OneWord, !.fromhost_hi = ZeroWord]
        \in HtifType
  BY <1>3, ConstantWords DEF HtifType
<1>5. [[htif EXCEPT !.tohost_lo = w] EXCEPT !.halted = TRUE, !.exit_code = Val(w) \div 2]
        \in HtifType
  BY <1>2, <1>3 DEF HtifType
<1>6. QED
  BY <1>3, <1>4, <1>5 DEF Request

LEMMA DeviceStoreType ==
  ASSUME MemTypeOK, NEW a \in Nat, a >= MMIO_BASE, NEW w \in Word, dpi_mmio_write(a, w)
  PROVE  hw_cfg_reg' \in [0 .. NRegs - 1 -> Word]
  BY DEF dpi_mmio_write, MemTypeOK

LEMMA StoreType ==
  ASSUME MemTypeOK, NEW op \in Stores, NEW a \in Addrs, NEW w \in Words, Store(op, a, w)
  PROVE  MemTypeOK'
<1>1. a \in Addr /\ w \in Word /\ Width(op) \in {1, 2, 4}
  BY InputAssumption, Widths
<1>2. at' \in AccessType /\ placed' \in LoaderType
  BY <1>1, Constants DEF Store, AccessType
<1>3. ops' \in 0 .. MaxOps /\ rd' \in Word
  BY MapAssumption DEF Store, Running, MemTypeOK
<1>4. CASE StoreHtif(a, w)
  <2>1. htif' \in HtifType
    BY <1>1, <1>4, RequestType DEF StoreHtif, HtifType, MemTypeOK
  <2>2. QED
    BY <1>2, <1>3, <1>4, <2>1 DEF StoreHtif, MemTypeOK, ram, AccessType, LoaderType, HtifType
<1>5. CASE is_mmio_address(a) /\ StoreMmio(a, Width(op), w)
  <2>1. a \in Nat /\ a >= MMIO_BASE /\ Aligned(a) \in Nat /\ Aligned(a) >= MMIO_BASE
    BY <1>1, <1>5, AlignedInWindow, ConstantWords DEF is_mmio_address
  <2>2. dpi_mmio_read(Aligned(a)) \in Word
    BY <1>1, <1>5, AlignedInWindow, DeviceWord
  <2>3. LaneOf(a, Width(op)) \in Nat
    BY <2>1 DEF LaneOf
  <2>4. ASSUME NEW k \in Nat, NEW n \in {1, 2}, k + n <= 4, NEW old \in Word
        PROVE  Merged(old, w, k, n) \in Word
    BY <1>1, <2>4 DEF Merged, Word, Lane
  <2>5. Width(op) # 4 => /\ LaneOf(a, Width(op)) + Width(op) <= 4
                         /\ Width(op) \in {1, 2}
    BY <1>1, <2>1 DEF LaneOf
  <2>6. hw_cfg_reg' \in [0 .. NRegs - 1 -> Word]
    <3>1. CASE Width(op) = 4
      BY <1>1, <1>5, <2>1, <3>1, DeviceStoreType DEF StoreMmio
    <3>2. CASE Width(op) # 4
      BY <1>5, <2>1, <2>2, <2>3, <2>4, <2>5, <3>2, DeviceStoreType DEF StoreMmio
    <3>3. QED
      BY <3>1, <3>2
  <2>7. QED
    BY <1>2, <1>3, <1>5, <2>6 DEF StoreMmio, MemTypeOK, ram, AccessType, LoaderType
<1>6. CASE StoreRam(a, Width(op), w)
  <2>1. ASSUME ~(~valid_memory_access(a, Width(op)) \/ Leaves(a, Width(op)))
        PROVE  memory' \in [0 .. memory_size - 1 -> Byte]
    <3>1. a \in Nat /\ memory_base \in Nat /\ memory_size \in Nat
      BY <1>1, ConstantWords, MapAssumption DEF MemTypeOK
    <3>2. ASSUME NEW o \in 0 .. memory_size - 1,
                 a - memory_base <= o, o < a - memory_base + Width(op)
          PROVE  w[o - (a - memory_base)] \in Byte
      <4>1. o - (a - memory_base) \in Lane
        BY <1>1, <3>1, <3>2 DEF Lane
      <4>2. QED
        BY <1>1, <4>1 DEF Word
    <3>3. DOMAIN memory = 0 .. memory_size - 1
      BY DEF MemTypeOK
    <3>4. memory' = [o \in 0 .. memory_size - 1 |->
                       IF a - memory_base <= o /\ o < a - memory_base + Width(op)
                         THEN w[o - (a - memory_base)] ELSE memory[o]]
      BY <1>6, <2>1, <3>3 DEF StoreRam
    <3>5. QED
      BY <3>2, <3>4 DEF MemTypeOK
  <2>2. memory' \in [0 .. memory_size - 1 -> Byte]
    BY <1>6, <2>1 DEF StoreRam, MemTypeOK
  <2>3. crashed' \in BOOLEAN
    BY <1>6 DEF StoreRam, Leaves, valid_memory_access
  <2>4. QED
    BY <1>2, <1>3, <1>6, <2>2, <2>3 DEF StoreRam, MemTypeOK, AccessType, LoaderType
<1>7. QED
  BY <1>4, <1>5, <1>6 DEF Store

-----------------------------------------------------------------------------
(* The loaders                                                             *)

LEMMA SegmentsType ==
  ASSUME NEW n \in 0 .. MaxRam, NEW m \in [0 .. n - 1 -> Byte], NEW base \in Nat,
         NEW p \in Programs, NEW ss \in SUBSET p
  PROVE  WithSegments(m, ss, base) \in [0 .. n - 1 -> Byte]
<1>1. 0 \in Byte
  BY ByteAssumption DEF Byte
<1>2. ASSUME NEW s \in p, NEW o \in 0 .. n - 1,
             s.vaddr - base <= o, o < s.vaddr - base + s.filesz
      PROVE  s.data[o - (s.vaddr - base)] \in Byte
  <2>1. s.vaddr \in Nat /\ s.filesz \in Nat /\ s.data \in [0 .. s.filesz - 1 -> Byte]
    <3>1. s.vaddr \in Addr /\ s.memsz \in Nat /\ s.filesz \in 0 .. s.memsz
          /\ s.data \in [0 .. s.filesz - 1 -> Byte]
      BY InputAssumption
    <3>2. ASSUME NEW k \in Nat, NEW j \in 0 .. k PROVE j \in Nat
      BY <3>2
    <3>3. s.filesz \in Nat
      BY <3>1, <3>2
    <3>4. s.vaddr \in Nat
      BY <3>1, ConstantWords
    <3>5. QED
      BY <3>1, <3>3, <3>4
  <2>2. o - (s.vaddr - base) \in 0 .. s.filesz - 1
    BY <1>2, <2>1
  <2>3. QED
    BY <2>1, <2>2
<1>3. ASSUME NEW o \in 0 .. n - 1
      PROVE  WithSegments(m, ss, base)[o] \in Byte
  <2> DEFINE here == {s \in ss : s.vaddr - base <= o /\ o < s.vaddr - base + s.memsz}
             chosen == CHOOSE s \in here : TRUE
  <2>1. WithSegments(m, ss, base)[o] =
          IF here = {} THEN m[o]
          ELSE IF o < chosen.vaddr - base + chosen.filesz
                 THEN chosen.data[o - (chosen.vaddr - base)] ELSE 0
    BY DEF WithSegments
  <2>2. here # {} => chosen \in here
    OBVIOUS
  <2>3. CASE here = {}
    BY <2>1, <2>3
  <2>4. CASE here # {}
    <3>1. chosen \in p /\ chosen.vaddr - base <= o
      BY <2>2, <2>4
    <3> HIDE DEF here, chosen
    <3>2. QED
      BY <1>1, <1>2, <2>1, <2>4, <3>1
  <2>5. QED
    BY <2>3, <2>4
<1>4. DOMAIN WithSegments(m, ss, base) = 0 .. n - 1
  BY DEF WithSegments
<1>5. WithSegments(m, ss, base) = [o \in 0 .. n - 1 |-> WithSegments(m, ss, base)[o]]
  BY <1>4 DEF WithSegments
<1>6. QED
  BY <1>3, <1>5

LEMMA NeededNat ==
  ASSUME NEW base \in Nat, NEW span \in Nat, NEW size \in RamSizes
  PROVE  Needed(base, span, size) \in Nat
<1>1. size \in Nat /\ HighRam \in Nat /\ MinRam \in Nat /\ Page \in Nat \ {0}
  BY InputAssumption, MapAssumption
<1>2. ASSUME NEW x \in Nat PROVE RoundUp(x) \in Nat
  <2>1. (x + Page - 1) \div Page \in Nat
    BY <1>1
  <2>2. QED
    BY <1>1, <2>1, Product DEF RoundUp
<1>3. QED
  BY <1>1, <1>2 DEF Needed

LEMMA SegmentEnd ==
  ASSUME NEW p \in Programs, NEW s \in p PROVE s.vaddr \in Addr /\ SegEnd(s) \in Addr
<1>1. s.vaddr \in Addr /\ s.memsz \in Nat /\ s.vaddr + s.memsz <= TOP
  BY InputAssumption
<1>2. QED
  BY <1>1, MapAssumption DEF SegEnd, Wrap, Addr

LEMMA RvInitType ==
  ASSUME MemTypeOK, NEW size \in RamSizes, NEW image \in Images, RvInit(size, image)
  PROVE  MemTypeOK'
<1> DEFINE n == IF size = 0 THEN MinRam ELSE size
<1>1. n \in 0 .. MaxRam /\ image \in [0 .. MaxRam - 1 -> Byte] /\ 0 \in Addr
  BY InputAssumption, MapAssumption DEF Addr
<1>2. [o \in 0 .. n - 1 |-> image[o]] \in [0 .. n - 1 -> Byte]
  BY <1>1, MapAssumption
<1>3. RamOK(memory_base, memory, memory_size)'
  <2>1. CASE LosesRam
    BY <2>1, LosesRamType
  <2>2. CASE Ram(0, [o \in 0 .. n - 1 |-> image[o]], n)
    BY <1>1, <1>2, <2>2, RamType DEF RamOK
  <2>3. QED
    BY <2>1, <2>2 DEF RvInit
<1>4. QED
  BY <1>3, Constants DEF RvInit, Placing, MemTypeOK, RamOK, AccessType, LoaderType

LEMMA RvSetRamType ==
  ASSUME MemTypeOK, NEW size \in RamSizes, NEW image \in Images, RvSetRam(size, image)
  PROVE  MemTypeOK'
<1>1. size \in 0 .. MaxRam /\ image \in [0 .. MaxRam - 1 -> Byte] /\ 0 \in Addr
  BY InputAssumption, MapAssumption DEF Addr
<1>2. [o \in 0 .. size - 1 |-> image[o]] \in [0 .. size - 1 -> Byte]
  BY <1>1, MapAssumption
<1>3. RamOK(memory_base, memory, memory_size)'
  BY <1>1, <1>2, RamType DEF RvSetRam, RamOK
<1>4. QED
  BY <1>3, Constants DEF RvSetRam, Placing, MemTypeOK, RamOK, AccessType, LoaderType

LEMMA RvInitElfType ==
  ASSUME MemTypeOK, NEW p \in Programs, NEW size \in RamSizes, RvInitElf(p, size)
  PROVE  MemTypeOK'
<1>1. PICK first \in p, last \in p :
        LET base == first.vaddr
            end == SegEnd(last)
            needed == Needed(base, end - base, size)
            fit == {s \in p : SegEnd(s) <= Wrap(base + needed)}
        IN /\ Placing
           /\ htif' = NoRequest
           /\ placed' = [by |-> "rv_init_elf", program |-> p, size |-> size]
           /\ \/ end <= base /\ UNCHANGED <<ram, crashed>>
              \/ end > base /\ LosesRam /\ UNCHANGED crashed
              \/ /\ end > base /\ needed <= MaxRam
                 /\ crashed' = Overruns(fit, base, needed)
                 /\ Ram(base, WithSegments([o \in 0 .. needed - 1 |-> 0], fit, base), needed)
  BY DEF RvInitElf
<1> DEFINE base == first.vaddr
           end == SegEnd(last)
           needed == Needed(base, end - base, size)
           fit == {s \in p : SegEnd(s) <= Wrap(base + needed)}
<1>2. base \in Addr /\ base \in Nat /\ end \in Nat /\ fit \in SUBSET p
  BY SegmentEnd, ConstantWords
<1>3. RamOK(memory_base, memory, memory_size)'
  <2>1. CASE UNCHANGED ram
    BY <2>1 DEF ram, RamOK, MemTypeOK
  <2>2. CASE LosesRam
    BY <2>2, LosesRamType
  <2>3. CASE /\ end > base /\ needed <= MaxRam
             /\ Ram(base, WithSegments([o \in 0 .. needed - 1 |-> 0], fit, base), needed)
    <3>1. end - base \in Nat
      BY <1>2, <2>3
    <3>2. needed \in 0 .. MaxRam
      <4>1. needed \in Nat
        BY <1>2, <3>1, NeededNat
      <4> HIDE DEF needed
      <4>2. QED
        BY <2>3, <4>1, MapAssumption
    <3> HIDE DEF needed, fit, base
    <3>3. [o \in 0 .. needed - 1 |-> 0] \in [0 .. needed - 1 -> Byte]
      BY ByteAssumption DEF Byte
    <3>4. WithSegments([o \in 0 .. needed - 1 |-> 0], fit, base) \in [0 .. needed - 1 -> Byte]
      BY <1>2, <3>2, <3>3, SegmentsType
    <3>5. QED
      BY <1>2, <2>3, <3>2, <3>4, RamType DEF RamOK
  <2>4. QED
    BY <1>1, <2>1, <2>2, <2>3
<1>4. placed' \in LoaderType
  BY <1>1, InputAssumption DEF LoaderType
<1>5. crashed' \in BOOLEAN
  BY <1>1 DEF Overruns, MemTypeOK
<1>6. Placing /\ htif' \in HtifType
  BY <1>1, Constants
<1>7. QED
  BY <1>3, <1>4, <1>5, <1>6, Constants
     DEF Placing, MemTypeOK, RamOK, AccessType, LoaderType, HtifType

LEMMA RvLoadElfType ==
  ASSUME MemTypeOK, NEW p \in Programs, RvLoadElf(p) PROVE MemTypeOK'
<1> DEFINE fit == {s \in p : SegEnd(s) <= memory_size}
<1>1. WithSegments(memory, fit, 0) \in [0 .. memory_size - 1 -> Byte]
  <2>1. fit \in SUBSET p /\ memory_size \in 0 .. MaxRam
        /\ memory \in [0 .. memory_size - 1 -> Byte] /\ 0 \in Nat
    BY DEF MemTypeOK
  <2> HIDE DEF fit
  <2>2. QED
    BY <2>1, SegmentsType
<1>2. RamOK(memory_base, memory, memory_size)'
  BY <1>1, RamType DEF RvLoadElf, RamOK, MemTypeOK
<1>3. placed' \in LoaderType /\ crashed' \in BOOLEAN
  BY DEF RvLoadElf, LoaderType, MemTypeOK, Overruns
<1>4. QED
  BY <1>2, <1>3, Constants DEF RvLoadElf, Placing, MemTypeOK, RamOK, AccessType, LoaderType

\* The state of the memory system is well formed in every execution: after any
\* sequence of loaders, failed allocations and guest accesses memory[] holds
\* memory_size bytes.
THEOREM MemTypeCorrect == MemSpec => []MemTypeOK
<1>1. MemInit => MemTypeOK
  <2> SUFFICES ASSUME MemInit PROVE MemTypeOK
    OBVIOUS
  <2>1. NoBytes \in [0 .. 0 - 1 -> Byte] /\ 0 \in Addr
    BY MapAssumption DEF NoBytes, Addr
  <2>2. /\ memory_size \in 0 .. MaxRam /\ memory_base \in Addr
        /\ memory \in [0 .. memory_size - 1 -> Byte] /\ ops \in 0 .. MaxOps
    BY <2>1, MapAssumption DEF MemInit
  <2>3. /\ hw_cfg_reg \in [0 .. NRegs - 1 -> Word] /\ htif \in HtifType
        /\ rd \in Word /\ at \in AccessType /\ placed \in LoaderType /\ crashed \in BOOLEAN
    BY Constants, ConstantWords DEF MemInit
  <2>4. QED
    BY <2>2, <2>3 DEF MemTypeOK, AccessType, LoaderType, HtifType
<1>2. MemTypeOK /\ [MemNext]_memVars => MemTypeOK'
  <2> SUFFICES ASSUME MemTypeOK, [MemNext]_memVars PROVE MemTypeOK'
    OBVIOUS
  <2>1. CASE Guest
    BY <2>1, LoadType, StoreType DEF Guest
  <2>2. CASE Host
    BY <2>2, RvInitType, RvSetRamType, RvInitElfType, RvLoadElfType DEF Host
  <2>3. CASE UNCHANGED memVars
    BY <2>3 DEF memVars, MemTypeOK
  <2>4. QED
    BY <2>1, <2>2, <2>3 DEF MemNext, Crash
<1>3. QED
  BY <1>1, <1>2, PTL DEF MemSpec

-----------------------------------------------------------------------------
(* Accesses that leave memory[]                                            *)

LEMMA LeavesAtTop ==
  ASSUME MemTypeOK, NEW a \in Addr, NEW n \in {1, 2, 4}, Leaves(a, n)
  PROVE  a + n >= TOP + memory_base
<1>1. a \in Nat /\ memory_base \in Nat /\ memory_size \in Nat /\ TOP \in Nat
  BY ConstantWords, MapAssumption DEF MemTypeOK
<1>2. Wrap(a - memory_base + n) <= memory_size /\ a - memory_base + n > memory_size
  BY DEF Leaves, valid_memory_access
<1>3. QED
  BY <1>1, <1>2 DEF Wrap

LEMMA OverrunsAtTop ==
  ASSUME NEW p \in Programs, NEW base \in Addr, NEW size \in 0 .. MaxRam, NEW limit \in Nat,
         limit <= base + size, NEW ss \in SUBSET p,
         \A s \in ss : SegEnd(s) <= limit, Overruns(ss, base, size)
  PROVE  \E s \in p : s.vaddr + s.memsz = TOP
<1>1. PICK s \in ss : s.memsz > 0 /\ s.vaddr - base + s.memsz > size
  BY DEF Overruns
<1>2. s \in p /\ s.vaddr \in Addr /\ s.memsz \in Nat /\ s.vaddr + s.memsz <= TOP
  BY InputAssumption
<1>3. s.vaddr \in Nat /\ base \in Nat /\ size \in Nat /\ TOP \in Nat
  <2>1. s.vaddr \in Nat /\ base \in Nat
    BY <1>2, ConstantWords
  <2>2. size \in Nat /\ TOP \in Nat
    BY MapAssumption
  <2>3. QED
    BY <2>1, <2>2
<1>4. SegEnd(s) <= limit
  BY <1>1
<1>5. s.vaddr + s.memsz = TOP
  BY <1>1, <1>2, <1>3, <1>4 DEF SegEnd, Wrap
<1>6. QED
  BY <1>2, <1>5

LEMMA WrapsDown == ASSUME NEW x \in Nat PROVE Wrap(x) \in Nat /\ Wrap(x) <= x
  BY MapAssumption DEF Wrap

\* A guest access can leave memory[] only at the last addresses while RAM
\* starts at the first ones, and a loader only for a segment that ends there.
THEOREM CrashesOnlyAtTop == MemSpec => []CrashOnlyAtTop
<1>1. MemInit => CrashOnlyAtTop
  BY DEF MemInit, CrashOnlyAtTop
<1>2. MemTypeOK /\ CrashOnlyAtTop /\ [MemNext]_memVars => CrashOnlyAtTop'
  <2> SUFFICES ASSUME MemTypeOK, CrashOnlyAtTop, [MemNext]_memVars, crashed'
               PROVE  CrashOnlyAtTop'
    BY DEF CrashOnlyAtTop
  <2>1. ASSUME NEW op \in Loads, NEW a \in Addrs, Load(op, a) PROVE CrashOnlyAtTop'
    <3>1. a \in Addr /\ Width(op) \in {1, 2, 4} /\ op # "none"
      BY InputAssumption, Widths DEF Loads
    <3>2. Leaves(a, Width(op)) /\ memory_base' = memory_base /\ at'.op = op /\ at'.addr = a
      BY <2>1 DEF Load, ram
    <3>3. QED
      BY <3>1, <3>2, LeavesAtTop DEF CrashOnlyAtTop
  <2>2. ASSUME NEW op \in Stores, NEW a \in Addrs, NEW w \in Words, Store(op, a, w)
        PROVE  CrashOnlyAtTop'
    <3>1. a \in Addr /\ Width(op) \in {1, 2, 4} /\ op # "none"
      BY InputAssumption, Widths DEF Stores
    <3>2. Leaves(a, Width(op)) /\ memory_base' = memory_base /\ at'.op = op /\ at'.addr = a
      BY <2>2 DEF Store, StoreHtif, StoreMmio, StoreRam
    <3>3. QED
      BY <3>1, <3>2, LeavesAtTop DEF CrashOnlyAtTop
  <2>3. ASSUME NEW p \in Programs, NEW size \in RamSizes, RvInitElf(p, size)
        PROVE  CrashOnlyAtTop'
    <3>1. PICK first \in p, last \in p :
            LET base == first.vaddr
                end == SegEnd(last)
                needed == Needed(base, end - base, size)
                fit == {s \in p : SegEnd(s) <= Wrap(base + needed)}
            IN /\ Placing
               /\ placed' = [by |-> "rv_init_elf", program |-> p, size |-> size]
               /\ \/ UNCHANGED crashed
                  \/ end > base /\ needed <= MaxRam /\ crashed' = Overruns(fit, base, needed)
      BY <2>3 DEF RvInitElf, Placing
    <3> DEFINE base == first.vaddr
               end == SegEnd(last)
               needed == Needed(base, end - base, size)
               fit == {s \in p : SegEnd(s) <= Wrap(base + needed)}
    <3>2. end > base /\ needed <= MaxRam /\ Overruns(fit, base, needed) /\ at'.op = "none"
      BY <3>1 DEF Placing, NoAccess
    <3>3. base \in Addr /\ base \in Nat /\ end \in Nat
      BY SegmentEnd, ConstantWords
    <3>4. needed \in Nat
      BY <3>2, <3>3, NeededNat
    <3> HIDE DEF needed, base, end
    <3>5. needed \in 0 .. MaxRam /\ Wrap(base + needed) \in Nat /\ Wrap(base + needed) <= base + needed
      BY <3>2, <3>3, <3>4, WrapsDown, MapAssumption
    <3>6. fit \in SUBSET p /\ \A s \in fit : SegEnd(s) <= Wrap(base + needed)
      OBVIOUS
    <3> HIDE DEF fit
    <3>7. \E s \in p : s.vaddr + s.memsz = TOP
      BY <3>2, <3>3, <3>5, <3>6, OverrunsAtTop
    <3>8. QED
      BY <3>1, <3>2, <3>7 DEF CrashOnlyAtTop
  <2>4. ASSUME NEW p \in Programs, RvLoadElf(p) PROVE CrashOnlyAtTop'
    <3> DEFINE fit == {s \in p : SegEnd(s) <= memory_size}
    <3>1. Overruns(fit, 0, memory_size) /\ placed'.program = p /\ at'.op = "none"
      BY <2>4 DEF RvLoadElf, Placing, NoAccess
    <3>2. fit \in SUBSET p /\ \A s \in fit : SegEnd(s) <= memory_size
      OBVIOUS
    <3>3. 0 \in Addr /\ memory_size \in 0 .. MaxRam /\ memory_size \in Nat
          /\ memory_size <= 0 + memory_size
      BY MapAssumption DEF Addr, MemTypeOK
    <3> HIDE DEF fit
    <3>4. \E s \in p : s.vaddr + s.memsz = TOP
      BY <3>1, <3>2, <3>3, OverrunsAtTop
    <3>5. QED
      BY <3>1, <3>4 DEF CrashOnlyAtTop
  <2>5. CASE UNCHANGED memVars
    BY <2>5 DEF memVars, CrashOnlyAtTop
  <2>6. ASSUME NEW size \in RamSizes, NEW image \in Images,
               RvInit(size, image) \/ RvSetRam(size, image)
        PROVE  FALSE
    BY <2>6 DEF RvInit, RvSetRam, Placing
  <2>7. QED
    BY <2>1, <2>2, <2>3, <2>4, <2>5, <2>6 DEF MemNext, Guest, Host, Crash
<1>3. QED
  BY <1>1, <1>2, MemTypeCorrect, PTL DEF MemSpec

-----------------------------------------------------------------------------
(* The host interface                                                      *)

LEMMA RequestExit ==
  ASSUME htif \in HtifType, ExitIsTohost, ~htif.halted, NEW w \in Word, Request(w)
  PROVE  ExitIsTohost'
<1>1. w[0] % 2 \in {0, 1} /\ (w = ZeroWord => w[0] % 2 = 0)
  BY DEF Word, Lane, Byte, ZeroWord
<1>2. CASE w[0] % 2 = 1
  <2>1. htif' = [[htif EXCEPT !.tohost_lo = w]
                   EXCEPT !.halted = TRUE, !.exit_code = Val(w) \div 2]
    BY <1>2 DEF Request
  <2>2. htif'.tohost_lo = w /\ htif'.halted = TRUE /\ htif'.exit_code = Val(w) \div 2
    BY <2>1 DEF HtifType
  <2>3. QED
    BY <1>2, <2>2 DEF ExitIsTohost, Val
<1>3. CASE w[0] % 2 = 0
  <2>1. \/ htif' = [htif EXCEPT !.tohost_lo = w]
        \/ htif' = [[htif EXCEPT !.tohost_lo = w]
                      EXCEPT !.fromhost_lo = OneWord, !.fromhost_hi = ZeroWord]
    BY <1>3 DEF Request
  <2>2. htif'.tohost_lo = w /\ htif'.halted = htif.halted
    BY <2>1 DEF HtifType
  <2>3. QED
    BY <1>3, <2>2 DEF ExitIsTohost
<1>4. QED
  BY <1>1, <1>2, <1>3

\* What the runners read after a program, rv_is_halted and rv_get_exit_code, is
\* what tohost holds, in every execution.
THEOREM ExitTracksTohost == MemSpec => []ExitIsTohost
<1>1. ~NoRequest.halted /\ NoRequest.tohost_lo[0] % 2 = 0
  BY DEF NoRequest, ZeroWord, Lane
<1>2. MemInit => ExitIsTohost
  BY <1>1 DEF MemInit, ExitIsTohost
<1>3. MemTypeOK /\ ExitIsTohost /\ [MemNext]_memVars => ExitIsTohost'
  <2> SUFFICES ASSUME MemTypeOK, ExitIsTohost, [MemNext]_memVars PROVE ExitIsTohost'
    OBVIOUS
  <2>1. htif \in HtifType
    BY DEF MemTypeOK, HtifType
  <2>2. CASE UNCHANGED htif
    BY <2>2 DEF ExitIsTohost, Val
  <2>3. CASE htif' = NoRequest
    BY <1>1, <2>3 DEF ExitIsTohost
  <2>4. ASSUME NEW op \in Stores, NEW a \in Addrs, NEW w \in Words, Store(op, a, w)
        PROVE  ExitIsTohost'
    <3>1. w \in Word /\ ~htif.halted
      BY <2>4, InputAssumption DEF Store, Running
    <3>2. CASE Request(w)
      BY <2>1, <3>1, <3>2, RequestExit
    <3>3. CASE \/ htif' = [htif EXCEPT !.tohost_hi = w]
               \/ htif' = [htif EXCEPT !.fromhost_lo = w]
               \/ htif' = [htif EXCEPT !.fromhost_hi = w]
      <4>1. htif'.tohost_lo = htif.tohost_lo /\ htif'.halted = htif.halted
            /\ htif'.exit_code = htif.exit_code
        BY <2>1, <3>3 DEF HtifType
      <4>2. QED
        BY <4>1 DEF ExitIsTohost, Val
    <3>4. QED
      BY <2>2, <2>4, <3>2, <3>3 DEF Store, StoreHtif, StoreMmio, StoreRam
  <2>5. CASE Guest
    BY <2>2, <2>4, <2>5 DEF Guest, Load
  <2>6. CASE Host
    <3>1. ASSUME NEW p \in Programs, NEW size \in RamSizes, RvInitElf(p, size)
          PROVE  htif' = NoRequest
      BY <3>1 DEF RvInitElf
    <3>2. QED
      BY <2>2, <2>3, <2>6, <3>1 DEF Host, RvInit, RvSetRam, RvLoadElf
  <2>7. CASE UNCHANGED memVars
    BY <2>2, <2>7 DEF memVars
  <2>8. QED
    BY <2>5, <2>6, <2>7 DEF MemNext, Crash
<1>4. QED
  BY <1>2, <1>3, MemTypeCorrect, PTL DEF MemSpec

-----------------------------------------------------------------------------
(* RAM as a byte store                                                     *)

\* An access in RAM passes the check without a wrap; one that passes it without
\* leaving memory[] is in RAM.
LEMMA InRam ==
  ASSUME MemTypeOK, NEW a \in Addr, NEW n \in {1, 2, 4}
  PROVE  (memory_base <= a /\ a + n <= memory_base + memory_size)
           <=> (valid_memory_access(a, n) /\ ~Leaves(a, n))
<1>1. a \in Nat /\ memory_base \in Nat /\ memory_size \in Nat /\ memory_size < TOP /\ TOP \in Nat
  <2>1. a \in Nat /\ memory_base \in Nat /\ memory_size \in 0 .. MaxRam
    BY ConstantWords DEF MemTypeOK
  <2>2. MaxRam \in Nat /\ MaxRam < TOP /\ TOP \in Nat
    BY MapAssumption
  <2>3. QED
    BY <2>1, <2>2
<1>2. QED
  BY <1>1 DEF Leaves, valid_memory_access, Wrap

LEMMA LoadIsFlat ==
  ASSUME MemTypeOK, NEW op \in Loads, NEW a \in Addrs, Load(op, a) PROVE RamFlat!Access
<1>1. a \in Addr /\ Width(op) \in {1, 2, 4} /\ at'.op = op /\ at'.addr = a
  BY InputAssumption, Widths DEF Load
<1>2. RamCells' = RamCells
  BY DEF Load, ram, RamCells
<1>3. op \in RamFlat!Loads \union RamFlat!Stores /\ op \notin RamFlat!Stores
  BY DEF Loads, RamFlat!Loads, RamFlat!Stores
<1>4. ASSUME <<op, a>> \in RamServes PROVE rd' = RamFlat!Loaded(op, a)
  <2>1. /\ memory_base <= a /\ a + Width(op) <= memory_base + memory_size
        /\ ~is_mmio_address(a) /\ ~is_htif_address(a)
    BY <1>4 DEF RamServes, ServedByRam, Loads
  <2>2. valid_memory_access(a, Width(op)) /\ ~Leaves(a, Width(op))
    BY <1>1, <2>1, InRam
  <2> DEFINE n == Width(op)
             w == [i \in Lane |-> IF i < n THEN memory[a - memory_base + i] ELSE 0]
  <2>3. rd' = Extended(op, w)
    BY <2>1, <2>2 DEF Load, Read, RamRead
  <2>4. ASSUME NEW i \in Lane, i < n
        PROVE  RamCells[a + i] = memory[a - memory_base + i]
    <3>1. a \in Nat /\ memory_base \in Nat /\ memory_size \in Nat /\ n \in Nat /\ i \in Nat
      BY <1>1, ConstantWords DEF MemTypeOK, Lane
    <3> DEFINE x == a + i
    <3>2. x \in memory_base .. memory_base + memory_size - 1
      BY <2>1, <2>4, <3>1
    <3>3. x - memory_base = a - memory_base + i
      BY <3>1
    <3> HIDE DEF x
    <3>4. RamCells[x] = memory[a - memory_base + i]
      BY <3>2, <3>3 DEF RamCells
    <3>5. QED
      BY <3>4 DEF x
  <2>5. n = RamFlat!Width(op) /\ Lane = RamFlat!Lanes
    BY DEF Width, RamFlat!Width, Lane, RamFlat!Lanes
  <2>6. CASE op \in {"LB", "LH"}
    <3>1. n \in {1, 2} /\ n - 1 \in Lane /\ n - 1 < n
      BY <2>6 DEF Width, Lane
    <3>2. w[n - 1] = RamCells[a + n - 1]
      <4>1. w[n - 1] = memory[a - memory_base + (n - 1)]
        BY <3>1
      <4>2. RamCells[a + (n - 1)] = memory[a - memory_base + (n - 1)]
        BY <2>4, <3>1
      <4>3. a + (n - 1) = a + n - 1
        BY <1>1, ConstantWords
      <4>4. QED
        BY <4>1, <4>2, <4>3
    <3>3. Extended(op, w) = [i \in Lane |-> IF i < n THEN w[i] ELSE SignByte(w[n - 1])]
      BY <2>6 DEF Extended, SignExtend
    <3>4. Extended(op, w) = [i \in Lane |-> IF i < n THEN RamCells[a + i]
                                            ELSE SignByte(RamCells[a + n - 1])]
      BY <2>4, <3>2, <3>3
    <3>5. SignByte(RamCells[a + n - 1]) = RamFlat!SignByte(RamCells[a + n - 1])
      BY DEF SignByte, RamFlat!SignByte
    <3> HIDE DEF n, w
    <3>6. QED
      BY <2>3, <2>5, <2>6, <3>4, <3>5 DEF RamFlat!Loaded
  <2>7. CASE op \notin {"LB", "LH"}
    <3>1. Extended(op, w) = [i \in Lane |-> IF i < n THEN RamCells[a + i] ELSE 0]
      BY <2>4, <2>7 DEF Extended
    <3> HIDE DEF n, w
    <3>2. QED
      BY <2>3, <2>5, <2>7, <3>1 DEF RamFlat!Loaded
  <2>8. QED
    BY <2>6, <2>7
<1>5. QED
  BY <1>1, <1>2, <1>3, <1>4 DEF RamFlat!Access

LEMMA StoreIsFlat ==
  ASSUME MemTypeOK, NEW op \in Stores, NEW a \in Addrs, NEW w \in Words, Store(op, a, w)
  PROVE  RamFlat!Access
<1>1. /\ a \in Addr /\ Width(op) \in {1, 2, 4}
      /\ at'.op = op /\ at'.addr = a /\ at'.data = w
  BY InputAssumption, Widths DEF Store
<1>2. op \in RamFlat!Loads \union RamFlat!Stores /\ op \in RamFlat!Stores
  BY DEF Stores, RamFlat!Loads, RamFlat!Stores
<1>3. ServedByRam(op, a) => <<op, a>> \in RamServes
  BY <1>1 DEF RamServes
<1>4. UNCHANGED ram => RamCells' = RamCells
  BY DEF ram, RamCells
<1>5. CASE ~ServedByRam(op, a)
  <2>1. op \notin {"SB", "SH"} <=> Width(op) = 4
    BY DEF Stores, Width
  <2>2. StoreRam(a, Width(op), w) /\ ~(Width(op) = 4 /\ is_htif_address(a)) /\ ~is_mmio_address(a)
          => UNCHANGED ram
    BY <1>1, <1>5, <2>1, InRam DEF StoreRam, ServedByRam, ram
  <2>3. UNCHANGED ram
    BY <2>2 DEF Store, StoreHtif, StoreMmio
  <2>4. <<op, a>> \notin RamServes
    BY <1>5 DEF RamServes
  <2>5. QED
    BY <1>1, <1>2, <1>4, <2>3, <2>4 DEF RamFlat!Access
<1>6. CASE ServedByRam(op, a)
  <2>1. valid_memory_access(a, Width(op)) /\ ~Leaves(a, Width(op))
    BY <1>1, <1>6, InRam DEF ServedByRam
  <2>2. StoreRam(a, Width(op), w)
    BY <1>6 DEF Store, ServedByRam, Stores, Width
  <2>3. /\ memory_base' = memory_base /\ memory_size' = memory_size
        /\ memory' = [o \in 0 .. memory_size - 1 |->
                        IF a - memory_base <= o /\ o < a - memory_base + Width(op)
                          THEN w[o - (a - memory_base)] ELSE memory[o]]
    BY <2>1, <2>2 DEF StoreRam, MemTypeOK
  <2>4. a \in Nat /\ memory_base \in Nat /\ memory_size \in Nat /\ Width(op) \in Nat
    BY <1>1, ConstantWords DEF MemTypeOK
  <2>5. Width(op) = RamFlat!Width(op)
    BY DEF Width, RamFlat!Width
  <2>6. ASSUME NEW x \in memory_base .. memory_base + memory_size - 1
        PROVE  memory'[x - memory_base] =
                 IF a <= x /\ x < a + Width(op) THEN w[x - a] ELSE RamCells[x]
    <3>1. x \in Nat /\ x - memory_base \in 0 .. memory_size - 1
      BY <2>4
    <3>2. RamCells[x] = memory[x - memory_base]
      BY DEF RamCells
    <3>3. (x - memory_base) - (a - memory_base) = x - a
      BY <2>4, <3>1
    <3>4. /\ a - memory_base <= x - memory_base <=> a <= x
          /\ x - memory_base < a - memory_base + Width(op) <=> x < a + Width(op)
      BY <2>4, <3>1
    <3>5. QED
      BY <2>3, <3>1, <3>2, <3>3, <3>4
  <2>7. RamCells' = [x \in memory_base .. memory_base + memory_size - 1 |->
                       IF a <= x /\ x < a + Width(op) THEN w[x - a] ELSE RamCells[x]]
    BY <2>3, <2>6 DEF RamCells
  <2>8. DOMAIN RamCells = memory_base .. memory_base + memory_size - 1
    BY DEF RamCells
  <2>9. RamCells' = RamFlat!Stored(op, a, w)
    BY <2>5, <2>7, <2>8 DEF RamFlat!Stored
  <2>10. QED
    BY <1>1, <1>2, <1>3, <1>6, <2>9 DEF RamFlat!Access, Store
<1>7. QED
  BY <1>5, <1>6

\* The address map implements the byte store: through loaders, device accesses
\* and host requests, RAM keeps the last byte stored at each of its addresses,
\* and a load of any width and alignment returns those bytes.
THEOREM RamImplementsFlat == MemSpec => RamIsFlat
<1>1. MemInit => RamFlat!FlatInit
  BY DEF MemInit, RamFlat!FlatInit, NoAccess
<1>2. MemTypeOK /\ [MemNext]_memVars => [RamFlat!FlatNext]_(RamFlat!flatVars)
  <2> SUFFICES ASSUME MemTypeOK, [MemNext]_memVars
               PROVE  RamFlat!FlatNext \/ UNCHANGED RamFlat!flatVars
    BY DEF RamFlat!FlatNext
  <2>1. CASE Guest
    BY <2>1, LoadIsFlat, StoreIsFlat DEF Guest, RamFlat!FlatNext
  <2>2. CASE Host
    <3>1. at'.op = "none" /\ rd' = rd
      <4>1. ASSUME NEW p \in Programs, NEW size \in RamSizes, RvInitElf(p, size) PROVE Placing
        BY <4>1 DEF RvInitElf
      <4>2. Placing
        BY <2>2, <4>1 DEF Host, RvInit, RvSetRam, RvLoadElf
      <4>3. QED
        BY <4>2 DEF Placing, NoAccess
    <3>2. QED
      BY <3>1 DEF RamFlat!FlatNext, RamFlat!Replace
  <2>3. CASE UNCHANGED memVars
    <3>1. RamCells' = RamCells /\ RamServes' = RamServes /\ at' = at /\ rd' = rd
      BY <2>3 DEF memVars, RamCells, RamServes, ServedByRam, is_mmio_address, is_htif_address, Width
    <3>2. QED
      BY <3>1 DEF RamFlat!flatVars
  <2>4. QED
    BY <2>1, <2>2, <2>3 DEF MemNext, Crash
<1>3. QED
  BY <1>1, <1>2, MemTypeCorrect, PTL DEF MemSpec, RamIsFlat, RamFlat!FlatSpec
-----------------------------------------------------------------------------
(* The bench's registers as a byte store                                   *)

\* The register an address is in, the address an access of n bytes is rounded
\* down to, and the first lane it has in the register.
Reg(a) == (a - MMIO_BASE) \div 4
Base(a, n) == a - (a % n)
First(a, n) == IF n = 4 THEN 0 ELSE LaneOf(a, n)

\* The bytes of an access are n lanes of one register, from First on.
LEMMA RegisterLanes ==
  ASSUME NEW a \in Nat, a >= MMIO_BASE, NEW n \in {1, 2, 4}, NEW x \in Nat, x >= MMIO_BASE
  PROVE  /\ Base(a, n) \in Nat /\ Base(a, n) >= MMIO_BASE /\ First(a, n) \in Nat
         /\ Base(a, n) <= a /\ Reg(Base(a, n)) = Reg(a) /\ Reg(Aligned(a)) = Reg(a)
         /\ First(a, n) + n <= 4
         /\ (Base(a, n) <= x /\ x < Base(a, n) + n)
              <=> /\ Reg(x) = Reg(a)
                  /\ First(a, n) <= (x - MMIO_BASE) % 4 /\ (x - MMIO_BASE) % 4 < First(a, n) + n
         /\ Reg(x) = Reg(a) => x - Base(a, n) = ((x - MMIO_BASE) % 4) - First(a, n)
<1> DEFINE r == (a - MMIO_BASE) \div 4
           l == a % 4
           q == (x - MMIO_BASE) \div 4
           j == (x - MMIO_BASE) % 4
<1>1. MMIO_BASE \in Nat /\ MMIO_BASE % 4 = 0
  BY MapAssumption, ConstantWords
<1>2. r \in Nat /\ l \in 0 .. 3 /\ a = MMIO_BASE + 4 * r + l
  BY <1>1
<1>3. q \in Nat /\ j \in 0 .. 3 /\ x = MMIO_BASE + 4 * q + j
  BY <1>1
<1>4. Reg(a) = r /\ Reg(x) = q /\ Aligned(a) = MMIO_BASE + 4 * r
  BY <1>1, <1>2 DEF Reg, Aligned
<1>5. Reg(Aligned(a)) = r
  BY <1>1, <1>2, <1>4 DEF Reg
<1>6. /\ First(a, n) = IF n = 4 THEN 0 ELSE IF n = 2 THEN 2 * (l \div 2) ELSE l
      /\ Base(a, n) = MMIO_BASE + 4 * r + First(a, n)
  <2>1. CASE n = 1
    BY <1>1, <1>2, <2>1 DEF First, LaneOf, Base
  <2>2. CASE n = 2
    <3>1. l % 2 = a % 2
      BY <1>1
    <3> QED
      BY <1>1, <1>2, <2>2, <3>1 DEF First, LaneOf, Base
  <2>3. CASE n = 4
    BY <1>1, <1>2, <2>3 DEF First, LaneOf, Base
  <2> QED
    BY <2>1, <2>2, <2>3
<1>7. First(a, n) \in 0 .. 3 /\ First(a, n) <= l /\ First(a, n) + n <= 4
  BY <1>2, <1>6
<1>8. Reg(Base(a, n)) = r
  BY <1>1, <1>2, <1>6, <1>7 DEF Reg
<1> HIDE DEF r, l, q, j
<1>9. /\ (Base(a, n) <= x /\ x < Base(a, n) + n)
           <=> q = r /\ First(a, n) <= j /\ j < First(a, n) + n
      /\ q = r => x - Base(a, n) = j - First(a, n)
  BY <1>1, <1>2, <1>3, <1>6, <1>7
<1>10. /\ Base(a, n) \in Nat /\ Base(a, n) >= MMIO_BASE /\ Base(a, n) <= a
       /\ First(a, n) \in Nat
  BY <1>1, <1>2, <1>6, <1>7
<1> QED
  BY <1>4, <1>5, <1>7, <1>8, <1>9, <1>10 DEF j

\* An access and its rounding are in the registers or in none of them.
LEMMA DeviceServed ==
  ASSUME NEW op \in Loads \union Stores, NEW a \in Addr
  PROVE  /\ <<op, Base(a, Width(op))>> \in DeviceServes <=> ServedByDevice(op, a)
         /\ a - (a % Width(op)) = Base(a, Width(op))
         /\ ServedByDevice(op, a) => /\ is_mmio_address(a) /\ ~is_htif_address(a)
                                     /\ Reg(a) \in 0 .. NRegs - 1
                                     /\ Aligned(a) < MMIO_BASE + 4 * NRegs
<1> DEFINE n == Width(op)
<1>1. n \in {1, 2, 4} /\ a \in Nat /\ a < TOP /\ TOP \in Nat
  BY Widths, ConstantWords, MapAssumption DEF Addr
<1>2. MMIO_BASE \in Nat /\ MMIO_BASE % 4 = 0 /\ NRegs \in Nat /\ MMIO_SIZE \in Nat /\ HTIF \in Nat
      /\ 4 * NRegs <= MMIO_SIZE /\ MMIO_BASE + MMIO_SIZE < HTIF
  BY MapAssumption, ConstantWords
<1> HIDE DEF n
<1>3. Base(a, n) \in Nat /\ Base(a, n) <= a
  BY <1>1 DEF Base
<1>4. MMIO_BASE <= Base(a, n) <=> MMIO_BASE <= a
  <2>1. MMIO_BASE <= a => MMIO_BASE <= Base(a, n)
    BY <1>1, RegisterLanes
  <2> QED
    BY <1>1, <1>2, <1>3, <2>1
<1>5. ASSUME MMIO_BASE <= a
      PROVE  Base(a, n) < MMIO_BASE + 4 * NRegs <=> a < MMIO_BASE + 4 * NRegs
  <2>1. Reg(Base(a, n)) = Reg(a) /\ MMIO_BASE <= Base(a, n)
    BY <1>1, <1>5, RegisterLanes
  <2>2. ASSUME NEW y \in Nat, MMIO_BASE <= y
        PROVE  y < MMIO_BASE + 4 * NRegs <=> Reg(y) < NRegs
    BY <1>2, <2>2 DEF Reg
  <2> QED
    BY <1>1, <1>3, <1>5, <2>1, <2>2
<1>6. Base(a, n) \in Addr
  BY <1>1, <1>3 DEF Addr
<1>7. <<op, Base(a, n)>> \in DeviceServes <=> ServedByDevice(op, a)
  BY <1>1, <1>2, <1>3, <1>4, <1>5, <1>6 DEF DeviceServes, ServedByDevice
<1>8. ServedByDevice(op, a) => /\ is_mmio_address(a) /\ ~is_htif_address(a)
                               /\ Reg(a) \in 0 .. NRegs - 1
                               /\ Aligned(a) < MMIO_BASE + 4 * NRegs
  BY <1>1, <1>2 DEF ServedByDevice, is_mmio_address, is_htif_address, Reg, Aligned
<1> QED
  BY <1>7, <1>8 DEF Base, n

\* The cell of a byte, and the bytes of an access.
LEMMA DeviceBytes ==
  ASSUME NEW op \in Loads \union Stores, NEW a \in Addr, ServedByDevice(op, a),
         NEW i \in Lane, i < Width(op)
  PROVE  DeviceCells[Base(a, Width(op)) + i] = hw_cfg_reg[Reg(a)][First(a, Width(op)) + i]
<1> DEFINE n == Width(op)
<1>1. n \in {1, 2, 4} /\ a \in Nat /\ a >= MMIO_BASE /\ i \in Nat /\ i < n
      /\ MMIO_BASE \in Nat /\ NRegs \in Nat
  BY Widths, ConstantWords, MapAssumption DEF ServedByDevice, Lane
<1>2. Base(a, n) \in Nat /\ Base(a, n) >= MMIO_BASE /\ First(a, n) \in Nat
  BY <1>1, RegisterLanes
<1>3. Reg(a) \in 0 .. NRegs - 1
  BY DeviceServed
<1>4. ASSUME NEW x \in Nat, x = Base(a, n) + i
      PROVE  DeviceCells[x] = hw_cfg_reg[Reg(a)][First(a, n) + i]
  <2>1. x >= MMIO_BASE /\ Base(a, n) <= x /\ x < Base(a, n) + n /\ x - Base(a, n) = i
    BY <1>1, <1>2, <1>4
  <2>2. Reg(x) = Reg(a) /\ x - Base(a, n) = ((x - MMIO_BASE) % 4) - First(a, n)
    <3>1. n \in {1, 2, 4} /\ a \in Nat /\ a >= MMIO_BASE /\ x \in Nat /\ x >= MMIO_BASE
      BY <1>1, <2>1
    <3>2. /\ (Base(a, n) <= x /\ x < Base(a, n) + n)
               <=> /\ Reg(x) = Reg(a)
                   /\ First(a, n) <= (x - MMIO_BASE) % 4 /\ (x - MMIO_BASE) % 4 < First(a, n) + n
          /\ Reg(x) = Reg(a) => x - Base(a, n) = ((x - MMIO_BASE) % 4) - First(a, n)
      BY <3>1, RegisterLanes
    <3> QED
      BY <2>1, <3>2
  <2>3. (x - MMIO_BASE) % 4 = First(a, n) + i
    BY <1>1, <1>2, <2>1, <2>2
  <2>4. x \in MMIO_BASE .. MMIO_BASE + 4 * NRegs - 1
    BY <1>1, <1>3, <2>1, <2>2 DEF Reg
  <2> QED
    BY <2>2, <2>3, <2>4 DEF DeviceCells, Reg
<1> QED
  BY <1>1, <1>2, <1>4

LEMMA LoadIsDevice ==
  ASSUME MemTypeOK, NEW op \in Loads, NEW a \in Addrs, Load(op, a) PROVE DeviceFlat!Access
<1> DEFINE n == Width(op)
           c == Base(a, n)
<1>1. a \in Addr /\ op \in Loads \union Stores
  BY InputAssumption
<1>2. DeviceAt'.op = op /\ DeviceAt'.addr = c
  BY DEF Load, DeviceAt, Base
<1>3. DeviceCells' = DeviceCells
  BY DEF Load, DeviceCells
<1>4. op \in DeviceFlat!Loads \union DeviceFlat!Stores /\ op \notin DeviceFlat!Stores
  BY DEF Loads, DeviceFlat!Loads, DeviceFlat!Stores
<1>5. ASSUME ServedByDevice(op, a) PROVE rd' = DeviceFlat!Loaded(op, c)
  <2> DEFINE w == MmioRead(a, n)
  <2>1. op \in {"LB", "LH", "LW"} /\ n = DeviceFlat!Width(op) /\ n \in {1, 2, 4}
    BY <1>5 DEF ServedByDevice, Loads, Width, DeviceFlat!Width
  <2>2. is_mmio_address(a) /\ ~is_htif_address(a) /\ a < MMIO_BASE + 4 * NRegs
        /\ Aligned(a) < MMIO_BASE + 4 * NRegs
    BY <1>1, <1>5, DeviceServed DEF ServedByDevice
  <2>3. rd' = Extended(op, w)
    BY <2>2 DEF Load, Read
  <2>4. a \in Nat /\ a >= MMIO_BASE
    BY <1>1, <2>2, ConstantWords DEF is_mmio_address
  <2>5. /\ dpi_mmio_read(a) = hw_cfg_reg[Reg(a)]
        /\ dpi_mmio_read(Aligned(a)) = hw_cfg_reg[Reg(a)]
    <3>1. Reg(Aligned(a)) = Reg(a)
      BY <2>1, <2>4, RegisterLanes
    <3> QED
      BY <2>2, <3>1 DEF dpi_mmio_read, Reg
  <2>6. ASSUME NEW i \in Lane, i < n PROVE w[i] = DeviceCells[c + i]
    <3>1. DeviceCells[c + i] = hw_cfg_reg[Reg(a)][First(a, n) + i]
      BY <1>1, <1>5, <2>6, DeviceBytes
    <3>2. First(a, n) \in Nat /\ First(a, n) + n <= 4
      BY <2>1, <2>4, RegisterLanes
    <3>3. CASE n = 4
      BY <2>5, <3>1, <3>3 DEF MmioRead, First, Lane
    <3>4. CASE n # 4
      <4>1. i + First(a, n) \in Lane /\ i + First(a, n) = First(a, n) + i
        BY <2>1, <2>6, <3>2 DEF Lane
      <4>2. First(a, n) = LaneOf(a, n)
        BY <3>4 DEF First
      <4>3. w = Shifted(hw_cfg_reg[Reg(a)], First(a, n))
        BY <2>5, <3>4, <4>2 DEF MmioRead
      <4> HIDE DEF w, n, c
      <4>4. w[i] = hw_cfg_reg[Reg(a)][i + First(a, n)]
        BY <4>1, <4>3 DEF Shifted
      <4> QED
        BY <3>1, <4>1, <4>4
    <3> QED
      BY <3>3, <3>4
  <2>7. Lane = DeviceFlat!Lanes /\ \A b : SignByte(b) = DeviceFlat!SignByte(b)
    BY DEF Lane, DeviceFlat!Lanes, SignByte, DeviceFlat!SignByte
  <2>8. CASE op \in {"LB", "LH"}
    <3>1. n \in {1, 2} /\ n - 1 \in Lane /\ n - 1 < n
      BY <2>8 DEF Width, Lane
    <3>2. Extended(op, w) = [i \in Lane |-> IF i < n THEN w[i] ELSE SignByte(w[n - 1])]
      BY <2>8 DEF Extended, SignExtend
    <3>3. c \in Nat /\ c + (n - 1) = c + n - 1
      BY <2>4, <3>1, RegisterLanes
    <3>4. w[n - 1] = DeviceCells[c + n - 1]
      BY <2>6, <3>1, <3>3
    <3> HIDE DEF n, w, c
    <3>5. Extended(op, w) = [i \in Lane |-> IF i < n THEN DeviceCells[c + i]
                                            ELSE SignByte(DeviceCells[c + n - 1])]
      BY <2>6, <3>2, <3>4
    <3> QED
      BY <2>1, <2>3, <2>7, <2>8, <3>5 DEF DeviceFlat!Loaded
  <2>9. CASE op = "LW"
    <3>1. n = 4 /\ Extended(op, w) = w
      BY <2>9 DEF Width, Extended
    <3>2. w \in Word
      BY <1>1, <2>4, <3>1, DeviceWord DEF MmioRead
    <3> HIDE DEF n, w, c
    <3>3. w = [i \in Lane |-> IF i < n THEN DeviceCells[c + i] ELSE 0]
      BY <2>6, <3>1, <3>2 DEF Word, Lane
    <3> QED
      BY <2>1, <2>3, <2>7, <2>9, <3>1, <3>3 DEF DeviceFlat!Loaded
  <2> QED
    BY <2>1, <2>8, <2>9
<1>6. <<op, c>> \in DeviceServes => ServedByDevice(op, a)
  BY <1>1, DeviceServed
<1> QED
  BY <1>2, <1>3, <1>4, <1>5, <1>6 DEF DeviceFlat!Access

LEMMA StoreIsDevice ==
  ASSUME MemTypeOK, NEW op \in Stores, NEW a \in Addrs, NEW w \in Words, Store(op, a, w)
  PROVE  DeviceFlat!Access
<1> DEFINE n == Width(op)
           c == Base(a, n)
<1>1. a \in Addr /\ op \in Loads \union Stores /\ w \in Word
  BY InputAssumption
<1>2. DeviceAt'.op = op /\ DeviceAt'.addr = c /\ DeviceAt'.data = w
  BY DEF Store, DeviceAt, Base
<1>3. op \in DeviceFlat!Loads \union DeviceFlat!Stores /\ op \in DeviceFlat!Stores
  BY DEF Stores, DeviceFlat!Loads, DeviceFlat!Stores
<1>4. n = DeviceFlat!Width(op) /\ n \in {1, 2, 4} /\ a \in Nat
  BY <1>1, Widths, ConstantWords DEF Width, DeviceFlat!Width
<1>5. MMIO_BASE \in Nat /\ NRegs \in Nat /\ MMIO_BASE % 4 = 0
  BY MapAssumption, ConstantWords
<1>6. CASE ~ServedByDevice(op, a)
  <2>1. is_mmio_address(a) => /\ ~(a < MMIO_BASE + 4 * NRegs)
                              /\ ~(Aligned(a) < MMIO_BASE + 4 * NRegs)
    <3>1. op \notin {"LBU", "LHU"}
      BY DEF Stores
    <3> QED
      BY <1>4, <1>5, <1>6, <3>1 DEF ServedByDevice, is_mmio_address, Aligned
  <2>2. UNCHANGED hw_cfg_reg
    BY <2>1 DEF Store, StoreHtif, StoreMmio, StoreRam, dpi_mmio_write
  <2>3. DeviceCells' = DeviceCells
    BY <2>2 DEF DeviceCells
  <2>4. <<op, c>> \notin DeviceServes
    BY <1>1, <1>6, DeviceServed
  <2> QED
    BY <1>2, <1>3, <2>3, <2>4 DEF DeviceFlat!Access
<1>7. CASE ServedByDevice(op, a)
  <2> DEFINE old == hw_cfg_reg[Reg(a)]
             k == First(a, n)
             new == [i \in Lane |-> IF k <= i /\ i < k + n THEN w[i - k] ELSE old[i]]
  <2>1. /\ is_mmio_address(a) /\ ~is_htif_address(a) /\ Reg(a) \in 0 .. NRegs - 1
        /\ a < MMIO_BASE + 4 * NRegs /\ Aligned(a) < MMIO_BASE + 4 * NRegs
        /\ a >= MMIO_BASE
    BY <1>1, <1>7, DeviceServed DEF ServedByDevice
  <2>2. k \in Nat /\ k + n <= 4 /\ Reg(Aligned(a)) = Reg(a) /\ c \in Nat
    BY <1>4, <2>1, RegisterLanes
  <2>3. StoreMmio(a, n, w)
    BY <2>1 DEF Store
  <2>4. hw_cfg_reg' = [hw_cfg_reg EXCEPT ![Reg(a)] = new]
    <3>1. CASE n = 4
      <4>1. k = 0
        BY <3>1 DEF First
      <4>2. new = [i \in Lane |-> w[i]]
        BY <3>1, <4>1 DEF Lane
      <4>3. new = w
        BY <1>1, <4>2 DEF Word
      <4>4. dpi_mmio_write(a, w)
        BY <2>3, <3>1 DEF StoreMmio
      <4> HIDE DEF new, k, n, c, old
      <4> QED
        BY <2>1, <4>3, <4>4 DEF dpi_mmio_write, Reg
    <3>2. CASE n # 4
      <4>1. dpi_mmio_read(Aligned(a)) = old
        BY <2>1, <2>2 DEF dpi_mmio_read, Reg
      <4>2. k = LaneOf(a, n)
        BY <3>2 DEF First
      <4>3. dpi_mmio_write(Aligned(a), Merged(old, w, k, n))
        BY <2>3, <3>2, <4>1, <4>2 DEF StoreMmio
      <4>4. Merged(old, w, k, n) = new
        BY DEF Merged
      <4> HIDE DEF new, k, n, c, old
      <4> QED
        BY <2>1, <2>2, <4>3, <4>4 DEF dpi_mmio_write, Reg
    <3> QED
      BY <3>1, <3>2
  <2>5. ASSUME NEW x \in MMIO_BASE .. MMIO_BASE + 4 * NRegs - 1
        PROVE  hw_cfg_reg'[(x - MMIO_BASE) \div 4][(x - MMIO_BASE) % 4] =
                 IF c <= x /\ x < c + n THEN w[x - c] ELSE DeviceCells[x]
    <3> DEFINE j == (x - MMIO_BASE) % 4
    <3>1. x \in Nat /\ x >= MMIO_BASE /\ Reg(x) \in 0 .. NRegs - 1 /\ j \in Lane
      BY <1>5 DEF Reg, Lane
    <3>2. /\ (c <= x /\ x < c + n) <=> (Reg(x) = Reg(a) /\ k <= j /\ j < k + n)
          /\ Reg(x) = Reg(a) => x - c = j - k
      BY <1>4, <2>1, <3>1, RegisterLanes
    <3>3. DeviceCells[x] = hw_cfg_reg[Reg(x)][j]
      BY DEF DeviceCells, Reg
    <3>4. hw_cfg_reg'[Reg(x)] = IF Reg(x) = Reg(a) THEN new ELSE hw_cfg_reg[Reg(x)]
      <4> HIDE DEF new
      <4> QED
        BY <2>4, <3>1 DEF MemTypeOK
    <3>5. new[j] = IF k <= j /\ j < k + n THEN w[j - k] ELSE old[j]
      <4> HIDE DEF j
      <4> QED
        BY <3>1
    <3> HIDE DEF new, k, n, c, j
    <3>6. hw_cfg_reg'[Reg(x)][j] = IF c <= x /\ x < c + n THEN w[x - c] ELSE DeviceCells[x]
      BY <3>2, <3>3, <3>4, <3>5
    <3> QED
      BY <3>6 DEF Reg, j
  <2>6. DeviceCells' = [x \in MMIO_BASE .. MMIO_BASE + 4 * NRegs - 1 |->
                          IF c <= x /\ x < c + n THEN w[x - c] ELSE DeviceCells[x]]
    <3> HIDE DEF n, c
    <3> QED
      BY <2>5 DEF DeviceCells
  <2>7. DOMAIN DeviceCells = MMIO_BASE .. MMIO_BASE + 4 * NRegs - 1
    BY DEF DeviceCells
  <2>8. DeviceCells' = DeviceFlat!Stored(op, c, w)
    BY <1>4, <2>6, <2>7 DEF DeviceFlat!Stored
  <2>9. rd' = rd /\ <<op, c>> \in DeviceServes
    BY <1>1, <1>7, DeviceServed DEF Store
  <2> HIDE DEF c
  <2> QED
    BY <1>2, <1>3, <2>8, <2>9 DEF DeviceFlat!Access
<1> QED
  BY <1>6, <1>7

\* The bench's registers behind the window implement the byte store too: a store
\* of a byte, which the simulator turns into a read, a merge and a write of the
\* register, changes that byte and no other, and loads return what was stored.
THEOREM DeviceImplementsFlat == MemSpec => DeviceIsFlat
<1>1. MemInit => DeviceFlat!FlatInit
  BY DEF MemInit, DeviceFlat!FlatInit, DeviceAt, NoAccess
<1>2. MemTypeOK /\ [MemNext]_memVars => [DeviceFlat!FlatNext]_(DeviceFlat!flatVars)
  <2> SUFFICES ASSUME MemTypeOK, [MemNext]_memVars
               PROVE  DeviceFlat!FlatNext \/ UNCHANGED DeviceFlat!flatVars
    BY DEF DeviceFlat!FlatNext
  <2>1. CASE Guest
    BY <2>1, LoadIsDevice, StoreIsDevice DEF Guest, DeviceFlat!FlatNext
  <2>2. CASE Host
    <3>1. Placing
      <4>1. ASSUME NEW p \in Programs, NEW size \in RamSizes, RvInitElf(p, size) PROVE Placing
        BY <4>1 DEF RvInitElf
      <4> QED
        BY <2>2, <4>1 DEF Host, RvInit, RvSetRam, RvLoadElf
    <3>2. DeviceAt'.op = "none" /\ rd' = rd
      BY <3>1 DEF Placing, NoAccess, DeviceAt
    <3> QED
      BY <3>2 DEF DeviceFlat!FlatNext, DeviceFlat!Replace
  <2>3. CASE UNCHANGED memVars
    <3>1. DeviceCells' = DeviceCells /\ DeviceServes' = DeviceServes
          /\ DeviceAt' = DeviceAt /\ rd' = rd
      BY <2>3 DEF memVars, DeviceCells, DeviceServes, DeviceAt, ServedByDevice, Width
    <3> QED
      BY <3>1 DEF DeviceFlat!flatVars
  <2> QED
    BY <2>1, <2>2, <2>3 DEF MemNext, Crash
<1> QED
  BY <1>1, <1>2, MemTypeCorrect, PTL DEF MemSpec, DeviceIsFlat, DeviceFlat!FlatSpec

-----------------------------------------------------------------------------
(* The loaders: what they were asked to place is there                     *)

LEMMA RoundUpCovers == ASSUME NEW x \in Nat PROVE RoundUp(x) \in Nat /\ RoundUp(x) >= x
<1>1. Page \in Nat /\ Page >= 1
  BY InputAssumption
<1> DEFINE q == (x + Page - 1) \div Page
           r == (x + Page - 1) % Page
<1>2. q \in Nat /\ r \in 0 .. Page - 1 /\ x + Page - 1 = Page * q + r
  BY <1>1
<1>3. RoundUp(x) = q * Page
  BY DEF RoundUp
<1> HIDE DEF q, r
<1>4. q * Page = Page * q /\ Page * q \in Nat
  BY <1>1, <1>2
<1> QED
  BY <1>1, <1>2, <1>3, <1>4

\* rv_init_elf allocates what the program spans, or the fixed size of a high one.
LEMMA NeededCovers ==
  ASSUME NEW base \in Nat, NEW span \in Nat, NEW size \in RamSizes
  PROVE  \/ Needed(base, span, size) >= span
         \/ size = 0 /\ Needed(base, span, size) >= HighRam
<1>1. size \in Nat /\ HighRam \in Nat /\ MinRam \in Nat
  BY InputAssumption, MapAssumption
<1> DEFINE asked == IF size > span THEN size ELSE span
           x == IF size = 0 /\ base >= HIGH THEN HighRam
                ELSE IF asked < MinRam THEN MinRam ELSE asked
<1>2. x \in Nat /\ (x >= span \/ (size = 0 /\ x = HighRam))
  BY <1>1
<1>3. Needed(base, span, size) = RoundUp(x)
  BY DEF Needed
<1> HIDE DEF x
<1> QED
  BY <1>1, <1>2, <1>3, RoundUpCovers

\* Segments do not overlap, so the one that covers an offset decides its byte.
LEMMA SegmentCopied ==
  ASSUME NEW n \in Nat, NEW m, DOMAIN m = 0 .. n - 1, NEW base \in Nat, NEW p \in Programs,
         NEW ss \in SUBSET p, NEW s \in ss, base <= s.vaddr,
         NEW i \in 0 .. s.memsz - 1, NEW o \in 0 .. n - 1, o = s.vaddr - base + i
  PROVE  WithSegments(m, ss, base)[o] = IF i < s.filesz THEN s.data[i] ELSE 0
<1> DEFINE here == {t \in ss : t.vaddr - base <= o /\ o < t.vaddr - base + t.memsz}
           chosen == CHOOSE t \in here : TRUE
<1>1. \A t \in p : t.vaddr \in Nat /\ t.memsz \in Nat /\ t.filesz \in Nat
  <2>1. \A t \in p : t.vaddr \in Addr /\ t.memsz \in Nat /\ t.filesz \in 0 .. t.memsz
    BY InputAssumption
  <2>2. ASSUME NEW k \in Nat, NEW j \in 0 .. k PROVE j \in Nat
    BY <2>2
  <2> QED
    BY <2>1, <2>2, ConstantWords
<1>2. s \in p /\ s.vaddr \in Nat /\ s.memsz \in Nat /\ s.filesz \in Nat /\ i \in Nat
      /\ o = s.vaddr - base + i /\ i < s.memsz
  BY <1>1
<1>3. s \in here
  BY <1>2
<1>4. ASSUME NEW t \in here PROVE t = s
  <2>1. t \in p /\ t.vaddr \in Nat /\ t.memsz \in Nat
        /\ t.vaddr - base <= o /\ o < t.vaddr - base + t.memsz
    BY <1>1
  <2>2. t # s => s.vaddr + s.memsz <= t.vaddr \/ t.vaddr + t.memsz <= s.vaddr
    BY <1>2, <2>1, InputAssumption
  <2> DEFINE v == s.vaddr
             z == s.memsz
             tv == t.vaddr
             tz == t.memsz
  <2>3. /\ v \in Nat /\ z \in Nat /\ tv \in Nat /\ tz \in Nat /\ i \in Nat /\ i < z
        /\ o = v - base + i /\ tv - base <= o /\ o < tv - base + tz
        /\ t # s => v + z <= tv \/ tv + tz <= v
    BY <1>2, <2>1, <2>2
  <2> HIDE DEF v, z, tv, tz
  <2> QED
    BY <2>3
<1>5. chosen = s
  BY <1>3, <1>4
<1>6. WithSegments(m, ss, base)[o] =
        IF here = {} THEN m[o]
        ELSE IF o < chosen.vaddr - base + chosen.filesz
               THEN chosen.data[o - (chosen.vaddr - base)] ELSE 0
  BY DEF WithSegments
<1>7. (o < s.vaddr - base + s.filesz <=> i < s.filesz) /\ o - (s.vaddr - base) = i
  BY <1>2
<1> HIDE DEF here, chosen
<1> QED
  BY <1>3, <1>5, <1>6, <1>7

\* A byte load outside the windows returns the byte of memory[].
ReadsRam ==
  \A a \in Addr :
    ~is_htif_address(a) /\ ~is_mmio_address(a) /\ memory_base <= a /\ a < memory_base + memory_size
      => Read(a, 1)[0] = memory[a - memory_base]

LEMMA ReadsRamNow == MemTypeOK => ReadsRam
<1> SUFFICES ASSUME MemTypeOK, NEW a \in Addr, ~is_htif_address(a), ~is_mmio_address(a),
                    memory_base <= a, a < memory_base + memory_size
             PROVE  Read(a, 1)[0] = memory[a - memory_base]
  BY DEF ReadsRam
<1>1. a \in Nat /\ memory_base \in Nat /\ memory_size \in Nat
  BY ConstantWords, MapAssumption DEF MemTypeOK
<1>2. valid_memory_access(a, 1)
  BY <1>1, InRam
<1>3. RamRead(a, 1)[0] = memory[a - memory_base + 0]
  BY <1>2 DEF RamRead, Lane
<1> QED
  BY <1>1, <1>3 DEF Read

LEMMA ReadsRamNext == MemTypeOK' => ReadsRam'
  BY ReadsRamNow, PTL

\* A segment among those copied into RAM is visible there.
LEMMA CopiedIsVisible ==
  ASSUME MemTypeOK', NEW p \in Programs, NEW ss \in SUBSET p, NEW m, NEW base \in Nat, NEW size \in Nat,
         DOMAIN m = 0 .. size - 1, Ram(base, WithSegments(m, ss, base), size),
         NEW s \in ss, base <= s.vaddr, s.vaddr + s.memsz <= base + size
  PROVE  SegmentVisible(s)'
<1> SUFFICES ASSUME NEW i \in 0 .. s.memsz - 1,
                    ~is_htif_address(s.vaddr + i), ~is_mmio_address(s.vaddr + i)
             PROVE  Read(s.vaddr + i, 1)'[0] = IF i < s.filesz THEN s.data[i] ELSE 0
  BY DEF SegmentVisible
<1>1. s.vaddr \in Nat /\ s.memsz \in Nat /\ s.vaddr + s.memsz <= TOP /\ TOP \in Nat
  BY InputAssumption, ConstantWords, MapAssumption
<1> DEFINE a == s.vaddr + i
           o == s.vaddr - base + i
<1>2. /\ a \in Nat /\ a < TOP /\ base <= a /\ a < base + size
      /\ o \in 0 .. size - 1 /\ a - base = o
  <2> DEFINE v == s.vaddr
             z == s.memsz
  <2>1. /\ v \in Nat /\ z \in Nat /\ v + z <= TOP /\ base <= v /\ v + z <= base + size
        /\ TOP \in Nat /\ i \in 0 .. z - 1
    BY <1>1
  <2> HIDE DEF v, z
  <2>2. v + i \in Nat /\ v + i < TOP /\ base <= v + i /\ v + i < base + size
    BY <2>1
  <2>3. v - base + i \in 0 .. size - 1 /\ (v + i) - base = v - base + i
    BY <2>1
  <2> QED
    BY <2>2, <2>3 DEF v
<1>3. a \in Addr
  BY <1>1, <1>2 DEF Addr
<1>4. memory_base' = base /\ memory_size' = size /\ memory' = WithSegments(m, ss, base)
  BY DEF Ram
<1>5. WithSegments(m, ss, base)[o] = IF i < s.filesz THEN s.data[i] ELSE 0
  BY <1>2, SegmentCopied
<1> HIDE DEF a, o
<1>6. ~is_htif_address(a) /\ ~is_mmio_address(a)
  BY DEF a
<1>7. Read(a, 1)'[0] = memory'[a - base]
  BY <1>2, <1>3, <1>4, <1>6, ReadsRamNext DEF ReadsRam, is_htif_address, is_mmio_address
<1> QED
  BY <1>2, <1>4, <1>5, <1>7 DEF a

LEMMA InitElfPlaces ==
  ASSUME MemTypeOK, MemTypeOK', NEW p \in Programs, NEW size \in RamSizes, RvInitElf(p, size)
  PROVE  LoadersPlace'
<1>1. PICK first \in p, last \in p :
        LET base == first.vaddr
            end == SegEnd(last)
            needed == Needed(base, end - base, size)
            fit == {s \in p : SegEnd(s) <= Wrap(base + needed)}
        IN /\ Lowest(first, p) /\ Highest(last, p)
           /\ placed' = [by |-> "rv_init_elf", program |-> p, size |-> size]
           /\ \/ end <= base
              \/ LosesRam
              \/ /\ end > base /\ needed <= MaxRam
                 /\ Ram(base, WithSegments([o \in 0 .. needed - 1 |-> 0], fit, base), needed)
  BY DEF RvInitElf
<1> DEFINE base == first.vaddr
           end == SegEnd(last)
           needed == Needed(base, end - base, size)
           fit == {s \in p : SegEnd(s) <= Wrap(base + needed)}
<1>2. placed'.by = "rv_init_elf" /\ placed'.program = p /\ placed'.size = size
  BY <1>1
<1> SUFFICES ASSUME memory_size' # 0, memory_base' + memory_size' < TOP, NEW s \in p,
                    ~(SegEnd(s) < s.vaddr),
                    ~(size = 0 /\ s.vaddr + s.memsz > memory_base' + HighRam)
             PROVE  SegmentVisible(s)'
  BY <1>2 DEF LoadersPlace, SegEnd, Wrap
<1>3. s.vaddr \in Nat /\ s.memsz \in Nat /\ s.vaddr + s.memsz <= TOP /\ s.memsz < TOP /\ TOP \in Nat
  BY InputAssumption, ConstantWords, MapAssumption
<1>4. SegEnd(s) = s.vaddr + s.memsz
  BY <1>3 DEF SegEnd, Wrap
<1>5. base \in Nat /\ base \in Addr /\ end \in Nat /\ base <= s.vaddr /\ SegEnd(s) <= end
  BY <1>1, SegmentEnd, ConstantWords DEF Lowest, Highest
<1>6. CASE end <= base
  <2>1. s.memsz = 0
    BY <1>3, <1>4, <1>5, <1>6
  <2> QED
    BY <2>1 DEF SegmentVisible
<1>7. CASE LosesRam
  BY <1>7 DEF LosesRam, Ram
<1>8. CASE /\ end > base /\ needed <= MaxRam
           /\ Ram(base, WithSegments([o \in 0 .. needed - 1 |-> 0], fit, base), needed)
  <2>1. end - base \in Nat
    BY <1>5, <1>8
  <2>2. /\ needed \in Nat
        /\ needed >= end - base \/ (size = 0 /\ needed >= HighRam)
    BY <1>5, <2>1, NeededNat, NeededCovers
  <2> HIDE DEF needed, base, end
  <2>3. memory_base' = base /\ memory_size' = needed
    BY <1>8 DEF Ram
  <2>4. HighRam \in Nat
    BY InputAssumption, MapAssumption
  <2>5. s.vaddr + s.memsz <= base + needed
    BY <1>3, <1>4, <1>5, <2>2, <2>3, <2>4
  <2>6. Wrap(base + needed) = base + needed
    BY <1>3, <1>5, <2>2, <2>3 DEF Wrap
  <2>7. s \in fit /\ fit \in SUBSET p
    BY <1>4, <2>5, <2>6
  <2> HIDE DEF fit
  <2>8. DOMAIN [o \in 0 .. needed - 1 |-> 0] = 0 .. needed - 1
    OBVIOUS
  <2> QED
    BY <1>5, <1>8, <2>2, <2>5, <2>7, <2>8, CopiedIsVisible
<1> QED
  BY <1>1, <1>6, <1>7, <1>8

LEMMA LoadElfPlaces ==
  ASSUME MemTypeOK, MemTypeOK', NEW p \in Programs, RvLoadElf(p)
  PROVE  LoadersPlace'
<1> DEFINE fit == {s \in p : SegEnd(s) <= memory_size}
<1>1. /\ placed'.by = "rv_load_elf" /\ placed'.program = p
      /\ Ram(memory_base, WithSegments(memory, fit, 0), memory_size)
  BY DEF RvLoadElf
<1> SUFFICES ASSUME memory_base' = 0, NEW s \in p, s.vaddr + s.memsz <= memory_size'
             PROVE  SegmentVisible(s)'
  BY <1>1 DEF LoadersPlace
<1>2. memory_base = 0 /\ memory_size' = memory_size
  BY <1>1 DEF Ram
<1>3. s.vaddr \in Nat /\ s.memsz \in Nat /\ memory_size \in Nat /\ memory_size < TOP
      /\ DOMAIN memory = 0 .. memory_size - 1
  <2>1. s.vaddr \in Nat /\ s.memsz \in Nat
    BY InputAssumption, ConstantWords
  <2>2. memory_size \in 0 .. MaxRam /\ MaxRam \in Nat /\ MaxRam < TOP /\ TOP \in Nat
    BY MapAssumption DEF MemTypeOK
  <2> QED
    BY <2>1, <2>2 DEF MemTypeOK
<1>4. SegEnd(s) <= memory_size
  BY <1>2, <1>3, MapAssumption DEF SegEnd, Wrap
<1>5. s \in fit /\ fit \in SUBSET p
  BY <1>4
<1> HIDE DEF fit
<1> QED
  BY <1>1, <1>2, <1>3, <1>5, CopiedIsVisible

\* After rv_init_elf or rv_load_elf, and until the guest runs, every byte of every
\* segment the loader is answerable for can be read at its address, zeros past the
\* file's bytes included: for any program, RAM size and page size.
THEOREM LoadersArePlacing == MemSpec => []LoadersPlace
<1>1. MemInit => LoadersPlace
  BY DEF MemInit, LoadersPlace, NoLoader
<1>2. MemTypeOK /\ MemTypeOK' /\ LoadersPlace /\ [MemNext]_memVars => LoadersPlace'
  <2> SUFFICES ASSUME MemTypeOK, MemTypeOK', LoadersPlace, [MemNext]_memVars PROVE LoadersPlace'
    OBVIOUS
  <2>1. CASE placed' = NoLoader
    BY <2>1 DEF LoadersPlace, NoLoader
  <2>2. CASE Guest
    BY <2>1, <2>2 DEF Guest, Load, Store
  <2>3. CASE Host
    BY <2>1, <2>3, InitElfPlaces, LoadElfPlaces DEF Host, RvInit, RvSetRam
  <2>4. CASE UNCHANGED memVars
    BY <2>4 DEF memVars, ram, LoadersPlace, SegmentVisible, SegEnd, Wrap, Read, HtifRead, MmioRead,
       RamRead, dpi_mmio_read, valid_memory_access, Shifted, Aligned, LaneOf, is_htif_address, is_mmio_address
  <2> QED
    BY <2>2, <2>3, <2>4 DEF MemNext, Crash
<1> QED
  BY <1>1, <1>2, MemTypeCorrect, PTL DEF MemSpec
=============================================================================
