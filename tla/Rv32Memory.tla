----------------------------- MODULE Rv32Memory -----------------------------
(***************************************************************************)
(* The address map of the simulator, rv32_dpi.c: RAM between memory_base   *)
(* and memory_base + memory_size, the MMIO window that calls the bench,    *)
(* and the sixteen bytes of the host interface (tohost and fromhost).  The *)
(* guest loads and stores bytes, halfwords and words; the host places      *)
(* programs in RAM with the loaders and rv_set_ram.  The bench behind the  *)
(* window is the register file of tb_top_mmio_regs.sv and rv32_dpi_vpi.c.  *)
(*                                                                         *)
(* A word is four bytes, lowest first; a byte has BYTE values and an       *)
(* address is below TOP = BYTE^4, so that 2^32 is a parameter.             *)
(***************************************************************************)
EXTENDS Integers

CONSTANTS
  BYTE, TOP,            \* values of a byte; the address after the last one
  MMIO_BASE, MMIO_SIZE, \* the window of dpi_mmio_read and dpi_mmio_write
  NRegs,                \* registers the bench has in it
  HTIF,                 \* address of tohost
  MAGIC,                \* first word of a request to the host
  HIGH, HighRam,        \* programs linked at HIGH or above get HighRam bytes
  MinRam, Page,         \* least allocation of rv_init_elf, and its rounding
  MaxRam,               \* bound: the largest RAM a loader is asked for
  RamSizes,             \* ram_size arguments
  Programs,             \* executables: sets of segments
  Images,               \* raw contents of RAM given by the host
  Addrs, Words,         \* addresses and words the guest uses
  MaxOps                \* bound: guest accesses in a run

ASSUME ByteAssumption == BYTE \in Nat /\ BYTE >= 2 /\ BYTE % 2 = 0
Byte == 0 .. BYTE - 1
Lane == 0 .. 3
Word == [Lane -> Byte]
Addr == 0 .. TOP - 1
ASSUME MapAssumption ==
  /\ TOP \in Nat /\ TOP = BYTE * BYTE * BYTE * BYTE
  /\ MMIO_BASE \in Addr /\ MMIO_SIZE \in Nat /\ NRegs \in Nat
  /\ 4 * NRegs <= MMIO_SIZE /\ MMIO_BASE + MMIO_SIZE < HTIF
  /\ HTIF \in Addr /\ HTIF + 16 < TOP /\ MMIO_BASE % 4 = 0
  /\ MaxRam \in Nat /\ MaxRam < TOP /\ MaxOps \in Nat
ASSUME InputAssumption ==
  /\ Addrs \subseteq Addr /\ Words \subseteq Word
  /\ RamSizes \subseteq 0 .. MaxRam
  /\ (\A image \in Images : image \in [0 .. MaxRam - 1 -> Byte]) /\ MAGIC \in Word
  /\ MinRam \in 1 .. MaxRam /\ HighRam \in 1 .. MaxRam
  /\ Page \in Nat \ {0} /\ HIGH \in Addr
  /\ \A p \in Programs : \A s \in p :
       /\ s.vaddr \in Addr /\ s.memsz \in Nat /\ s.memsz < TOP /\ s.filesz \in 0 .. s.memsz
       /\ s.vaddr + s.memsz <= TOP
       /\ s.data \in [0 .. s.filesz - 1 -> Byte]
       /\ \A t \in p \ {s} : s.vaddr + s.memsz <= t.vaddr \/ t.vaddr + t.memsz <= s.vaddr

VARIABLES
  memory, memory_base, memory_size,
  hw_cfg_reg,           \* the bench's registers
  htif,                 \* tohost, fromhost, halted and the exit code
  rd,                   \* the last word a load returned
  at,                   \* history: the last guest access, or no access
  placed,               \* history: what the last loader was asked, until the guest runs
  crashed,              \* an access outside memory[] ended the process
  ops                   \* guest accesses so far

ram == <<memory, memory_base, memory_size>>
memVars == <<memory, memory_base, memory_size, hw_cfg_reg, htif, rd, at,
             placed, crashed, ops>>

Loads == {"LB", "LH", "LW", "LBU", "LHU"}
Stores == {"SB", "SH", "SW"}
Width(op) == IF op \in {"LB", "LBU", "SB"} THEN 1
             ELSE IF op \in {"LH", "LHU", "SH"} THEN 2 ELSE 4

ZeroWord == [i \in Lane |-> 0]
OneWord == [ZeroWord EXCEPT ![0] = 1]
Val(w) == w[0] + BYTE * (w[1] + BYTE * (w[2] + BYTE * w[3]))
NoBytes == [o \in {} |-> 0]
NoAccess == [op |-> "none", addr |-> 0, data |-> ZeroWord]
NoLoader == [by |-> "none", program |-> {}, size |-> 0]
NoRequest == [tohost_lo |-> ZeroWord, tohost_hi |-> ZeroWord, fromhost_lo |-> ZeroWord,
              fromhost_hi |-> ZeroWord, halted |-> FALSE, exit_code |-> 0]

Wrap(x) == IF x >= TOP THEN x - TOP ELSE x

-----------------------------------------------------------------------------
(* Decoding                                                                *)

is_htif_address(a) == a >= HTIF /\ a < HTIF + 16
is_mmio_address(a) == a >= MMIO_BASE /\ a < MMIO_BASE + MMIO_SIZE

\* Mutant: only the first byte of the access is checked.
valid_first_byte(a, n) == a >= memory_base /\ a - memory_base < memory_size
\* The sum is computed in 32 bits.
valid_memory_access(a, n) == a >= memory_base /\ Wrap(a - memory_base + n) <= memory_size

\* An access that passed the check and yet leaves the buffer.
Leaves(a, n) == valid_memory_access(a, n) /\ a - memory_base + n > memory_size

\* dpi_mmio_read of the bench: the registers it has, and 0 past them.
dpi_mmio_read(a) == IF a < MMIO_BASE + 4 * NRegs
                      THEN hw_cfg_reg[(a - MMIO_BASE) \div 4] ELSE ZeroWord

\* The bytes of w from lane k up, moved to the bottom.
Shifted(w, k) == [i \in Lane |-> IF i + k \in Lane THEN w[i + k] ELSE 0]

\* Mutant: a halfword is taken from the lane of its address.
LaneOfByte(a, n) == a % 4
\* The lane a halfword or byte access to the window takes.
LaneOf(a, n) == IF n = 2 THEN 2 * ((a % 4) \div 2) ELSE a % 4
Aligned(a) == a - (a % 4)

HtifRead(a) == IF a = HTIF + 8 THEN htif.fromhost_lo
               ELSE IF a = HTIF + 12 THEN htif.fromhost_hi ELSE ZeroWord

MmioRead(a, n) == IF n = 4 THEN dpi_mmio_read(a)
                  ELSE Shifted(dpi_mmio_read(Aligned(a)), LaneOf(a, n))

RamRead(a, n) ==
  IF ~valid_memory_access(a, n) THEN ZeroWord
  ELSE [i \in Lane |-> IF i < n THEN memory[a - memory_base + i] ELSE 0]

\* read_u8, read_u16 and read_u32
Read(a, n) == IF is_htif_address(a) THEN HtifRead(a)
              ELSE IF is_mmio_address(a) THEN MmioRead(a, n) ELSE RamRead(a, n)

SignByte(b) == IF b >= BYTE \div 2 THEN BYTE - 1 ELSE 0
SignExtend(w, n) == [i \in Lane |-> IF i < n THEN w[i] ELSE SignByte(w[n - 1])]
\* Mutant: only LB extends the sign.
ExtendedByte(op, w) == IF op = "LB" THEN SignExtend(w, Width(op)) ELSE w
Extended(op, w) == IF op \in {"LB", "LH"} THEN SignExtend(w, Width(op)) ELSE w

-----------------------------------------------------------------------------
(* Guest accesses                                                          *)

\* rv_step needs memory, and fetches nothing once the program exited.
Running == memory_size # 0 /\ ~htif.halted /\ ~crashed /\ ops < MaxOps

Load(op, a) ==
  LET n == Width(op)
      faults == ~is_htif_address(a) /\ ~is_mmio_address(a) /\ Leaves(a, n)
  IN /\ Running
     /\ at' = [op |-> op, addr |-> a, data |-> ZeroWord]
     /\ ops' = ops + 1 /\ placed' = NoLoader
     /\ crashed' = faults
     /\ rd' = IF faults THEN rd ELSE Extended(op, Read(a, n))
     /\ UNCHANGED <<ram, hw_cfg_reg, htif>>

\* The bench stores the word whole; past its registers it ignores it.
dpi_mmio_write(a, w) ==
  hw_cfg_reg' = IF a < MMIO_BASE + 4 * NRegs
                  THEN [hw_cfg_reg EXCEPT ![(a - MMIO_BASE) \div 4] = w] ELSE hw_cfg_reg

\* old with its lanes from k on, n of them, taken from w.
Merged(old, w, k, n) == [i \in Lane |-> IF k <= i /\ i < k + n THEN w[i - k] ELSE old[i]]

StoreMmio(a, n, w) ==
  /\ IF n = 4 THEN dpi_mmio_write(a, w)
     ELSE dpi_mmio_write(Aligned(a), Merged(dpi_mmio_read(Aligned(a)), w, LaneOf(a, n), n))
  /\ crashed' = FALSE
  /\ UNCHANGED <<ram, htif>>

StoreRam(a, n, w) ==
  /\ crashed' = Leaves(a, n)
  /\ memory' = IF ~valid_memory_access(a, n) \/ Leaves(a, n) THEN memory
               ELSE [o \in DOMAIN memory |->
                       IF a - memory_base <= o /\ o < a - memory_base + n
                         THEN w[o - (a - memory_base)] ELSE memory[o]]
  /\ UNCHANGED <<memory_base, memory_size, hw_cfg_reg, htif>>

\* Mutant: an exit request is not kept in tohost.
RequestForgotten(w) ==
  IF w[0] % 2 = 1 THEN htif' = [htif EXCEPT !.halted = TRUE, !.exit_code = Val(w) \div 2]
  ELSE htif' = [htif EXCEPT !.tohost_lo = w]

\* htif_process_request: an odd word ends the program; an even one is the
\* address of a request in RAM, of which only the first byte is checked to
\* be there.  What lies past the end of RAM may look like a request: reading it, up
\* to 27 bytes on, is taken to do no more harm than that.
Request(w) ==
  LET offset == Val(w) - memory_base
      inRam == Val(w) >= memory_base /\ Val(w) < Wrap(memory_base + memory_size)
      told == [htif EXCEPT !.tohost_lo = w]
      answered == [told EXCEPT !.fromhost_lo = OneWord, !.fromhost_hi = ZeroWord]
  IN IF w[0] % 2 = 1
       THEN htif' = [told EXCEPT !.halted = TRUE, !.exit_code = Val(w) \div 2]
     ELSE IF w = ZeroWord \/ ~inRam THEN htif' = told
     ELSE IF offset + 4 <= memory_size
       THEN htif' = IF [i \in Lane |-> memory[offset + i]] = MAGIC THEN answered ELSE told
     ELSE htif' \in {told, answered}

StoreHtif(a, w) ==
  /\ \/ a = HTIF /\ Request(w)
     \/ a = HTIF + 4 /\ htif' = [htif EXCEPT !.tohost_hi = w]
     \/ a = HTIF + 8 /\ htif' = [htif EXCEPT !.fromhost_lo = w]
     \/ a = HTIF + 12 /\ htif' = [htif EXCEPT !.fromhost_hi = w]
     \/ a \notin {HTIF, HTIF + 4, HTIF + 8, HTIF + 12} /\ UNCHANGED htif
  /\ crashed' = FALSE
  /\ UNCHANGED <<ram, hw_cfg_reg>>

\* write_u8, write_u16 and write_u32: only words reach the host interface.
Store(op, a, w) ==
  LET n == Width(op)
  IN /\ Running
     /\ at' = [op |-> op, addr |-> a, data |-> w]
     /\ ops' = ops + 1 /\ placed' = NoLoader
     /\ UNCHANGED rd
     /\ \/ n = 4 /\ is_htif_address(a) /\ StoreHtif(a, w)
        \/ is_mmio_address(a) /\ StoreMmio(a, n, w)
        \/ ~(n = 4 /\ is_htif_address(a)) /\ ~is_mmio_address(a) /\ StoreRam(a, n, w)

-----------------------------------------------------------------------------
(* Placement of programs                                                   *)

\* The host speaks to the simulator between calls of rv_step.
Placing == ~crashed /\ at' = NoAccess /\ UNCHANGED <<hw_cfg_reg, rd, ops>>

Ram(base, contents, size) ==
  memory_base' = base /\ memory_size' = size /\ memory' = contents

\* malloc returned NULL: the old memory is gone.
LosesRam == Ram(memory_base, NoBytes, 0)

\* Mutant: the size is recorded before its default is filled in.
RvInitNoDefault(size, image) ==
  LET n == IF size = 0 THEN MinRam ELSE size
  IN /\ Placing
     /\ Ram(0, [o \in 0 .. n - 1 |-> image[o]], size) \/ LosesRam
     /\ placed' = NoLoader
     /\ UNCHANGED <<htif, crashed>>

\* rv_init and rv_init_from_buffer: fresh RAM at 0 that starts with the image.
RvInit(size, image) ==
  LET n == IF size = 0 THEN MinRam ELSE size
  IN /\ Placing
     /\ Ram(0, [o \in 0 .. n - 1 |-> image[o]], n) \/ LosesRam
     /\ placed' = NoLoader
     /\ UNCHANGED <<htif, crashed>>

\* rv_set_ram: the host's buffer, as it is.
RvSetRam(size, image) ==
  /\ Placing
  /\ Ram(0, [o \in 0 .. size - 1 |-> image[o]], size)
  /\ placed' = NoLoader
  /\ UNCHANGED <<htif, crashed>>

SegEnd(s) == Wrap(s.vaddr + s.memsz)
Lowest(s, p) == \A t \in p : s.vaddr <= t.vaddr
Highest(s, p) == \A t \in p : SegEnd(t) <= SegEnd(s)

RoundUp(x) == ((x + Page - 1) \div Page) * Page

\* How much rv_init_elf allocates for a program from base on.
Needed(base, span, size) ==
  LET asked == IF size > span THEN size ELSE span
  IN RoundUp(IF size = 0 /\ base >= HIGH THEN HighRam
             ELSE IF asked < MinRam THEN MinRam ELSE asked)

\* Mutant: the bytes past the file are left as they are.
WithFileBytes(m, ss, base) ==
  [o \in DOMAIN m |->
     LET here == {s \in ss : s.vaddr - base <= o /\ o < s.vaddr - base + s.filesz}
     IN IF here = {} THEN m[o] ELSE LET s == CHOOSE s \in here : TRUE IN s.data[o - (s.vaddr - base)]]

\* RAM m with the segments of ss copied to their address less base: the
\* file's bytes, then zeros up to memsz.
WithSegments(m, ss, base) ==
  [o \in DOMAIN m |->
     LET here == {s \in ss : s.vaddr - base <= o /\ o < s.vaddr - base + s.memsz}
     IN IF here = {} THEN m[o]
        ELSE LET s == CHOOSE s \in here : TRUE
             IN IF o < s.vaddr - base + s.filesz THEN s.data[o - (s.vaddr - base)] ELSE 0]

\* A segment that passed the check because its end wraps is copied past RAM.
Overruns(ss, base, size) == \E s \in ss : s.memsz > 0 /\ s.vaddr - base + s.memsz > size

\* rv_init_elf, its header accepted: the host interface is reset, RAM starts
\* at the lowest segment, and a segment that does not fit is passed over.
RvInitElf(p, size) ==
  \E first, last \in p :
    LET base == first.vaddr
        end == SegEnd(last)
        needed == Needed(base, end - base, size)
        fit == {s \in p : SegEnd(s) <= Wrap(base + needed)}
    IN /\ Lowest(first, p) /\ Highest(last, p)
       /\ Placing
       /\ htif' = NoRequest
       /\ placed' = [by |-> "rv_init_elf", program |-> p, size |-> size]
       /\ \/ end <= base /\ UNCHANGED <<ram, crashed>>
          \/ end > base /\ LosesRam /\ UNCHANGED crashed
          \/ /\ end > base /\ needed <= MaxRam
             /\ crashed' = Overruns(fit, base, needed)
             /\ Ram(base, WithSegments([o \in 0 .. needed - 1 |-> 0], fit, base), needed)

\* rv_load_elf: into the RAM that is there, with virtual addresses for offsets.
RvLoadElf(p) ==
  LET fit == {s \in p : SegEnd(s) <= memory_size}
  IN /\ Placing
     /\ crashed' = Overruns(fit, 0, memory_size)
     /\ Ram(memory_base, WithSegments(memory, fit, 0), memory_size)
     /\ placed' = [by |-> "rv_load_elf", program |-> p, size |-> memory_size]
     /\ UNCHANGED htif

Crash == crashed /\ UNCHANGED memVars

-----------------------------------------------------------------------------
\* The values the C file gives its static variables.
MemInit ==
  /\ memory = NoBytes /\ memory_size = 0 /\ memory_base = 0
  /\ hw_cfg_reg = [i \in 0 .. NRegs - 1 |-> ZeroWord]
  /\ htif = NoRequest /\ rd = ZeroWord /\ at = NoAccess
  /\ placed = NoLoader /\ crashed = FALSE /\ ops = 0

Guest == \/ \E op \in Loads, a \in Addrs : Load(op, a)
         \/ \E op \in Stores, a \in Addrs, w \in Words : Store(op, a, w)
Host == \/ \E size \in RamSizes, image \in Images : RvInit(size, image)
        \/ \E size \in RamSizes \ {0}, image \in Images : RvSetRam(size, image)
        \/ \E p \in Programs, size \in RamSizes : RvInitElf(p, size)
        \/ \E p \in Programs : RvLoadElf(p)

MemNext == Guest \/ Host \/ Crash
MemSpec == MemInit /\ [][MemNext]_memVars

-----------------------------------------------------------------------------
(* Properties                                                              *)

\* Types: RAM holds exactly memory_size bytes, from an address on.
MemTypeOK ==
  /\ memory_size \in 0 .. MaxRam /\ memory_base \in Addr
  /\ memory \in [0 .. memory_size - 1 -> Byte]
  /\ hw_cfg_reg \in [0 .. NRegs - 1 -> Word]
  /\ htif \in [tohost_lo: Word, tohost_hi: Word, fromhost_lo: Word, fromhost_hi: Word,
               halted: BOOLEAN, exit_code: Nat]
  /\ rd \in Word
  /\ at \in [op: Loads \union Stores \union {"none"}, addr: Addr, data: Word]
  /\ placed \in [by: {"none", "rv_init_elf", "rv_load_elf"},
                 program: Programs \union {{}}, size: 0 .. MaxRam]
  /\ crashed \in BOOLEAN /\ ops \in 0 .. MaxOps

\* RAM is a byte store for the accesses that reach it: those that lie in it
\* whole, outside the device window, and of the host window only the stores of
\* bytes and halfwords, which rv32_dpi.c does not decode there.
ServedByRam(op, a) ==
  /\ memory_base <= a /\ a + Width(op) <= memory_base + memory_size
  /\ ~is_mmio_address(a)
  /\ is_htif_address(a) => op \in {"SB", "SH"}
RamServes == {x \in (Loads \union Stores) \X Addr : ServedByRam(x[1], x[2])}
RamCells == [a \in memory_base .. memory_base + memory_size - 1 |-> memory[a - memory_base]]
RamFlat == INSTANCE FlatMemory WITH cells <- RamCells, plain <- RamServes
RamIsFlat == RamFlat!FlatSpec

\* The bench's registers are one too, at addresses rounded down to the width
\* of the access, for every access but the unsigned loads, which return the
\* bytes above theirs as well: a byte store merges its byte into the register, and
\* must change its lane only.  (The read and the write of the bench it is made of are
\* one step here: a register that acts on being read is another bench's.)
ServedByDevice(op, a) ==
  MMIO_BASE <= a /\ a < MMIO_BASE + 4 * NRegs /\ op \notin {"LBU", "LHU"}
DeviceServes == {x \in (Loads \union Stores) \X Addr : ServedByDevice(x[1], x[2])}
DeviceCells == [a \in MMIO_BASE .. MMIO_BASE + 4 * NRegs - 1 |->
                  hw_cfg_reg[(a - MMIO_BASE) \div 4][(a - MMIO_BASE) % 4]]
DeviceAt == [at EXCEPT !.addr = at.addr - (at.addr % Width(at.op))]
DeviceFlat == INSTANCE FlatMemory WITH cells <- DeviceCells, plain <- DeviceServes, at <- DeviceAt
DeviceIsFlat == DeviceFlat!FlatSpec

\* The check of valid_memory_access keeps every access inside memory[] but one
\* that runs up to the last address while RAM starts at the first; a loader
\* leaves memory[] only for a segment that ends there.  The reads of a request near
\* the end of RAM, which pass memory[] too, are not accesses it is about (Request).
CrashOnlyAtTop ==
  crashed => IF at.op # "none"
               THEN at.addr + Width(at.op) >= TOP + memory_base
               ELSE \E s \in placed.program : s.vaddr + s.memsz = TOP

\* What rv_is_halted and rv_get_exit_code report is what tohost holds, however
\* requests, plain words and restarts follow each other.
ExitIsTohost ==
  /\ htif.halted <=> htif.tohost_lo[0] % 2 = 1
  /\ htif.halted => htif.exit_code = Val(htif.tohost_lo) \div 2

\* After a loader ran and until the guest does, a byte load at an address of a
\* segment, outside the two windows, returns the segment's byte, zero past the
\* file: for rv_init_elf if RAM ends below the last address and is not the
\* fixed size of a high program too large for it, for rv_load_elf if RAM starts
\* at 0 and holds the segment.
SegmentVisible(s) ==
  \A i \in 0 .. s.memsz - 1 :
    is_htif_address(s.vaddr + i) \/ is_mmio_address(s.vaddr + i)
      \/ Read(s.vaddr + i, 1)[0] = IF i < s.filesz THEN s.data[i] ELSE 0

LoadersPlace ==
  /\ placed.by = "rv_init_elf" /\ memory_size # 0 /\ memory_base + memory_size < TOP
       => \A s \in placed.program :
            \/ SegEnd(s) < s.vaddr
            \/ placed.size = 0 /\ s.vaddr + s.memsz > memory_base + HighRam
            \/ SegmentVisible(s)
  /\ placed.by = "rv_load_elf" /\ memory_base = 0 /\ ~crashed
       => \A s \in placed.program : s.vaddr + s.memsz <= memory_size => SegmentVisible(s)
=============================================================================
