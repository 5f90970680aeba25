------------------------------ MODULE Rv32Insn ------------------------------
(***************************************************************************)
(* The data path of the hart: execute_instruction and execute_compressed   *)
(* of rv32_dpi.c, run on the programs the benches write into RAM           *)
(* (rv32_dpi_mmio_regs_tb.cpp, rv32_dpi_muldiv_tb.cpp, rv32_dpi_c_test.cpp).*)
(* Traps, CSRs, MRET and WFI are in Rv32Core, the address map in           *)
(* Rv32Memory: here a load returns any one word, and a store reaches the   *)
(* registers of the bench.                                                 *)
(*                                                                         *)
(* A word has W bits, 32 in the code; instructions keep their own widths.  *)
(* A 32-bit instruction is the record of the six fields execute_instruction*)
(* cuts it into, a 16-bit one is its number.                               *)
(***************************************************************************)
EXTENDS Integers, Sequences

CONSTANTS
  W,             \* bits of a word
  HostShift(_),  \* what the host makes of a shift by 32 or more
  Inputs,        \* the programs run, each with registers and a word of memory
  Operands,      \* the pairs of operands the MUL/DIV bench is run with
  MMIO_BASE,     \* where the bench has its registers
  NRegs          \* how many

VARIABLES
  hart,          \* registers, pc, running, and the last request to memory
  prog,          \* address -> instruction
  hw_cfg_reg     \* the bench's registers
insnVars == <<hart, prog, hw_cfg_reg>>

WORD == 2^W
Word == 0 .. WORD - 1
Wrap(v) == v % WORD
Signed(v) == IF v >= WORD \div 2 THEN v - WORD ELSE v
Bit(b) == IF b THEN 1 ELSE 0
sign_extend(v, n) == Wrap(IF v >= 2^(n - 1) THEN v - 2^n ELSE v)

Sll(v, n) == IF n >= W THEN 0 ELSE (v % 2^(W - n)) * 2^n
Srl(v, n) == IF n >= W THEN 0 ELSE v \div 2^n
Sra(v, n) == Wrap(Signed(v) \div 2^(IF n >= W THEN W - 1 ELSE n))

\* The bits a and b share, from the lowest on; the others by De Morgan's law.
And(a, b) ==
  LET and[p \in Word \X Word] ==
        IF p[1] = 0 THEN 0
        ELSE (p[1] % 2) * (p[2] % 2) + 2 * and[<<p[1] \div 2, p[2] \div 2>>]
  IN and[<<a, b>>]
Or(a, b) == WORD - 1 - And(WORD - 1 - a, WORD - 1 - b)
Xor(a, b) == Or(a, b) - And(a, b)

\* Mutant: x0 is written like the others.
write_any(h, r, v) == [h EXCEPT !.x[r] = v]
write_reg(h, r, v) == IF r = 0 THEN h ELSE [h EXCEPT !.x[r] = v]
Goto(h, target) == [h EXCEPT !.pc = Wrap(target)]
Stop(h) == [h EXCEPT !.running = FALSE]
Request(h, op, addr, data) ==
  [h EXCEPT !.request = [op |-> op, addr |-> Wrap(addr), data |-> data]]

-----------------------------------------------------------------------------
(* 32-bit instructions                                                     *)

ImmI(i) == sign_extend(i.rs2 + 32 * i.funct7, 12)
ImmS(i) == sign_extend(i.rd + 32 * i.funct7, 12)
ImmB(i) == sign_extend(i.rd - (i.rd % 2) + 32 * (i.funct7 % 64) + 2048 * (i.rd % 2)
                         + 4096 * (i.funct7 \div 64), 13)
ImmJ(i) == sign_extend(2 * (i.rs2 \div 2 + 16 * (i.funct7 % 64)) + 2048 * (i.rs2 % 2)
                         + 4096 * (i.funct3 + 8 * i.rs1) + 2^20 * (i.funct7 \div 64), 21)
ImmU(i) == 4096 * ((i.funct3 + 8 * i.rs1 + 256 * i.rs2 + 8192 * i.funct7) % (WORD \div 4096))

\* C's division, rounded towards zero, and its remainder.
Abs(n) == IF n < 0 THEN -n ELSE n
Quotient(p, q) == IF (p < 0) = (q < 0) THEN Abs(p) \div Abs(q) ELSE -(Abs(p) \div Abs(q))
\* Mutant: the remainder is never negative.
RemainderFloor(p, q) == p % Abs(q)
Remainder(p, q) == p - q * Quotient(p, q)

\* The M extension.  The guard for the least number over -1 spares the host a
\* trap: the quotient wraps to the same word.
MulDiv(f, a, b) ==
  LET p == Signed(a) q == Signed(b) IN
  CASE f = 0 -> Wrap(p * q)
    [] f = 1 -> Wrap((p * q) \div WORD)
    [] f = 2 -> Wrap((p * b) \div WORD)
    [] f = 3 -> (a * b) \div WORD
    [] f \in {4, 5} /\ b = 0 -> WORD - 1
    [] f \in {6, 7} /\ b = 0 -> a
    [] f = 4 /\ b # 0 -> Wrap(Quotient(p, q))
    [] f = 5 /\ b # 0 -> a \div b
    [] f = 6 /\ b # 0 -> Wrap(Remainder(p, q))
    [] f = 7 /\ b # 0 -> a % b

\* The operations OP and OP-IMM share; only five bits of a shift count.
Alu(f, a, b) ==
  CASE f = 0 -> Wrap(a + b)
    [] f = 1 -> Sll(a, b % 32)
    [] f = 2 -> Bit(Signed(a) < Signed(b))
    [] f = 3 -> Bit(a < b)
    [] f = 4 -> Xor(a, b)
    [] f = 5 -> Srl(a, b % 32)
    [] f = 6 -> Or(a, b)
    [] f = 7 -> And(a, b)

\* funct7 = 0x20 subtracts and shifts the sign in; SLL insists on 0.
Op(i, a, b, old) ==
  IF i.funct7 = 1 THEN MulDiv(i.funct3, a, b)
  ELSE IF i.funct7 = 32 /\ i.funct3 = 0 THEN Wrap(a - b)
  ELSE IF i.funct7 = 32 /\ i.funct3 = 5 THEN Sra(a, b % 32)
  ELSE IF i.funct7 # 0 /\ i.funct3 = 1 THEN old
  ELSE Alu(i.funct3, a, b)

OpImm(i, a, old) ==
  IF i.funct3 = 5 /\ i.funct7 = 32 THEN Sra(a, i.rs2)
  ELSE IF i.funct3 \in {1, 5} /\ i.funct7 # 0 THEN old
  ELSE Alu(i.funct3, a, ImmI(i))

Loaded(f, d) ==
  CASE f = 0 -> sign_extend(d % 256, 8)
    [] f = 1 -> sign_extend(d % 65536, 16)
    [] f = 2 -> d
    [] f = 4 -> d % 256
    [] f = 5 -> d % 65536
    [] f \in {3, 6, 7} -> 0

Taken(f, a, b) ==
  \/ f = 0 /\ a = b
  \/ f = 1 /\ a # b
  \/ f = 4 /\ Signed(a) < Signed(b)
  \/ f = 5 /\ Signed(a) >= Signed(b)
  \/ f = 6 /\ a < b
  \/ f = 7 /\ a >= b

LoadNames == <<"LB", "LH", "LW", "none", "LBU", "LHU", "none", "none">>
StoreNames == <<"SB", "SH", "SW">>

\* execute_instruction, of an instruction n bytes long: 4 in the code.
execute_instruction(h, i, n) ==
  LET a == h.x[i.rs1]
      b == h.x[i.rs2]
      next == Goto(h, h.pc + n)
      link == Wrap(h.pc + n)
  IN CASE i.opcode = 51 -> write_reg(next, i.rd, Op(i, a, b, h.x[i.rd]))
       [] i.opcode = 19 -> write_reg(next, i.rd, OpImm(i, a, h.x[i.rd]))
       [] i.opcode = 3 ->
            Request(write_reg(next, i.rd, Loaded(i.funct3, h.data)),
                    LoadNames[i.funct3 + 1], a + ImmI(i), 0)
       [] i.opcode = 35 ->
            IF i.funct3 > 2 THEN next
            ELSE Request(next, StoreNames[i.funct3 + 1], a + ImmS(i),
                         b % (IF i.funct3 = 0 THEN 256 ELSE IF i.funct3 = 1 THEN 65536 ELSE WORD))
       [] i.opcode = 99 -> IF Taken(i.funct3, a, b) THEN Goto(h, h.pc + ImmB(i)) ELSE next
       [] i.opcode = 111 -> Goto(write_reg(h, i.rd, link), h.pc + ImmJ(i))
       [] i.opcode = 103 ->
            LET target == Wrap(a + ImmI(i))
            IN Goto(write_reg(h, i.rd, link), target - (target % 2))
       [] i.opcode = 55 -> write_reg(next, i.rd, ImmU(i))
       [] i.opcode = 23 -> write_reg(next, i.rd, Wrap(h.pc + ImmU(i)))
       [] i.opcode = 115 -> Stop(h)   \* ECALL and EBREAK
       [] OTHER -> next               \* FENCE, and what it does not know

-----------------------------------------------------------------------------
(* 16-bit instructions                                                     *)

Field(c, low, n) == (c \div 2^low) % 2^n
Quadrant(c) == Field(c, 0, 2)
Funct3(c) == Field(c, 13, 3)
Rd(c) == Field(c, 7, 5)
Rs2(c) == Field(c, 2, 5)
RegAt7(c) == 8 + Field(c, 7, 3)
RegAt2(c) == 8 + Field(c, 2, 3)

Shamt(c) == 32 * Field(c, 12, 1) + Field(c, 2, 5)
CImm6(c) == sign_extend(Shamt(c), 6)
CImm4spn(c) == 32 * Field(c, 12, 1) + 16 * Field(c, 11, 1) + 512 * Field(c, 10, 1)
  + 256 * Field(c, 9, 1) + 128 * Field(c, 8, 1) + 64 * Field(c, 7, 1)
  + 4 * Field(c, 6, 1) + 8 * Field(c, 5, 1)
CImm16sp(c) == sign_extend(512 * Field(c, 12, 1) + 256 * Field(c, 6, 1)
  + 128 * Field(c, 5, 1) + 64 * Field(c, 4, 1) + 32 * Field(c, 3, 1) + 16 * Field(c, 2, 1), 10)
CImmJ(c) == sign_extend(2 * Field(c, 3, 3) + 16 * Field(c, 11, 1)
  + 32 * Field(c, 2, 1) + 64 * Field(c, 7, 1) + 128 * Field(c, 6, 1)
  + 256 * Field(c, 9, 2) + 1024 * Field(c, 8, 1) + 2048 * Field(c, 12, 1), 12)
CImmB(c) == sign_extend(2 * Field(c, 3, 2) + 8 * Field(c, 10, 2) + 32 * Field(c, 2, 1)
  + 64 * Field(c, 5, 1) + 256 * Field(c, 12, 1), 9)
CImmLw(c) == 8 * Field(c, 10, 3) + 2 * Field(c, 5, 2)
CImmLwsp(c) == 64 * Field(c, 5, 2) + 32 * Field(c, 12, 1) + 4 * Field(c, 2, 3)
CImmSwsp(c) == 64 * Field(c, 10, 2) + 16 * Field(c, 5, 2)

LoadWord(h, r, addr) == Request(write_reg(h, r, h.data), "LW", addr, 0)
StoreWord(h, r, addr) == Request(h, "SW", addr, h.x[r])

\* A shift of 32 or more is undefined in C.
Amount(c) == IF Shamt(c) >= 32 THEN HostShift(Shamt(c)) ELSE Shamt(c)

Quadrant0(h, c) ==
  LET at == h.x[RegAt7(c)] + CImmLw(c)
  IN CASE Funct3(c) = 0 ->
            IF CImm4spn(c) = 0 THEN Stop(h)
            ELSE write_reg(h, RegAt2(c), Wrap(h.x[2] + CImm4spn(c)))
       [] Funct3(c) = 2 -> LoadWord(h, RegAt2(c), at)
       [] Funct3(c) = 6 -> StoreWord(h, RegAt2(c), at)
       [] OTHER -> Stop(h)

\* The register-register operations of quadrant 1 and its shifts.
Arithmetic(h, c) ==
  LET r == RegAt7(c)
      a == h.x[r]
      b == h.x[RegAt2(c)]
      kind == Field(c, 10, 2)
  IN CASE kind = 0 -> write_reg(h, r, Srl(a, Amount(c)))
       [] kind = 1 -> write_reg(h, r, Sra(a, Amount(c)))
       [] kind = 2 -> write_reg(h, r, And(a, CImm6(c)))
       [] kind = 3 /\ Field(c, 12, 1) = 1 -> Stop(h)
       [] kind = 3 /\ Field(c, 12, 1) = 0 ->
            write_reg(h, r, <<Wrap(a - b), Xor(a, b), Or(a, b), And(a, b)>>[Field(c, 5, 2) + 1])

Quadrant1(h, c) ==
  LET f == Funct3(c)
      zero == h.x[RegAt7(c)] = 0
  IN CASE f = 0 -> write_reg(h, Rd(c), Wrap(h.x[Rd(c)] + CImm6(c)))
       [] f = 1 -> Goto(write_reg(h, 1, Wrap(h.pc + 2)), h.pc + CImmJ(c))
       [] f = 2 -> write_reg(h, Rd(c), CImm6(c))
       [] f = 3 /\ Rd(c) = 2 -> write_reg(h, 2, Wrap(h.x[2] + CImm16sp(c)))
       [] f = 3 /\ Rd(c) = 0 -> h
       [] f = 3 /\ Rd(c) \notin {0, 2} ->
            IF Shamt(c) = 0 THEN Stop(h) ELSE write_reg(h, Rd(c), Sll(CImm6(c), 12))
       [] f = 4 -> Arithmetic(h, c)
       [] f = 5 -> Goto(h, h.pc + CImmJ(c))
       [] f = 6 -> IF zero THEN Goto(h, h.pc + CImmB(c)) ELSE h
       [] f = 7 -> IF zero THEN h ELSE Goto(h, h.pc + CImmB(c))

Quadrant2(h, c) ==
  LET f == Funct3(c)
      r == Rd(c)
      s == Rs2(c)
      adds == Field(c, 12, 1) = 1
      linked == IF adds THEN write_reg(h, 1, Wrap(h.pc + 2)) ELSE h
  IN CASE f = 0 -> write_reg(h, r, Sll(h.x[r], Amount(c)))
       [] f = 2 -> LoadWord(h, r, h.x[2] + CImmLwsp(c))
       [] f = 4 /\ s # 0 -> write_reg(h, r, IF adds THEN Wrap(h.x[r] + h.x[s]) ELSE h.x[s])
       [] f = 4 /\ s = 0 /\ r = 0 -> Stop(h)
       [] f = 4 /\ s = 0 /\ r # 0 -> Goto(linked, linked.x[r])
       [] f = 6 -> StoreWord(h, r, h.x[2] + CImmSwsp(c))
       [] OTHER -> Stop(h)

execute_compressed(h, c) ==
  CASE Quadrant(c) = 0 -> Quadrant0(h, c)
    [] Quadrant(c) = 1 -> Quadrant1(h, c)
    [] Quadrant(c) = 2 -> Quadrant2(h, c)

\* Mutant: after jumps as well, as rv_step did once (debug_rvc_test30.md).
AfterCompressedAlways(h, done) == IF done.running THEN Goto(done, done.pc + 2) ELSE done
\* rv_step moves on by two bytes unless the instruction changed pc.
AfterCompressed(h, done) ==
  IF done.running /\ done.pc = h.pc THEN Goto(done, h.pc + 2) ELSE done

-----------------------------------------------------------------------------
(* The benches: instruction encoders, programs and their execution         *)

Fields(opcode, funct3, rd, rs1, rs2, funct7) ==
  [opcode |-> opcode, funct3 |-> funct3, rd |-> rd, rs1 |-> rs1, rs2 |-> rs2, funct7 |-> funct7]
IType(opcode, funct3, rd, rs1, imm) ==
  Fields(opcode, funct3, rd, rs1, imm % 32, (imm \div 32) % 128)
make_addi(rd, rs1, imm) == IType(19, 0, rd, rs1, imm)
make_lw(rd, rs1, imm) == IType(3, 2, rd, rs1, imm)
make_sw(rs2, rs1, imm) == Fields(35, 2, imm % 32, rs1, rs2, (imm \div 32) % 128)
make_lui(rd, imm20) ==
  Fields(55, imm20 % 8, rd, (imm20 \div 8) % 32, (imm20 \div 256) % 32, (imm20 \div 8192) % 128)
make_ebreak == IType(115, 0, 0, 0, 1)
make_muldiv(f, rd, rs1, rs2) == Fields(51, f, rd, rs1, rs2, 1)

\* lui and addi; a negative low part takes one more from the high part.
load_imm(rd, value) ==
  LET low == value % 4096
      high == value \div 4096
  IN IF low >= 2048 THEN <<make_lui(rd, high + 1), make_addi(rd, rd, low - 4096)>>
     ELSE <<make_lui(rd, high), make_addi(rd, rd, low)>>

\* The MUL/DIV bench's program for one pair of operands: each operation, its
\* result stored in the register of the bench with the number of the operation.
build_firmware(a, b) ==
  load_imm(5, MMIO_BASE) \o load_imm(6, a) \o load_imm(7, b)
    \o [k \in 1 .. 16 |-> IF k % 2 = 1 THEN make_muldiv(k \div 2, 28, 6, 7)
                          ELSE make_sw(28, 5, 4 * (k \div 2 - 1))]
    \o <<make_ebreak>>

Long(i) == [bytes |-> 4, code |-> i]
Short(c) == [bytes |-> 2, code |-> c]
Insn32 == [opcode: 0 .. 127, funct3: 0 .. 7, rd: 0 .. 31, rs1: 0 .. 31, rs2: 0 .. 31,
           funct7: 0 .. 127]
Insn16 == 0 .. 65535
LongInsns == [bytes: {4}, code: Insn32]
ShortInsns == [bytes: {2}, code: Insn16]
IsInsn(i) == IF i.bytes = 4 THEN i \in LongInsns ELSE i \in ShortInsns /\ Quadrant(i.code) # 3

\* A word holds the addresses of the bench's program and of its registers; W
\* below 32 is a bound for TLC.
ASSUME WidthAssumption ==
  /\ W \in 13 .. 32
  /\ NRegs \in Nat /\ NRegs >= 8
  /\ MMIO_BASE \in Nat /\ MMIO_BASE % 4 = 0 /\ MMIO_BASE + 4 * NRegs <= WORD
ASSUME HostAssumption == \A n \in 32 .. 63 : HostShift(n) \in Nat
ASSUME InputsAssumption ==
  /\ \A input \in Inputs :
       /\ input.x \in [0 .. 31 -> Word] /\ input.x[0] = 0
       /\ input.pc \in Word /\ input.data \in Word
       /\ 0 \notin DOMAIN input.prog
       /\ \A a \in DOMAIN input.prog : IsInsn(input.prog[a])
  /\ Operands \subseteq Word \X Word

NoRequest == [op |-> "none", addr |-> 0, data |-> 0]
Layout(insns) == [addr \in {4 * (k - 1) : k \in 1 .. Len(insns)} |-> Long(insns[addr \div 4 + 1])]
BenchInput(a, b) ==
  [x |-> [r \in 0 .. 31 |-> 0], pc |-> 0, data |-> 0, prog |-> Layout(build_firmware(a, b))]
Start(input) == [x |-> input.x, pc |-> input.pc, running |-> TRUE, data |-> input.data,
                 request |-> NoRequest]

\* dpi_mmio_write, for the words stored in the window of the bench.
dpi_mmio_write(r) ==
  hw_cfg_reg' = IF r.op = "SW" /\ r.addr >= MMIO_BASE /\ r.addr < MMIO_BASE + 4 * NRegs
                  THEN [hw_cfg_reg EXCEPT ![(r.addr - MMIO_BASE) \div 4] = r.data]
                  ELSE hw_cfg_reg

\* One turn of the loop of rv_step; the programs are all there is in RAM.
Quiet == [hart EXCEPT !.request = NoRequest]
Running(bytes) == hart.running /\ hart.pc \in DOMAIN prog /\ prog[hart.pc].bytes = bytes
StepLong == /\ Running(4)
            /\ hart' = execute_instruction(Quiet, prog[hart.pc].code, 4)
StepShort == /\ Running(2)
             /\ hart' = AfterCompressed(hart, execute_compressed(Quiet, prog[hart.pc].code))
InsnNext == /\ StepLong \/ StepShort
            /\ dpi_mmio_write(hart'.request)
            /\ UNCHANGED prog

Started == Inputs \union {BenchInput(o[1], o[2]) : o \in Operands}
InsnInit == /\ \E input \in Started : hart = Start(input) /\ prog = input.prog
            /\ hw_cfg_reg = [k \in 0 .. NRegs - 1 |-> 0]
InsnSpec == InsnInit /\ [][InsnNext]_insnVars
=============================================================================
