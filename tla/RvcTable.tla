------------------------------ MODULE RvcTable ------------------------------
(***************************************************************************)
(* What the instructions of Rv32Insn are worth: the 16-bit ones are        *)
(* compared with the 32-bit ones the RISC-V manual's RVC chapter says they *)
(* stand for, and the results of the arithmetic with one another.          *)
(***************************************************************************)
EXTENDS Rv32Insn

\* The immediate of c: its bits at the positions at, from high to low, have the
\* weights 2^bits, as the manual's tables list them.
Imm(c, at, bits) ==
  LET sum[k \in 0 .. Len(at)] == IF k = 0 THEN 0 ELSE sum[k - 1] + Field(c, at[k], 1) * 2^bits[k]
  IN sum[Len(at)]
Minus(v, n) == IF v >= 2^(n - 1) THEN v - 2^n ELSE v

\* The manual's immediate formats.
CI == <<12, 6, 5, 4, 3, 2>>
CJ == <<12, 11, 10, 9, 8, 7, 6, 5, 4, 3, 2>>
CB == <<12, 11, 10, 6, 5, 4, 3, 2>>
CL == <<12, 11, 10, 6, 5>>
CSS == <<12, 11, 10, 9, 8, 7>>
CIW == <<12, 11, 10, 9, 8, 7, 6, 5>>
ImmCI(c) == Minus(Imm(c, CI, <<5, 4, 3, 2, 1, 0>>), 6)
OffsetCJ(c) == Minus(Imm(c, CJ, <<11, 4, 9, 8, 10, 6, 7, 3, 2, 1, 5>>), 12)
OffsetCB(c) == Minus(Imm(c, CB, <<8, 4, 3, 7, 6, 2, 1, 5>>), 9)
OffsetCL(c) == Imm(c, CL, <<5, 4, 3, 2, 6>>)

JType(rd, offset) ==
  LET o == offset % 2^21
  IN Fields(111, (o \div 4096) % 8, rd, (o \div 2^15) % 32,
            (o % 32) - (o % 2) + ((o \div 2048) % 2), ((o \div 32) % 64) + 64 * (o \div 2^20))
BType(funct3, rs1, rs2, offset) ==
  LET o == offset % 2^13
  IN Fields(99, funct3, (o % 32) - (o % 2) + ((o \div 2048) % 2), rs1, rs2,
            ((o \div 32) % 64) + 64 * (o \div 4096))
RType(funct3, rd, rs1, rs2, funct7) == Fields(51, funct3, rd, rs1, rs2, funct7)
Jalr(rd, rs1) == IType(103, 0, rd, rs1, 0)
Nop == make_addi(0, 0, 0)

\* The instruction c stands for; EBREAK, which stops too, for an illegal one.
Expansion(c) ==
  LET f == Funct3(c)
      r == Rd(c)
      s == Rs2(c)
      r7 == RegAt7(c)
      r2 == RegAt2(c)
      nz == Imm(c, CIW, <<5, 4, 9, 8, 7, 6, 2, 3>>)
      sp16 == Minus(Imm(c, CI, <<9, 4, 6, 8, 7, 5>>), 10)
      lwsp == Imm(c, CI, <<5, 4, 3, 2, 7, 6>>)
      swsp == Imm(c, CSS, <<5, 4, 3, 2, 7, 6>>)
      kind == Field(c, 10, 2)
  IN CASE Quadrant(c) = 0 /\ f = 0 /\ nz # 0 -> make_addi(r2, 2, nz)
       [] Quadrant(c) = 0 /\ f = 2 -> make_lw(r2, r7, OffsetCL(c))
       [] Quadrant(c) = 0 /\ f = 6 -> make_sw(r2, r7, OffsetCL(c))
       [] Quadrant(c) = 1 /\ f = 0 -> make_addi(r, r, ImmCI(c))
       [] Quadrant(c) = 1 /\ f = 1 -> JType(1, OffsetCJ(c))
       [] Quadrant(c) = 1 /\ f = 2 -> make_addi(r, 0, ImmCI(c))
       [] Quadrant(c) = 1 /\ f = 3 /\ r = 2 /\ sp16 # 0 -> make_addi(2, 2, sp16)
       [] Quadrant(c) = 1 /\ f = 3 /\ r # 2 /\ ImmCI(c) # 0 -> make_lui(r, ImmCI(c) % 2^20)
       [] Quadrant(c) = 1 /\ f = 4 /\ kind = 0 /\ Shamt(c) < 32 -> IType(19, 5, r7, r7, s)
       [] Quadrant(c) = 1 /\ f = 4 /\ kind = 1 /\ Shamt(c) < 32 -> IType(19, 5, r7, r7, 1024 + s)
       [] Quadrant(c) = 1 /\ f = 4 /\ kind = 2 -> IType(19, 7, r7, r7, ImmCI(c))
       [] Quadrant(c) = 1 /\ f = 4 /\ kind = 3 /\ Field(c, 12, 1) = 0 ->
            <<RType(0, r7, r7, r2, 32), RType(4, r7, r7, r2, 0),
              RType(6, r7, r7, r2, 0), RType(7, r7, r7, r2, 0)>>[Field(c, 5, 2) + 1]
       [] Quadrant(c) = 1 /\ f = 5 -> JType(0, OffsetCJ(c))
       [] Quadrant(c) = 1 /\ f \in {6, 7} -> BType(f - 6, r7, 0, OffsetCB(c))
       [] Quadrant(c) = 2 /\ f = 0 /\ Shamt(c) < 32 -> IType(19, 1, r, r, s)
       [] Quadrant(c) = 2 /\ f = 2 /\ r # 0 -> make_lw(r, 2, lwsp)
       [] Quadrant(c) = 2 /\ f = 4 /\ Field(c, 12, 1) = 0 /\ s # 0 -> RType(0, r, 0, s, 0)
       [] Quadrant(c) = 2 /\ f = 4 /\ Field(c, 12, 1) = 1 /\ s # 0 -> RType(0, r, r, s, 0)
       [] Quadrant(c) = 2 /\ f = 4 /\ s = 0 /\ r # 0 -> Jalr(Field(c, 12, 1), r)
       [] Quadrant(c) = 2 /\ f = 6 -> make_sw(s, 2, swsp)
       [] OTHER -> make_ebreak

-----------------------------------------------------------------------------
(* Properties                                                              *)

\* Types: x0 is 0 whatever is written to it.
InsnTypeOK ==
  /\ hart.x \in [0 .. 31 -> Word] /\ hart.x[0] = 0
  /\ hart.pc \in Word /\ hart.running \in BOOLEAN
  /\ hart.request.addr \in Word /\ hart.request.data \in Word
  /\ hw_cfg_reg \in [0 .. NRegs - 1 -> Word]

\* Where rv32_dpi.c does something else than the manual.  It takes bits of an
\* immediate from elsewhere: bit 6 of C.LW and C.SW, all but bit 5 of C.LWSP, all
\* but the sign of C.ADDI16SP, bit 7 of branches, offset and register of C.SWSP.
Misread(c) ==
  \/ Quadrant(c) = 0 /\ Funct3(c) \in {2, 6} /\ Field(c, 5, 1) = 1
  \/ Quadrant(c) = 2 /\ Funct3(c) = 2 /\ Rs2(c) # 0
  \/ Quadrant(c) = 1 /\ Funct3(c) = 3 /\ Rd(c) = 2 /\ Rs2(c) # 0
  \/ Quadrant(c) = 1 /\ Funct3(c) \in {6, 7} /\ Field(c, 6, 1) = 1
  \/ Quadrant(c) = 2 /\ Funct3(c) = 6

\* It carries out encodings that are reserved: shifts by 32 or more, immediates
\* of 0 and the destination x0.
Unreserved(c) ==
  \/ Quadrant(c) = 2 /\ Funct3(c) = 0 /\ Shamt(c) >= 32
  \/ Quadrant(c) = 1 /\ Funct3(c) = 4 /\ Field(c, 10, 2) \in {0, 1} /\ Shamt(c) >= 32
  \/ Quadrant(c) = 1 /\ Funct3(c) = 3 /\ Rd(c) \in {0, 2} /\ Shamt(c) = 0
  \/ Quadrant(c) = 2 /\ Funct3(c) = 2 /\ Rd(c) = 0

\* C.JALR through ra jumps to its own link, C.JR and C.JALR keep bit 0 of the
\* target, and a jump to itself is taken for an instruction that does not jump.
Misjumps(h, c) ==
  LET indirect == Quadrant(c) = 2 /\ Funct3(c) = 4 /\ Rs2(c) = 0 /\ Rd(c) # 0
      due == execute_instruction(h, Expansion(c), 2)
  IN \/ indirect /\ Field(c, 12, 1) = 1 /\ Rd(c) = 1
     \/ indirect /\ h.x[Rd(c)] % 2 = 1
     \/ due.running /\ due.pc = h.pc

Departs(h, c) == Misread(c) \/ Unreserved(c) \/ Misjumps(h, c)

\* rv32_dpi.c, above execute_compressed: "Expands 16-bit compressed instructions
\* into their equivalent RV32I operations".  Registers, pc, link, request to
\* memory and the decision to stop are those of execute_instruction on the
\* expansion the RISC-V manual gives, two bytes long.
Expands(h) == hart' = execute_instruction(h, Expansion(prog[h.pc].code), 2)
CompressedExpands ==
  [][StepShort /\ ~Departs(Quiet, prog[hart.pc].code) => Expands(Quiet)]_insnVars

\* The same without the exceptions, which a run refutes.
CompressedIsRvc == [][StepShort => Expands(Quiet)]_insnVars

\* rv32_dpi_muldiv_tb.cpp, for any operands in place of its own: load_imm loads
\* them, the upper products complete the lower one, quotient and remainder give
\* the dividend back with the remainder less than the divisor and on the side
\* of the dividend, and dividing by 0 gives all ones and the dividend.
MulDivLaws ==
  LET a == hart.x[6]
      b == hart.x[7]
      r == hw_cfg_reg
  IN ~hart.running /\ 0 \in DOMAIN prog =>
       /\ prog = Layout(build_firmware(a, b))
       /\ Signed(r[1]) * WORD + r[0] = Signed(a) * Signed(b)
       /\ Signed(r[2]) * WORD + r[0] = Signed(a) * b
       /\ r[3] * WORD + r[0] = a * b
       /\ b # 0 => /\ a = r[5] * b + r[7] /\ r[7] < b
                   /\ a = Wrap(Signed(r[4]) * Signed(b) + Signed(r[6]))
                   /\ Abs(Signed(r[6])) < Abs(Signed(b))
                   /\ r[6] = 0 \/ (Signed(r[6]) < 0) = (Signed(a) < 0)
       /\ b = 0 => r[4] = WORD - 1 /\ r[5] = WORD - 1 /\ r[6] = a /\ r[7] = a
=============================================================================
