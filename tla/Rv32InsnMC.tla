----------------------------- MODULE Rv32InsnMC -----------------------------
(***************************************************************************)
(* Instances of Rv32Insn: every 16-bit instruction, on two sets of         *)
(* registers, and the MUL/DIV program for pairs of operands at the edges.  *)
(***************************************************************************)
EXTENDS RvcTable, TLC

\* x86 takes the amount of a shift modulo 32.
X86Shift(n) == n % 32

Edge == {0, 1, 2, 3, 7, 2047, 2048, 4095, 4096, 6000, 16383, 16384, 16385, 30000, 32766, 32767}
EdgePairs == Edge \X Edge

\* Even registers, some 0; and odd or large ones.
Even == [r \in 0 .. 31 |-> IF r % 5 = 0 THEN 0 ELSE (r * 1234 + 560) % 32768]
Odd == [r \in 0 .. 31 |-> IF r = 0 THEN 0 ELSE (32767 - r * 771) % 32768]
Origin == 12000
ShortInputs(codes) ==
  {[x |-> x, pc |-> Origin, data |-> 21845, prog |-> (Origin :> Short(c))] :
     x \in {Even, Odd}, c \in {k \in codes : k % 4 # 3}}
AllInputs == ShortInputs(0 .. 65535)

NoPairs == {}

\* A compiler's frame: addi sp,sp,-64; sw ra,60(sp); lw ra,60(sp);
\* addi sp,sp,64; ret.
Frame == <<28985, 56838, 20722, 24865, 32898>>
FrameInputs ==
  {[x |-> Even, pc |-> Origin, data |-> 21844,
    prog |-> [a \in {Origin + 2 * k : k \in 0 .. 4} |-> Short(Frame[(a - Origin) \div 2 + 1])]]}
=============================================================================
