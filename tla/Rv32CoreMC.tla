----------------------------- MODULE Rv32CoreMC -----------------------------
(***************************************************************************)
(* A small instance of Rv32Core: two interrupt lines (0, external, and 1,  *)
(* standing for the timer's line 7), seven slots of which six are memory,  *)
(* and images shaped like the repository's firmware.                       *)
(***************************************************************************)
EXTENDS Rv32Core

Op(op, to) == [op |-> op, csr |-> "readonly", f3 |-> "write", val |-> {}, to |-> to]
Csr(csr, f3, val, to) == [op |-> "csr", csr |-> csr, f3 |-> f3, val |-> val, to |-> to]
Image(insns) == [s \in Ram |-> insns[s + 1]]

\* firmware_irq.S and firmware_timer.S: vector, enable, sleep; vectored entries at
\* base 2, of which the second masks the other line.
IrqImage == Image(<<Csr("mtvec", "write", {0}, 2), Csr("mstatus", "set", {MIE}, 0),
                    Op("wfi", 0), Csr("mie", "write", {1}, 0), Op("mret", 0),
                    Op("stop", 0)>>)

\* A handler, entered at 0, that enables interrupts again; a critical section, a loop
\* and an exit through HTIF.
NestedImage == Image(<<Csr("mstatus", "clear", {MIE}, 0), Op("mmio", 0),
                       Csr("mstatus", "set", {MIE}, 0), Op("branch", 0), Op("mret", 0),
                       Op("exit", 0)>>)

SomeImages == {IrqImage, NestedImage}
SomeBits == {0, 1, MIE}
SomeLines == {0, 1}
=============================================================================
