------------------------------ MODULE Rv32Core ------------------------------
(***************************************************************************)
(* The control of the instruction-set simulator in                         *)
(* src/dpi-riscv/sim/iss/rv32_dpi.c: the functions a test harness calls    *)
(* (rv_init, rv_init_elf, rv_load_elf, rv_set_ram, rv_reset, rv_set_irq,   *)
(* rv_step), the batch loop of rv_step, trap entry, MRET, WFI, the machine *)
(* CSRs that steer them and the HTIF halt flag.                            *)
(*                                                                         *)
(* A firmware image is a function from instruction slots to instructions   *)
(* of the kinds the control tells apart; what an ordinary instruction      *)
(* computes is abstracted away, and a slot stands for four bytes.  The     *)
(* image is not modified by the program it holds.  The simulator is        *)
(* single-threaded, but an MMIO load or store calls back into the test     *)
(* bench, whose clocked process calls rv_set_irq while rv_step is still    *)
(* on the stack: that is the one interleaving inside a batch.              *)
(***************************************************************************)
EXTENDS Integers

CONSTANTS
  Bits,       (* bit numbers of irq_mask, mie and mstatus that are told apart *)
  Lines,      (* bits of irq_mask the test bench drives                       *)
  SlotMod,    (* instruction slots of the address space (2^30 in the code)    *)
  RamSlots,   (* slots backed by memory[], from memory_base on                *)
  CycleMod,   (* values of mcycle (2^64 in the code)                          *)
  MaxBatch,   (* largest max_instructions a caller passes                     *)
  Firmware,   (* the images a caller may load                                 *)
  NoRam       (* memory == NULL                                               *)

MIE == 3                     \* mstatus bit 3, the global interrupt enable
Addr == 0 .. SlotMod - 1
Ram == 0 .. RamSlots - 1
Mtvec == [base: Addr, vectored: BOOLEAN]

\* "val" is the bit operand of a CSR write, "to" its number or a jump target.
Insn == [op:  {"plain", "jump", "cjump", "branch", "mmio", "exit", "stop",
               "mret", "wfi", "csr"},
         csr: {"mstatus", "mie", "mtvec", "mepc", "mcause", "readonly"},
         f3:  {"write", "set", "clear"},
         val: SUBSET Bits,
         to:  Addr]

ASSUME BitsAssumption == Bits \subseteq 0 .. 31 /\ MIE \in Bits
ASSUME LinesAssumption == Lines \subseteq Bits
ASSUME SlotAssumption == SlotMod \in Nat /\ Lines \subseteq 0 .. SlotMod - 1
ASSUME RamAssumption == RamSlots \in 1 .. SlotMod
ASSUME BatchAssumption == MaxBatch \in Nat \ {0} /\ CycleMod \in Nat /\ MaxBatch < CycleMod
ASSUME FirmwareAssumption == Firmware \subseteq [Ram -> Insn] /\ NoRam \notin Firmware

VARIABLES
  initialized, ram,          (* the simulator has memory, and what it holds   *)
  pc, irq_mask, wfi_sleep,
  mstatus, mie, mtvec, mepc, mcause, mcycle,
  htif_halted,
  busy, left, executed,      (* the rv_step call in progress                  *)
  returned, traps,           (* history: sum of rv_step's results, traps taken*)
  handler,                   (* history: the handler running, and what it cut *)
  stalled                    (* history: rv_step, asked for an instruction,
                                returned 0, and nothing since                 *)

csrs == <<mstatus, mie, mtvec, mepc, mcause>>
call == <<busy, left, executed>>
history == <<returned, traps, handler, stalled>>
vars == <<initialized, ram, pc, irq_mask, wfi_sleep, csrs, mcycle, htif_halted,
          call, history>>

NoHandler == [active |-> FALSE, at |-> 0]

TypeOK ==
  /\ initialized \in BOOLEAN
  /\ ram \in Firmware \union {NoRam}
  /\ pc \in Addr /\ mepc \in Addr /\ mcause \in Nat /\ mtvec \in Mtvec
  /\ irq_mask \in SUBSET Lines
  /\ mie \in SUBSET Bits /\ mstatus \in SUBSET Bits
  /\ wfi_sleep \in BOOLEAN /\ htif_halted \in BOOLEAN
  /\ mcycle \in 0 .. CycleMod - 1
  /\ returned \in 0 .. CycleMod - 1 /\ traps \in 0 .. CycleMod - 1
  /\ busy \in BOOLEAN /\ left \in 0 .. MaxBatch /\ executed \in 0 .. MaxBatch
  /\ handler \in [active: BOOLEAN, at: Addr]
  /\ stalled \in BOOLEAN

\* The values the C file gives its static variables.
Init ==
  /\ initialized = FALSE /\ ram = NoRam
  /\ pc = 0 /\ irq_mask = {} /\ wfi_sleep = FALSE
  /\ mstatus = {} /\ mie = Bits
  /\ mtvec = [base |-> 0, vectored |-> FALSE] /\ mepc = 0 /\ mcause = 0
  /\ mcycle = 0 /\ htif_halted = FALSE
  /\ busy = FALSE /\ left = 0 /\ executed = 0
  /\ returned = 0 /\ traps = 0 /\ handler = NoHandler /\ stalled = FALSE

-----------------------------------------------------------------------------
\* Unsigned addition of two values below m, with the wrap of the C type.
Plus(a, b, m) == IF a + b >= m THEN a + b - m ELSE a + b

NextSlot(a) == Plus(a, 1, SlotMod)

\* valid_memory_access: the fetch lies inside memory[].  A fetch at 0xfffffffc, which
\* its wrapped sum lets through to read outside memory[] (Rv32Memory's "crashed"), is
\* taken to end the batch here.
Fetchable(a) == a \in Ram

Enabled == irq_mask \intersect mie
TakesIrq == MIE \in mstatus /\ Enabled # {}

\* ctz32: the lowest pending bit is serviced first.
Lowest(mask) == CHOOSE c \in mask : \A d \in mask : c <= d

TrapTarget(cause) ==
  IF mtvec.vectored THEN Plus(mtvec.base, cause, SlotMod) ELSE mtvec.base

CsrBits(old, f3, val) ==
  CASE f3 = "write" -> val
    [] f3 = "set"   -> old \union val
    [] f3 = "clear" -> old \ val

-----------------------------------------------------------------------------
(* The calls a harness makes between two rv_step calls.                    *)

\* What all the init functions do once they have memory.
FreshHart(image) ==
  /\ initialized' = TRUE /\ ram' = image
  /\ irq_mask' = {} /\ wfi_sleep' = FALSE /\ mie' = Bits
  /\ handler' = NoHandler /\ stalled' = FALSE
  /\ UNCHANGED <<mstatus, mtvec, mepc, mcause, mcycle, call, returned, traps>>

\* malloc returned NULL: the old memory is gone.
LosesRam ==
  /\ initialized' = FALSE /\ ram' = NoRam /\ stalled' = FALSE
  /\ UNCHANGED <<pc, irq_mask, wfi_sleep, csrs, mcycle, call, returned, traps,
                 handler>>

\* rv_init and rv_init_from_buffer.
RvInit ==
  /\ ~busy
  /\ \/ \E image \in Firmware :
          FreshHart(image) /\ pc' = 0 /\ UNCHANGED htif_halted
     \/ LosesRam /\ UNCHANGED htif_halted

\* rv_init_elf clears the HTIF state once the header is accepted, also when
\* the file then turns out to have no segment or memory cannot be had.
RvInitElf ==
  /\ ~busy
  /\ htif_halted' = FALSE
  /\ \/ \E image \in Firmware, entry \in Addr : FreshHart(image) /\ pc' = entry
     \/ LosesRam
     \/ /\ stalled' = FALSE
        /\ UNCHANGED <<initialized, ram, pc, irq_mask, wfi_sleep, csrs, mcycle,
                       call, returned, traps, handler>>

\* rv_set_ram of a buffer (no caller passes NULL or size 0): the hart keeps every
\* register, but is no longer asleep.
RvSetRam(image) ==
  /\ ~busy
  /\ initialized' = TRUE /\ ram' = image /\ wfi_sleep' = FALSE /\ stalled' = FALSE
  /\ UNCHANGED <<pc, irq_mask, csrs, mcycle, htif_halted, call, returned, traps,
                 handler>>

\* rv_load_elf: only the memory changes; without memory every segment is
\* "too large" and skipped.
RvLoadElf(image) ==
  /\ ~busy /\ ram # NoRam
  /\ ram' = image /\ stalled' = FALSE
  /\ UNCHANGED <<initialized, pc, irq_mask, wfi_sleep, csrs, mcycle, htif_halted,
                 call, returned, traps, handler>>

\* rv_reset leaves mstatus, mtvec, mepc, mcause and the HTIF state alone.
RvReset(start) ==
  /\ ~busy /\ initialized
  /\ pc' = start /\ irq_mask' = {} /\ wfi_sleep' = FALSE
  /\ mcycle' = 0 /\ mie' = Bits
  /\ returned' = 0 /\ traps' = 0 /\ handler' = NoHandler /\ stalled' = FALSE
  /\ UNCHANGED <<initialized, ram, mstatus, mtvec, mepc, mcause, htif_halted, call>>

RvSetIrq(mask) ==
  /\ ~busy
  /\ irq_mask' = mask /\ stalled' = FALSE
  /\ UNCHANGED <<initialized, ram, pc, wfi_sleep, csrs, mcycle, htif_halted, call,
                 returned, traps, handler>>

-----------------------------------------------------------------------------
(* rv_step: entry, one iteration of its loop, and its return.              *)

\* rv_step returns n to its caller.
Return(n) ==
  /\ busy' = FALSE /\ left' = 0 /\ executed' = 0
  /\ returned' = Plus(returned, n, CycleMod)
  /\ stalled' = (stalled \/ n = 0)

\* rv_step(max) with max <= 0 returns 0 whatever the hart could do: neither the hart
\* nor the sum of the results changes.
StepNone == ~busy /\ UNCHANGED vars

\* rv_step gives up at its entry: no memory, or asleep and nothing to wake it.
StepRefused ==
  /\ ~busy
  /\ ~initialized \/ (wfi_sleep /\ ~TakesIrq)
  /\ Return(0)
  /\ UNCHANGED <<initialized, ram, pc, irq_mask, wfi_sleep, csrs, mcycle,
                 htif_halted, traps, handler>>

\* rv_step takes the interrupt, executes no instruction and returns n.
TakeTrap(status, n) ==
  /\ ~busy /\ initialized /\ TakesIrq
  /\ LET cause == Lowest(Enabled)
     IN  /\ mcause' = cause
         /\ irq_mask' = irq_mask \ {cause}
         /\ pc' = TrapTarget(cause)
  /\ mepc' = pc /\ mstatus' = status /\ wfi_sleep' = FALSE
  /\ Return(n)
  /\ traps' = Plus(traps, 1, CycleMod)
  /\ handler' = [active |-> TRUE, at |-> pc]
  /\ UNCHANGED <<initialized, ram, mie, mtvec, mcycle, htif_halted>>

\* Mutants of StepTrap: the trap leaves MIE set; it is not counted in the
\* result; a sleeping hart does not take it.
StepTrapKeepsMie == TakeTrap(mstatus, 1)
StepTrapUncounted == TakeTrap(mstatus \ {MIE}, 0)
StepTrapAwake == ~wfi_sleep /\ TakeTrap(mstatus \ {MIE}, 1)

\* A trap clears MIE and counts for one instruction.
StepTrap == TakeTrap(mstatus \ {MIE}, 1)

\* Mutant of StepStart: the loop is entered without looking for an interrupt.
StepStartUnchecked(max) ==
  /\ ~busy /\ initialized /\ ~wfi_sleep
  /\ busy' = TRUE /\ left' = max /\ executed' = 0
  /\ UNCHANGED <<initialized, ram, pc, irq_mask, wfi_sleep, csrs, mcycle,
                 htif_halted, history>>

\* rv_step(max) enters its loop.
StepStart(max) ==
  /\ ~busy /\ initialized /\ ~wfi_sleep /\ ~TakesIrq
  /\ busy' = TRUE /\ left' = max /\ executed' = 0
  /\ UNCHANGED <<initialized, ram, pc, irq_mask, wfi_sleep, csrs, mcycle,
                 htif_halted, history>>

Running == busy /\ left > 0 /\ ~htif_halted /\ Fetchable(pc)
Insns(op) == Running /\ ram[pc].op = op

\* The loop ends: batch used up, halted, fetch outside memory, or an
\* instruction that returns false without sleeping (ECALL, EBREAK, illegal).
StepEnd ==
  /\ busy
  /\ \/ left = 0 \/ htif_halted \/ ~Fetchable(pc)
     \/ Insns("stop")
  /\ Return(executed)
  /\ UNCHANGED <<initialized, ram, pc, irq_mask, wfi_sleep, csrs, mcycle,
                 htif_halted, traps, handler>>

\* Mutants of Retire: the loop counter stands still; the instruction is not
\* counted at all.
RetireUnbounded(next) ==
  /\ pc' = next
  /\ executed' = executed + 1
  /\ mcycle' = Plus(mcycle, 1, CycleMod)
  /\ UNCHANGED <<initialized, ram, busy, left, returned, traps, stalled>>

RetireUncounted(next) ==
  /\ pc' = next
  /\ mcycle' = Plus(mcycle, 1, CycleMod)
  /\ UNCHANGED <<initialized, ram, busy, left, executed, returned, traps, stalled>>

\* The instruction returned true: count it and go on at slot next.
Retire(next) ==
  /\ pc' = next
  /\ executed' = executed + 1 /\ left' = left - 1
  /\ mcycle' = Plus(mcycle, 1, CycleMod)
  /\ UNCHANGED <<initialized, ram, busy, returned, traps, stalled>>

\* A compressed jump to itself leaves pc as it was, which the loop takes for
\* "did not jump": it falls through.
ExecPlain ==
  /\ \/ Insns("plain") /\ Retire(NextSlot(pc))
     \/ Insns("jump") /\ Retire(ram[pc].to)
     \/ Insns("cjump") /\ Retire(IF ram[pc].to = pc THEN NextSlot(pc) ELSE ram[pc].to)
     \/ Insns("branch") /\ \E next \in {ram[pc].to, NextSlot(pc)} : Retire(next)
  /\ UNCHANGED <<irq_mask, wfi_sleep, csrs, htif_halted, handler>>

\* dpi_mmio_read/dpi_mmio_write may advance the clock, and the clocked
\* process calls rv_set_irq.
ExecMmio ==
  /\ Insns("mmio") /\ Retire(NextSlot(pc))
  /\ irq_mask' \in SUBSET Lines
  /\ UNCHANGED <<wfi_sleep, csrs, htif_halted, handler>>

\* A store of an odd value to tohost.
ExecExit ==
  /\ Insns("exit") /\ Retire(NextSlot(pc))
  /\ htif_halted' = TRUE
  /\ UNCHANGED <<irq_mask, wfi_sleep, csrs, handler>>

\* MRET sets MIE whatever it was before the trap: there is no MPIE.
ExecMret ==
  /\ Insns("mret") /\ Retire(mepc)
  /\ mstatus' = mstatus \union {MIE}
  /\ handler' = NoHandler
  /\ UNCHANGED <<irq_mask, wfi_sleep, mie, mtvec, mepc, mcause, htif_halted>>

\* WFI is a no-op when MIE is set and any line is up, also one masked in mie.
WfiFallsThrough == MIE \in mstatus /\ irq_mask # {}

\* Mutant of ExecWfi: WFI ends the batch but the hart does not sleep.
ExecWfiYields ==
  /\ Insns("wfi")
  /\ pc' = NextSlot(pc) /\ Return(executed)
  /\ UNCHANGED <<initialized, ram, mcycle, traps, wfi_sleep, irq_mask, csrs,
                 htif_halted, handler>>

ExecWfi ==
  /\ Insns("wfi")
  /\ \/ /\ WfiFallsThrough /\ Retire(NextSlot(pc))
        /\ UNCHANGED <<wfi_sleep>>
     \/ /\ ~WfiFallsThrough
        /\ wfi_sleep' = TRUE /\ Return(executed)
        /\ UNCHANGED <<initialized, ram, pc, mcycle, traps>>
  /\ UNCHANGED <<irq_mask, csrs, htif_halted, handler>>

\* CSRRW, CSRRS and CSRRC; the immediate forms differ only in the operand.
ExecCsr ==
  /\ Insns("csr") /\ Retire(NextSlot(pc))
  /\ LET i == ram[pc]
         Sets(csr, old, new) == IF i.csr = csr THEN new ELSE old
     IN  /\ mstatus' = Sets("mstatus", mstatus, CsrBits(mstatus, i.f3, i.val))
         /\ mie'     = Sets("mie", mie, CsrBits(mie, i.f3, i.val))
         /\ mtvec'   = Sets("mtvec", mtvec, [base |-> i.to, vectored |-> i.val # {}])
         /\ mepc'    = Sets("mepc", mepc, i.to)
         /\ mcause'  = Sets("mcause", mcause, i.to)
         /\ handler' = IF i.csr = "mepc" \/ MIE \in mstatus' THEN NoHandler ELSE handler
  /\ UNCHANGED <<irq_mask, wfi_sleep, htif_halted>>

Exec == ExecPlain \/ ExecMmio \/ ExecExit \/ ExecMret \/ ExecWfi \/ ExecCsr

\* A call of rv_step by the harness.
RvStep == StepNone \/ StepRefused \/ StepTrap \/ \E max \in 1 .. MaxBatch : StepStart(max)

Setup ==
  \/ RvInit
  \/ RvInitElf
  \/ \E image \in Firmware : RvSetRam(image) \/ RvLoadElf(image)
  \/ \E start \in Addr : RvReset(start)

Next ==
  \/ Setup
  \/ \E mask \in SUBSET Lines : RvSetIrq(mask)
  \/ RvStep
  \/ Exec
  \/ StepEnd

Spec == Init /\ [][Next]_vars

\* A call, once made, runs to its return; every harness calls rv_step in a loop.
Fairness == WF_vars(Exec \/ StepEnd) /\ WF_vars(RvStep)
FairSpec == Spec /\ Fairness

-----------------------------------------------------------------------------
(* Properties.                                                             *)

\* What rv_step has returned since the last rv_reset, with the call in
\* progress, is the instructions mcycle counted and one for each trap: an
\* instruction that stops the batch is in neither count, a trap only in one.
ReturnsAccount ==
  Plus(returned, executed, CycleMod) = Plus(mcycle, traps, CycleMod)

\* Until its firmware enables interrupts, writes mepc or executes MRET, a
\* handler is not interrupted however the batches fall and whatever lines rise,
\* and MRET goes back to the very instruction the trap cut off (rv_step, MRET).
HandlerAtomic ==
  [][handler.active => ~StepTrap /\ (ExecMret => pc' = handler.at)]_vars

\* The harnesses take a result of 0 as "asleep or finished" and stop calling
\* (herve_main.c, the Zephyr and benchmark runners): once rv_step returned 0,
\* further calls do nothing, unless the caller sets a line, resets or reloads (a call
\* for no instruction at all also returns 0, and tells nothing of the hart).
StalledStays ==
  [][stalled /\ stalled' => UNCHANGED <<pc, csrs, mcycle, wfi_sleep, traps>>]_vars

\* After an exit through tohost no instruction retires, in the same batch or a
\* later one, until rv_init_elf clears the HTIF state: only a trap may still be
\* taken.
HaltedRetiresNothing ==
  [][htif_halted /\ htif_halted' => executed' <= executed]_vars

\* A line that is up, enabled in mie and in mstatus, is served (or withdrawn,
\* or disabled) after at most the batch in progress, also in a sleeping hart.
PendingDelivered ==
  (initialized /\ TakesIrq) ~> (~initialized \/ ~TakesIrq)

\* Every call of rv_step returns, whatever jumps and branches the image has.
CallReturns == busy ~> ~busy

-----------------------------------------------------------------------------
(* The inductive invariant behind the properties.                          *)

\* A call is in progress only on a hart that has memory and is awake; it has
\* not executed more than it was asked to, and was not entered with an
\* interrupt to take.
CallInv ==
  /\ initialized <=> ram # NoRam
  /\ busy => initialized /\ ~wfi_sleep /\ left + executed \in 1 .. MaxBatch
  /\ ~busy => left = 0 /\ executed = 0
  /\ busy /\ executed = 0 => ~TakesIrq

HandlerInv == handler.active => MIE \notin mstatus /\ mepc = handler.at

\* Why a hart whose last rv_step returned 0 can do no more.
Stuck ==
  \/ ~initialized
  \/ /\ ~TakesIrq
     /\ wfi_sleep \/ htif_halted \/ ~Fetchable(pc) \/ ram[pc].op = "stop"

StallInv == stalled => Stuck

\* Every reachable state satisfies the four parts together (rv_step, MRET, WFI).
CoreInv == CallInv /\ HandlerInv /\ StallInv /\ ReturnsAccount
=============================================================================
