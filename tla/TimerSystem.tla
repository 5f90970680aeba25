---------------------------- MODULE TimerSystem -----------------------------
(***************************************************************************)
(* The machine-timer test bench: the simulator of Rv32Core running         *)
(* firmware_timer.S, the timer of tb_top_zephyr.sv, and the main loop of   *)
(* either harness that drives them, rv32_dpi_zephyr_tb.cpp (a boot call of *)
(* rv_step, then up to five calls per clock cycle, with the batch size of  *)
(* the -n option) or rv32_dpi_zephyr_boot_tb.cpp (one call per cycle).     *)
(*                                                                         *)
(* Everything runs on one thread.  The clock stands still while rv_step    *)
(* runs, so a call sees the interrupt line as the last clock edge sampled  *)
(* it, and the firmware's register writes reach the timer only at the      *)
(* next edge.  The model's inputs settle before its clocked blocks run, as *)
(* Verilator 5 evaluates them.                                             *)
(***************************************************************************)
EXTENDS Rv32Core

CONSTANTS
  Benches,     (* main loops, with a value of step_batch, to consider *)
  Period,      (* 50000 in the firmware                             *)
  WordMod,     (* values of one half of mtime and mtimecmp (2^32)   *)
  ClockTicks   (* clock_ticks or max_ticks, the harness's own bound *)

MTI == 7                      \* irq_mask bit of the machine timer

VARIABLES
  mtime, mtimecmp_lo, mtimecmp_hi, mem_write,   (* tb_top_zephyr *)
  t2,                                           (* the register the handler works in *)
  bench, step_batch,                            (* which harness, and its -n   *)
  phase, s, timer_fired, second_fire,           (* its main loop               *)
  fired_at                                      (* history: mtime at the last trap *)

timer == <<mtime, mtimecmp_lo, mtimecmp_hi>>
board == <<timer, mem_write, t2>>
checks == <<timer_fired, second_fire>>
options == <<bench, step_batch>>
harness == <<options, phase, s, checks>>
sysvars == <<vars, board, harness, fired_at>>

-----------------------------------------------------------------------------
(* firmware_timer.S, one slot per instruction; the gap before the handler  *)
(* is closed.                                                              *)

Plain == [op |-> "plain", csr |-> "readonly", f3 |-> "write", val |-> {}, to |-> 0]
Do(op) == [Plain EXCEPT !.op = op]
Jump(to) == [Plain EXCEPT !.op = "jump", !.to = to]
Csr(csr, f3, val, to) == [op |-> "csr", csr |-> csr, f3 |-> f3, val |-> val, to |-> to]

StoreCmpLo == 3
StoreCmpHi == 4
MainLoop == 11
Handler == 13
LoadGpio == Handler
StoreGpio == Handler + 2
LoadTime == Handler + 3
StoreNext == Handler + 7
HandlerEnd == Handler + 8

Instructions(enable) ==
  << Plain, Plain, Plain, Do("mmio"), Do("mmio"),
     Plain, Csr("mie", "write", enable, 0),
     Plain, Csr("mtvec", "write", {}, Handler),
     Plain, Csr("mstatus", "set", {MIE}, 0),
     Do("wfi"), Jump(MainLoop),
     Do("mmio"), Plain, Do("mmio"), Do("mmio"), Plain, Plain, Plain, Do("mmio"),
     Do("mret") >>

TimerFirmware == [slot \in Ram |-> Instructions({MTI})[slot + 1]]

ASSUME TimerAssumption ==
  /\ Benches \subseteq {"zephyr_tb", "boot_tb"} \X (1 .. MaxBatch)
  /\ Period \in Nat /\ Period >= 2
  /\ RamSlots = HandlerEnd + 1 /\ Bits = {MIE, MTI} /\ Lines = {MTI}
  /\ Firmware = {TimerFirmware}

\* "Assume no MTIME_HI overflow for short test" (firmware_timer.S).
ASSUME NoOverflowAssumption ==
  ClockTicks \in Nat /\ WordMod \in Nat /\ ClockTicks + Period < WordMod

-----------------------------------------------------------------------------
SysInit ==
  /\ Init
  /\ mtime = 0 /\ mtimecmp_lo = WordMod - 1 /\ mtimecmp_hi = WordMod - 1
  /\ mem_write = 0 /\ t2 = 0
  /\ \E b \in Benches : bench = b[1] /\ step_batch = b[2]
  /\ phase = "load" /\ s = 0
  /\ timer_fired = FALSE /\ second_fire = FALSE
  /\ fired_at = 0

\* rv_init or rv_init_elf, then rv_reset(0).
LoadFirmware ==
  /\ phase = "load" /\ phase' = "reset"
  /\ (RvInit \/ RvInitElf) /\ initialized' /\ pc' = 0
  /\ UNCHANGED <<board, options, s, checks, fired_at>>

ResetHart ==
  /\ phase = "reset" /\ phase' = "hold"
  /\ RvReset(0)
  /\ UNCHANGED <<board, options, s, checks, fired_at>>

\* Clock edges with rstn low; then rv32_dpi_zephyr_tb.cpp boots the firmware.
HoldReset ==
  /\ phase = "hold"
  /\ phase' = IF bench = "zephyr_tb" THEN "boot" ELSE "tick"
  /\ RvSetIrq({})
  /\ UNCHANGED <<board, options, s, checks, fired_at>>

mtimecmp == mtimecmp_hi * WordMod + mtimecmp_lo

\* Mutants of IrqMask: the comparison is strict; the bit is one off; the line
\* stays up once it rose.
IrqMaskLate == IF mtime > mtimecmp THEN {MTI} ELSE {}
IrqMaskShifted == IF mtime >= mtimecmp THEN {MTI - 1} ELSE {}
IrqMaskSticky == IF mtime >= mtimecmp THEN {MTI} ELSE irq_mask

IrqMask == IF mtime >= mtimecmp THEN {MTI} ELSE {}

\* One clock cycle: the line carries the comparison from before the edge.
Posedge ==
  /\ phase = "tick" /\ mtime < ClockTicks
  /\ phase' = "step" /\ s' = 0
  /\ mtime' = mtime + 1
  /\ RvSetIrq(IrqMask)
  /\ UNCHANGED <<mtimecmp_lo, mtimecmp_hi, mem_write, t2, options, checks, fired_at>>

\* Mutant of StepsPerTick: the loop makes fewer calls.
StepsPerTickFour == 4

StepsPerTick == IF bench = "zephyr_tb" THEN 5 ELSE 1

\* What the main loop does when a call has returned: the cycle's calls end with
\* the first that returns 0.
AfterCall ==
  /\ IF phase = "boot" THEN phase' = "tick" /\ s' = s
     ELSE IF returned' = returned \/ s + 1 = StepsPerTick THEN phase' = "check" /\ s' = 0
     ELSE phase' = phase /\ s' = s + 1
  /\ UNCHANGED <<options, checks>>

Harnessed == IF busy' THEN UNCHANGED harness ELSE AfterCall

CallStep ==
  /\ phase \in {"boot", "step"}
  /\ StepRefused \/ StepTrap \/ StepStart(step_batch)
  /\ Harnessed
  /\ fired_at' = IF traps' # traps THEN mtime ELSE fired_at
  /\ UNCHANGED board

Execute ==
  /\ ExecPlain \/ ExecMret \/ ExecWfi \/ ExecCsr \/ StepEnd
  /\ Harnessed
  /\ UNCHANGED <<board, fired_at>>

\* What the handler stores: the low half only.
NextDeadline == (t2 + Period) % WordMod

\* dpi_mmio_read and dpi_mmio_write of the harness, at the firmware's accesses.
\* GPIO_OUT reads as the port mem_read, which the harness holds at 0.
Access ==
  \/ /\ pc = StoreCmpLo /\ mtimecmp_lo' = Period
     /\ UNCHANGED <<mtimecmp_hi, mem_write, t2>>
  \/ /\ pc = StoreCmpHi /\ mtimecmp_hi' = 0
     /\ UNCHANGED <<mtimecmp_lo, mem_write, t2>>
  \/ /\ pc = LoadGpio /\ t2' = 0
     /\ UNCHANGED <<mtimecmp_lo, mtimecmp_hi, mem_write>>
  \/ /\ pc = StoreGpio /\ mem_write' = 1 - t2
     /\ UNCHANGED <<mtimecmp_lo, mtimecmp_hi, t2>>
  \/ /\ pc = LoadTime /\ t2' = mtime % WordMod
     /\ UNCHANGED <<mtimecmp_lo, mtimecmp_hi, mem_write>>
  \/ /\ pc = StoreNext /\ mtimecmp_lo' = NextDeadline
     /\ UNCHANGED <<mtimecmp_hi, mem_write, t2>>

BusAccess ==
  /\ ExecMmio /\ irq_mask' = irq_mask
  /\ Access
  /\ UNCHANGED <<mtime, harness, fired_at>>

\* The end of the loop body: rv32_dpi_zephyr_tb.cpp looks for the LED's two
\* changes, rv32_dpi_zephyr_boot_tb.cpp for an exit through HTIF.
Check ==
  /\ phase = "check"
  /\ timer_fired' = (timer_fired \/ mem_write = 1)
  /\ second_fire' = (second_fire \/ (timer_fired' /\ mem_write = 0))
  /\ LET stop == IF bench = "zephyr_tb" THEN second_fire' ELSE htif_halted
     IN  phase' = IF stop THEN "done" ELSE "tick"
  /\ UNCHANGED <<vars, board, options, s, fired_at>>

SysNext ==
  \/ LoadFirmware \/ ResetHart \/ HoldReset
  \/ Posedge \/ CallStep \/ Execute \/ BusAccess \/ Check

SysSpec == SysInit /\ [][SysNext]_sysvars

-----------------------------------------------------------------------------
(* Properties.                                                             *)

SysTypeOK ==
  /\ TypeOK
  /\ mtime \in 0 .. ClockTicks /\ fired_at \in 0 .. mtime
  /\ mtimecmp_lo \in 0 .. WordMod - 1 /\ mtimecmp_hi \in {0, WordMod - 1}
  /\ mem_write \in {0, 1} /\ t2 \in 0 .. ClockTicks
  /\ phase \in {"load", "reset", "hold", "boot", "tick", "step", "check", "done"}
  /\ s \in 0 .. StepsPerTick - 1 /\ options \in Benches
  /\ timer_fired \in BOOLEAN /\ second_fire \in BOOLEAN

Deadline == IF mtimecmp_hi # 0 THEN -1 ELSE mtimecmp
Rearmed == ~(handler.active /\ pc <= StoreNext)

Abstract == INSTANCE PeriodicTick
  WITH now <- mtime, due <- Deadline, armed <- Rearmed, served <- fired_at,
       Last <- ClockTicks

\* The timer, the firmware and the main loop together keep the promise of
\* PeriodicTick: no interrupt is taken on a line sampled before the deadline was
\* moved (tb_top_zephyr.sv, firmware_timer.S).  With a batch of one instruction
\* this rests on the trap and the handler's nine instructions filling exactly
\* two cycles of five calls.
KeepsPeriod == Abstract!Spec

\* Batches of three instructions are enough for five calls to hold a trap, the
\* handler and the way back to WFI; one call has to hold the handler up to its
\* store of the next deadline.
Roomy == step_batch >= (IF bench = "zephyr_tb" THEN 3 ELSE 8)

\* When the clock is about to advance, a programmed deadline is at most one cycle
\* past; with one rv_step per cycle the trap takes one cycle and the handler
\* the next, with five they share one (both main loops).
OnTime ==
  phase = "tick" /\ Deadline # -1 /\ Roomy
    => mtime <= Deadline + (IF bench = "zephyr_tb" THEN 0 ELSE 1)

\* rv32_dpi_zephyr_tb.cpp: "We call rv_step repeatedly until it sleeps".  Its five
\* calls are enough.
SleepsBeforeEdge == phase = "check" /\ bench = "zephyr_tb" /\ Roomy => wfi_sleep

=============================================================================
