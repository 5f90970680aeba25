----------------------------- MODULE AhbSystem ------------------------------
(***************************************************************************)
(* The AHB self-test: the simulator of Rv32Core running firmware_ahb.S,    *)
(* the bus of AhbBus under its loads and stores, and the main function of  *)
(* rv32_dpi_ahb_tb.cpp, which calls rv_step four times.                    *)
(*                                                                         *)
(* Unlike in TimerSystem the clock runs inside an instruction: a load or   *)
(* store of the firmware calls dpi_mmio_read or dpi_mmio_write, which      *)
(* makes clock edges until the bus has answered, and each rising edge      *)
(* calls rv_set_irq while rv_step is on the stack.  The hart looks at its  *)
(* lines again only in its next call, so irq_mask takes the last value     *)
(* when the instruction ends.                                              *)
(***************************************************************************)
EXTENDS Rv32Core, AhbBus

CONSTANT Batches    (* the values of step_batch to consider *)

VARIABLES
  t1, t2,                        (* the registers the firmware works in *)
  phase, calls, step_batch,      (* main                                *)
  indicator                      (* dpi_mmio_read_last_indicator        *)

registers == <<t1, t2>>
main == <<phase, calls, step_batch>>
sysvars == <<vars, busvars, registers, main, indicator>>

-----------------------------------------------------------------------------
(* firmware_ahb.S, one slot per instruction; the gap before the handler is *)
(* closed.                                                                 *)

Plain == [op |-> "plain", csr |-> "readonly", f3 |-> "write", val |-> {}, to |-> 0]
Do(op) == [Plain EXCEPT !.op = op]
Csr(csr, f3, val, to) == [op |-> "csr", csr |-> csr, f3 |-> f3, val |-> val, to |-> to]

StoreEnable == 6
StoreOut == 8
LoadOut == 9
Branch == 10
StorePass == 12
Handler == 14
LoadStatus == Handler
ClearOut == Handler + 1

Instructions ==
  << Plain, Plain, Csr("mtvec", "write", {}, Handler),
     Plain, Csr("mstatus", "set", {MIE}, 0),
     Plain, Do("mmio"), Plain, Do("mmio"),
     Do("mmio"), [Plain EXCEPT !.op = "branch", !.to = LoadOut],
     Plain, Do("mmio"), Do("stop"),
     Do("mmio"), Do("mmio"), Do("mret") >>

AhbFirmware == [slot \in Ram |-> Instructions[slot + 1]]

\* The slots that hold "addi t1, x0, 1".
LoadsOne == {StoreEnable - 1, StoreOut - 1, StorePass - 1}

\* The address and data of each load and store.
RequestAt(slot) ==
  CASE slot = StoreEnable -> [reg |-> "GPIO_IE", write |-> TRUE, data |-> t1]
    [] slot = StoreOut    -> [reg |-> "GPIO_OUT", write |-> TRUE, data |-> t1]
    [] slot = LoadOut     -> [reg |-> "GPIO_OUT", write |-> FALSE, data |-> 0]
    [] slot = StorePass   -> [reg |-> "outside", write |-> TRUE, data |-> t1]
    [] slot = LoadStatus  -> [reg |-> "GPIO_STATUS", write |-> FALSE, data |-> 0]
    [] slot = ClearOut    -> [reg |-> "GPIO_OUT", write |-> TRUE, data |-> 0]

ASSUME AhbAssumption ==
  /\ RamSlots = ClearOut + 2 /\ Bits = {0, MIE} /\ Lines = {0}
  /\ Firmware = {AhbFirmware} /\ Batches \subseteq 1 .. MaxBatch /\ 1 \in Word

-----------------------------------------------------------------------------
SysInit ==
  /\ Init /\ BusInit
  /\ t1 = 0 /\ t2 = 0
  /\ phase = "load" /\ calls = 0 /\ step_batch \in Batches
  /\ indicator = 0

\* rv_init, rv_reset(0), and two half-periods after rstn went high.
LoadFirmware ==
  /\ phase = "load" /\ phase' = "reset"
  /\ RvInit /\ initialized'
  /\ UNCHANGED <<busvars, registers, calls, step_batch, indicator>>

ResetHart ==
  /\ phase = "reset" /\ phase' = "call"
  /\ RvReset(0) /\ Settle(2)
  /\ UNCHANGED <<registers, calls, step_batch, indicator>>

\* The argument of rv_set_irq.
IrqMask(wire) == IF wire = 1 THEN {0} ELSE {}

\* A half-period between two calls of rv_step.
SettleTick ==
  /\ trans = "settle" /\ Tick
  /\ IF clk = 0 THEN RvSetIrq(IrqMask(irq')) ELSE UNCHANGED vars
  /\ UNCHANGED <<registers, main, indicator>>

\* A half-period within a load or store.
AccessTick ==
  /\ trans \in {"request", "drain"} /\ Tick
  /\ UNCHANGED <<vars, registers, main, indicator>>

\* Mutants of Calls: main ends after the third call, or makes a fifth.
CallsThree == 3
CallsFive == 5

\* The phases of main.
Calls == 4

\* What main does when a call has returned.
AfterCall ==
  IF busy' THEN UNCHANGED <<main, busvars>>
  ELSE /\ calls' = calls + 1 /\ UNCHANGED step_batch
       /\ IF calls' = Calls THEN phase' = "done" /\ UNCHANGED busvars
          ELSE phase' = phase /\ Settle(4)

CallStep ==
  /\ phase = "call" /\ trans = "none"
  /\ StepRefused \/ StepTrap \/ StepStart(step_batch)
  /\ AfterCall
  /\ UNCHANGED <<registers, indicator>>

Execute ==
  /\ trans = "none"
  /\ ExecPlain \/ ExecMret \/ ExecCsr \/ StepEnd
  /\ pc = Branch /\ pc' # pc => pc' = IF t2 # 0 THEN LoadOut ELSE Branch + 1
  /\ t1' = IF pc' # pc /\ pc \in LoadsOne THEN 1 ELSE t1
  /\ AfterCall
  /\ UNCHANGED <<t2, indicator>>

\* dpi_mmio_read and dpi_mmio_write are called.
BeginAccess ==
  /\ Insns("mmio")
  /\ Drive(RequestAt(pc))
  /\ indicator' = IF pc = StorePass THEN t1 ELSE indicator
  /\ UNCHANGED <<vars, registers, main>>

\* They return, and the instruction is complete.
EndAccess ==
  /\ Reply
  /\ ExecMmio /\ irq_mask' = IrqMask(irq)
  /\ t1' = IF pc = LoadStatus THEN ahb_req_rdata ELSE t1
  /\ t2' = IF pc = LoadOut THEN ahb_req_rdata ELSE t2
  /\ UNCHANGED <<main, indicator>>

SysNext ==
  \/ LoadFirmware \/ ResetHart
  \/ CallStep \/ Execute \/ SettleTick
  \/ BeginAccess \/ AccessTick \/ EndAccess

SysSpec == SysInit /\ [][SysNext]_sysvars
SysFairSpec == SysSpec /\ WF_sysvars(SysNext)

-----------------------------------------------------------------------------
(* Properties.                                                             *)

SysTypeOK ==
  /\ TypeOK /\ BusTypeOK
  /\ t1 \in {0, 1} /\ t2 \in {0, 1} /\ indicator \in {0, 1}
  /\ phase \in {"load", "reset", "call", "done"}
  /\ calls \in 0 .. 4 /\ step_batch \in Batches

\* A trap is taken only while GPIO_OUT asks for one: no call of rv_step sees a
\* line from before a store that had returned.
NoStaleTrap == [][StepTrap => gpio_out % 2 = 1]_sysvars

\* The self-test ends with the verdict the harness checks for, after one trap,
\* if a call executes at least the eight instructions that can lie between the
\* trap and the pass indicator (main, "Verify expected values").
SelfTestPasses ==
  phase = "done" => gpio_out = 0 /\ gpio_ie = 1 /\ indicator = 1 /\ traps = 1

\* main reaches its end: no access hangs and no call spins in the polling loop.
SelfTestEnds == <>(phase = "done")

=============================================================================
