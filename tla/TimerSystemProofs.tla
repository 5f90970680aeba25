------------------------- MODULE TimerSystemProofs --------------------------
(***************************************************************************)
(* What Rv32CoreProofs shows of any caller holds of the timer bench; its   *)
(* variables have their types; and the interrupts come as PeriodicTick     *)
(* promises and in time.                                                   *)
(*                                                                         *)
(* Three layers of invariants carry the last two.  BenchInv says what the  *)
(* firmware has set up by the time pc is where it is, and what main has    *)
(* done by the phase it is in.  SchedInv counts: how far each call of a    *)
(* clock cycle has brought the firmware, from batches of one instruction   *)
(* up.  TimeInv counts again for the batches of Roomy, where the handler   *)
(* always ends in time.                                                    *)
(***************************************************************************)
EXTENDS TimerSystem, Rv32CoreProofs

LEMMA SmallMod == ASSUME NEW a \in Nat, NEW m \in Nat, a < m PROVE a % m = a
  OBVIOUS
LEMMA ModRange == ASSUME NEW a \in Nat, NEW m \in Nat, m > 0 PROVE a % m \in 0 .. m-1
  OBVIOUS

\* The batch size is an argument of the harness and never changes.
BatchInv == step_batch \in 1 .. MaxBatch

LEMMA BatchStep == BatchInv /\ [SysNext]_sysvars => BatchInv'
  BY DEF BatchInv, SysNext, LoadFirmware, ResetHart, HoldReset, Posedge, CallStep,
         Execute, BusAccess, Check, Harnessed, AfterCall, harness, options, sysvars

LEMMA BatchFixed == SysSpec => []BatchInv
<1>1. SysInit => BatchInv
  <2> SUFFICES ASSUME SysInit PROVE step_batch \in 1 .. MaxBatch
    BY DEF BatchInv
  <2>1. PICK b \in Benches : step_batch = b[2]
    BY DEF SysInit
  <2>2. QED
    BY <2>1, TimerAssumption
<1>2. QED
  BY <1>1, BatchStep, PTL DEF SysSpec

\* Each step of the bench is a step of the simulator's specification or leaves
\* the simulator alone.
LEMMA StepMapped == BatchInv /\ [SysNext]_sysvars => [Next]_vars
<1> SUFFICES ASSUME BatchInv, [SysNext]_sysvars PROVE [Next]_vars
  OBVIOUS
<1>1. CASE LoadFirmware
  BY <1>1 DEF LoadFirmware, Next, Setup
<1>2. CASE ResetHart
  <2>1. 0 \in Addr
    BY SlotAssumption, RamAssumption DEF Addr
  <2>2. QED
    BY <1>2, <2>1 DEF ResetHart, Next, Setup
<1>3. CASE HoldReset
  BY <1>3 DEF HoldReset, Next
<1>4. CASE Posedge
  <2>1. IrqMask \in SUBSET Lines
    BY TimerAssumption DEF IrqMask
  <2>2. QED
    BY <1>4, <2>1 DEF Posedge, Next
<1>5. CASE CallStep
  <2>1. step_batch \in 1 .. MaxBatch
    BY TimerAssumption DEF BatchInv
  <2>2. RvStep
    BY <1>5, <2>1 DEF CallStep, RvStep
  <2>3. QED
    BY <2>2 DEF Next
<1>6. CASE Execute
  BY <1>6 DEF Execute, Next, Exec
<1>7. CASE BusAccess
  BY <1>7 DEF BusAccess, Next, Exec
<1>8. CASE Check
  BY <1>8 DEF Check
<1>9. CASE UNCHANGED sysvars
  BY <1>9 DEF sysvars
<1>10. QED
  BY <1>1, <1>2, <1>3, <1>4, <1>5, <1>6, <1>7, <1>8, <1>9 DEF SysNext

\* Each step of the bench is built from steps of the simulator, so that what
\* Rv32CoreProofs shows of any caller can be used here.
LEMMA BenchIsHart == SysSpec => Spec
<1>1. SysInit => Init
  BY DEF SysInit
<1>2. QED
  BY <1>1, StepMapped, BatchFixed, PTL DEF SysSpec, Spec

\* On the bench the timer's handler is never interrupted before its MRET, which
\* goes back to the instruction the timer cut off.
THEOREM BenchHandlerAtomic == SysSpec => HandlerAtomic
BY BenchIsHart, HandlersAreAtomic

\* The five calls of a cycle lose no instruction between them.
THEOREM BenchAccount == SysSpec => []ReturnsAccount
BY BenchIsHart, ReturnsAreAccounted
-----------------------------------------------------------------------------
(* The instructions of the firmware, by their slots.                       *)
LEMMA FirmwareSlots ==
  ASSUME NEW slot \in Ram
  PROVE  LET i == TimerFirmware[slot] IN
         /\ i.op \in {"plain", "mmio", "csr", "wfi", "jump", "mret"}
         /\ i.op = "mmio" <=> slot \in {3, 4, 13, 15, 16, 20}
         /\ i.op = "csr" <=> slot \in {6, 8, 10}
         /\ i.op = "wfi" <=> slot = 11
         /\ i.op = "jump" <=> slot = 12
         /\ i.op = "mret" <=> slot = 21
         /\ slot = 6 => i = Csr("mie", "write", {MTI}, 0)
         /\ slot = 8 => i = Csr("mtvec", "write", {}, Handler)
         /\ slot = 10 => i = Csr("mstatus", "set", {MIE}, 0)
         /\ slot = 12 => i.to = MainLoop
<1>1. slot \in 0 .. 21
  BY TimerAssumption DEF Ram, HandlerEnd, Handler
<1>2. TimerFirmware[slot] = Instructions({MTI})[slot + 1]
  BY DEF TimerFirmware
<1>3. /\ Plain.op = "plain" /\ Do("mmio").op = "mmio" /\ Do("wfi").op = "wfi"
      /\ Do("mret").op = "mret" /\ Jump(MainLoop).op = "jump" /\ Jump(MainLoop).to = MainLoop
      /\ Csr("mie", "write", {MTI}, 0).op = "csr" /\ Csr("mtvec", "write", {}, Handler).op = "csr"
      /\ Csr("mstatus", "set", {MIE}, 0).op = "csr"
  BY DEF Plain, Do, Jump, Csr
<1>4. LET I == Instructions({MTI}) IN
      /\ \A n \in {1, 2, 3, 6, 8, 10, 15, 18, 19, 20} : I[n] = Plain
      /\ \A n \in {4, 5, 14, 16, 17, 21} : I[n] = Do("mmio")
      /\ I[7] = Csr("mie", "write", {MTI}, 0)
      /\ I[9] = Csr("mtvec", "write", {}, Handler)
      /\ I[11] = Csr("mstatus", "set", {MIE}, 0)
      /\ I[12] = Do("wfi") /\ I[13] = Jump(MainLoop) /\ I[22] = Do("mret")
  BY DEF Instructions
<1>5. CASE slot \in {0, 1, 2, 5, 7, 9, 14, 17, 18, 19}
  <2>1. TimerFirmware[slot] = Plain
    BY <1>1, <1>2, <1>4, <1>5
  <2> QED
    BY <1>3, <1>5, <2>1
<1>6. CASE slot \in {3, 4, 13, 15, 16, 20}
  <2>1. TimerFirmware[slot] = Do("mmio")
    BY <1>1, <1>2, <1>4, <1>6
  <2> QED
    BY <1>3, <1>6, <2>1
<1>7. CASE slot \in {6, 8, 10}
  <2>1. /\ slot = 6 => TimerFirmware[slot] = Csr("mie", "write", {MTI}, 0)
        /\ slot = 8 => TimerFirmware[slot] = Csr("mtvec", "write", {}, Handler)
        /\ slot = 10 => TimerFirmware[slot] = Csr("mstatus", "set", {MIE}, 0)
    BY <1>1, <1>2, <1>4, <1>7
  <2> QED
    BY <1>3, <1>7, <2>1
<1>8. CASE slot \in {11, 12, 21}
  <2>1. /\ slot = 11 => TimerFirmware[slot] = Do("wfi")
        /\ slot = 12 => TimerFirmware[slot] = Jump(MainLoop)
        /\ slot = 21 => TimerFirmware[slot] = Do("mret")
    BY <1>1, <1>2, <1>4, <1>8
  <2> QED
    BY <1>3, <1>8, <2>1
<1> QED
  BY <1>1, <1>5, <1>6, <1>7, <1>8

-----------------------------------------------------------------------------
(* What one action of the simulator does to the firmware's position.       *)
(* An instruction of the batch that is not its last ...                    *)
Proceeds ==
  /\ busy /\ left > 0 /\ busy' /\ left' = left - 1 /\ executed' = executed + 1
  /\ UNCHANGED <<initialized, irq_mask, wfi_sleep, htif_halted, mepc>>

\* ... and the end of the call.
Returns ==
  /\ ~busy' /\ left' = 0 /\ returned' = Plus(returned, executed, CycleMod)
  /\ UNCHANGED <<initialized, pc, irq_mask, htif_halted, mepc>>

\* No CSR is written and no handler begins or ends.
Keeps == UNCHANGED <<mstatus, mie, mtvec, handler>>

\* Straight on, or round the loop of WFI and the jump behind it.
GoesOn ==
  /\ Proceeds /\ Keeps
  /\ \/ pc \in {0, 1, 2, 5, 7, 9, 14, 17, 18, 19} /\ pc' = pc + 1
     \/ pc = MainLoop /\ irq_mask # {} /\ pc' = MainLoop + 1
     \/ pc = MainLoop + 1 /\ pc' = MainLoop

\* The writes of mie and mtvec at boot.
SetsUp ==
  /\ Proceeds /\ pc \in {6, 8} /\ pc' = pc + 1 /\ mstatus' = mstatus
  /\ mie' = IF pc = 6 THEN {MTI} ELSE mie
  /\ mtvec' = IF pc = 8 THEN [base |-> Handler, vectored |-> FALSE] ELSE mtvec
  /\ handler' \in {handler, NoHandler}

\* Interrupts are enabled: at the end of boot and by MRET.
EntersLoop ==
  /\ Proceeds
  /\ \/ pc = MainLoop - 1 /\ pc' = MainLoop
     \/ pc = HandlerEnd /\ pc' = mepc
  /\ mstatus' = mstatus \union {MIE} /\ handler' = NoHandler
  /\ UNCHANGED <<mie, mtvec>>

\* WFI with no line up.
Sleeps ==
  /\ busy /\ left > 0 /\ pc = MainLoop /\ ~WfiFallsThrough
  /\ wfi_sleep' = TRUE /\ Returns /\ Keeps

\* The batch is used up.
Ends == busy /\ left = 0 /\ Returns /\ Keeps /\ UNCHANGED wfi_sleep

LEMMA SlotsInRam == Ram = 0 .. HandlerEnd /\ HandlerEnd + 1 <= SlotMod /\ 0 .. HandlerEnd \subseteq Addr
  BY TimerAssumption, RamAssumption, SlotAssumption DEF Ram, HandlerEnd, Handler, Addr

LEMMA NextIs == ASSUME NEW slot \in 0 .. HandlerEnd - 1 PROVE NextSlot(slot) = slot + 1
  BY SlotsInRam, SlotAssumption DEF NextSlot, Plus, HandlerEnd, Handler

\* Execute does one of these ...
LEMMA Executes ==
  ASSUME TypeOK, CallInv, pc \in 0 .. HandlerEnd, ~htif_halted, Execute
  PROVE  GoesOn \/ SetsUp \/ EntersLoop \/ Sleeps \/ Ends
<1> USE DEF MainLoop, HandlerEnd, Handler
<1>1. busy
  BY DEF Execute, ExecPlain, ExecMret, ExecWfi, ExecCsr, StepEnd, Insns, Running
<1>2. ram = TimerFirmware /\ pc \in Ram
  BY <1>1, TimerAssumption, SlotsInRam DEF TypeOK, CallInv
<1>3. left \in Nat
  BY DEF TypeOK
<1>4. CASE ExecPlain
  <2>1. Proceeds /\ Keeps
    BY <1>4 DEF ExecPlain, Insns, Running, Retire, Proceeds, Keeps, csrs
  <2>2. ram[pc].op \in {"plain", "jump"}
    BY <1>2, <1>4, FirmwareSlots DEF ExecPlain, Insns
  <2>3. CASE ram[pc].op = "plain"
    <3>1. pc \in {0, 1, 2, 5, 7, 9, 14, 17, 18, 19}
      BY <1>2, <2>3, FirmwareSlots
    <3>2. pc' = NextSlot(pc)
      BY <1>4, <2>3 DEF ExecPlain, Insns, Retire
    <3> QED
      BY <2>1, <3>1, <3>2, NextIs DEF GoesOn
  <2>4. CASE ram[pc].op = "jump"
    <3>1. pc = 12 /\ ram[pc].to = MainLoop
      BY <1>2, <2>4, FirmwareSlots
    <3>2. pc' = MainLoop
      BY <1>4, <2>4, <3>1 DEF ExecPlain, Insns, Retire
    <3> QED
      BY <2>1, <3>1, <3>2 DEF GoesOn
  <2> QED
    BY <2>2, <2>3, <2>4
<1>5. CASE ExecMret
  <2>1. pc = 21
    BY <1>2, <1>5, FirmwareSlots DEF ExecMret, Insns
  <2>2. Proceeds /\ pc' = mepc /\ mstatus' = mstatus \union {MIE} /\ handler' = NoHandler
        /\ UNCHANGED <<mie, mtvec>>
    BY <1>5 DEF ExecMret, Insns, Running, Retire, Proceeds
  <2> QED
    BY <2>1, <2>2 DEF EntersLoop
<1>6. CASE ExecWfi
  <2>1. pc = 11 /\ left > 0
    BY <1>2, <1>6, FirmwareSlots DEF ExecWfi, Insns, Running
  <2>2. CASE WfiFallsThrough
    <3>1. pc' = NextSlot(pc) /\ Proceeds /\ Keeps
      BY <1>6, <2>2 DEF ExecWfi, Insns, Running, Retire, Proceeds, Keeps, csrs
    <3> QED
      BY <2>1, <2>2, <3>1, NextIs DEF GoesOn, WfiFallsThrough
  <2>3. CASE ~WfiFallsThrough
    BY <1>1, <1>6, <2>1, <2>3 DEF ExecWfi, Sleeps, Return, Returns, Keeps, csrs
  <2> QED
    BY <2>2, <2>3
<1>7. CASE ExecCsr
  <2>1. Proceeds /\ pc' = NextSlot(pc) /\ pc \in {6, 8, 10}
    <3>1. pc \in {6, 8, 10}
      BY <1>2, <1>7, FirmwareSlots DEF ExecCsr, Insns
    <3>2. ram[pc].csr # "mepc"
      BY <1>2, <3>1, FirmwareSlots DEF Csr
    <3> QED
      BY <1>7, <3>1, <3>2 DEF ExecCsr, Insns, Running, Retire, Proceeds
  <2>2. pc' = pc + 1
    BY <2>1, NextIs
  <2>3. CASE pc = 6
    <3>1. ram[pc].csr = "mie" /\ ram[pc].f3 = "write" /\ ram[pc].val = {MTI}
      BY <1>2, <2>3, FirmwareSlots DEF Csr
    <3>2. mie' = {MTI} /\ UNCHANGED <<mstatus, mtvec>> /\ handler' \in {handler, NoHandler}
      BY <1>7, <3>1 DEF ExecCsr, CsrBits
    <3> QED
      BY <2>1, <2>2, <2>3, <3>2 DEF SetsUp
  <2>4. CASE pc = 8
    <3>1. ram[pc].csr = "mtvec" /\ ram[pc].to = Handler /\ ram[pc].val = {}
      BY <1>2, <2>4, FirmwareSlots DEF Csr
    <3>2. mtvec' = [base |-> Handler, vectored |-> FALSE] /\ UNCHANGED <<mstatus, mie>>
          /\ handler' \in {handler, NoHandler}
      BY <1>7, <3>1 DEF ExecCsr
    <3> QED
      BY <2>1, <2>2, <2>4, <3>2 DEF SetsUp
  <2>5. CASE pc = 10
    <3>1. ram[pc].csr = "mstatus" /\ ram[pc].f3 = "set" /\ ram[pc].val = {MIE}
      BY <1>2, <2>5, FirmwareSlots DEF Csr
    <3>2. mstatus' = mstatus \union {MIE} /\ UNCHANGED <<mie, mtvec>>
      BY <1>7, <3>1 DEF ExecCsr, CsrBits
    <3>3. handler' = NoHandler
      BY <1>7, <3>2 DEF ExecCsr
    <3> QED
      BY <2>1, <2>2, <2>5, <3>2, <3>3 DEF EntersLoop
  <2> QED
    BY <2>1, <2>3, <2>4, <2>5
<1>8. CASE StepEnd
  <2>1. ram[pc].op # "stop"
    BY <1>2, FirmwareSlots
  <2>2. left = 0
    BY <1>2, <1>8, <2>1 DEF StepEnd, Fetchable, Insns
  <2> QED
    BY <1>1, <1>8, <2>2 DEF StepEnd, Ends, Return, Returns, Keeps, csrs
<1> QED
  BY <1>4, <1>5, <1>6, <1>7, <1>8 DEF Execute

-----------------------------------------------------------------------------
(* Where the firmware is, and what it has done by then.                     *)
Where ==
  /\ pc \in 0 .. HandlerEnd
  /\ MIE \in mstatus <=> pc \in {MainLoop, MainLoop + 1}
  /\ pc >= 7 => mie = {MTI}
  /\ pc >= 9 => mtvec = [base |-> Handler, vectored |-> FALSE]
  /\ pc >= Handler => mepc \in {MainLoop, MainLoop + 1}
  /\ handler.active <=> pc >= Handler
  /\ wfi_sleep => pc = MainLoop /\ ~busy
  /\ ~htif_halted

\* The registers the firmware has programmed, and the one it works in.
Registers ==
  /\ mtimecmp_hi = IF pc <= StoreCmpHi THEN WordMod - 1 ELSE 0
  /\ pc = StoreCmpHi => mtimecmp_lo = Period
  /\ pc \in {LoadGpio + 1, StoreGpio} => t2 = 0
  /\ pc > LoadTime => fired_at <= t2 /\ t2 <= mtime

\* What main has done by the phase it is in.
Main ==
  /\ phase \in {"load", "reset", "hold"} =>
       pc = 0 /\ ~busy /\ mtime = 0 /\ irq_mask = {}
  /\ phase # "load" => initialized
  /\ phase = "boot" => bench = "zephyr_tb" /\ mtime = 0 /\ irq_mask = {}
  /\ phase = "step" => mtime >= 1
  /\ phase # "step" /\ phase # "done" => s = 0
  /\ busy => phase \in {"boot", "step"} /\ executed + left = step_batch

\* The types of the bench's own variables.
Holds ==
  /\ mtime \in 0 .. ClockTicks /\ fired_at \in 0 .. mtime
  /\ mtimecmp_lo \in 0 .. WordMod - 1
  /\ mem_write \in {0, 1} /\ t2 \in 0 .. ClockTicks
  /\ phase \in {"load", "reset", "hold", "boot", "tick", "step", "check", "done"}
  /\ s \in 0 .. StepsPerTick - 1 /\ options \in Benches
  /\ timer_fired \in BOOLEAN /\ second_fire \in BOOLEAN

\* ... and BusAccess goes straight on from one of six slots.
LEMMA Accesses ==
  ASSUME TypeOK, CallInv, pc \in 0 .. HandlerEnd, BusAccess
  PROVE  Proceeds /\ Keeps /\ pc \in {3, 4, 13, 15, 16, 20} /\ pc' = pc + 1
<1>1. busy
  BY DEF BusAccess, ExecMmio, Insns, Running
<1>2. ram = TimerFirmware /\ pc \in Ram
  BY <1>1, TimerAssumption, SlotsInRam DEF TypeOK, CallInv
<1>3. pc \in {3, 4, 13, 15, 16, 20}
  BY <1>2, FirmwareSlots DEF BusAccess, ExecMmio, Insns
<1>4. Proceeds /\ Keeps /\ pc' = NextSlot(pc)
  BY DEF BusAccess, ExecMmio, Insns, Running, Retire, Proceeds, Keeps, csrs
<1> QED
  BY <1>3, <1>4, NextIs DEF HandlerEnd, Handler

\* A trap is taken from the loop and goes to the handler.
Enters ==
  /\ pc \in {MainLoop, MainLoop + 1} /\ irq_mask # {} /\ ~busy
  /\ pc' = Handler /\ mepc' = pc /\ mstatus' = mstatus \ {MIE} /\ irq_mask' = {}
  /\ ~busy' /\ left' = 0 /\ ~wfi_sleep' /\ handler' = [active |-> TRUE, at |-> pc]
  /\ returned' # returned /\ traps' # traps
  /\ UNCHANGED <<initialized, mie, mtvec, htif_halted>>

LEMMA Trapped == ASSUME TypeOK, Where, StepTrap PROVE Enters
<1> USE DEF MainLoop, Handler
<1>1. ~busy /\ MIE \in mstatus /\ Enabled # {}
  BY DEF StepTrap, TakeTrap, TakesIrq
<1>2. pc \in {MainLoop, MainLoop + 1} /\ mie = {MTI}
  BY <1>1 DEF Where
<1>3. irq_mask = {MTI} /\ Enabled = {MTI}
  BY <1>1, <1>2, TimerAssumption DEF Enabled, TypeOK
<1>4. Lowest(Enabled) = MTI
  BY <1>3 DEF Lowest, MTI
<1>5. pc' = Handler /\ irq_mask' = {}
  BY <1>2, <1>3, <1>4 DEF StepTrap, TakeTrap, TrapTarget, Where
<1>6. Plus(returned, 1, CycleMod) # returned /\ Plus(traps, 1, CycleMod) # traps
  BY BatchAssumption DEF Plus, TypeOK
<1> QED
  BY <1>1, <1>2, <1>3, <1>5, <1>6 DEF StepTrap, TakeTrap, Return, Enters

LEMMA WhereStep ==
  ASSUME TypeOK, CallInv, Where, Main, [SysNext]_sysvars PROVE Where'
<1> USE DEF Where, MainLoop, Handler, HandlerEnd
<1>1. CASE LoadFirmware
  <2>1. pc = 0 /\ pc' = 0
    BY <1>1 DEF LoadFirmware, Main
  <2>2. mstatus' = mstatus /\ handler' \in {handler, NoHandler}
    BY <1>1 DEF LoadFirmware, RvInit, RvInitElf, FreshHart, LosesRam, csrs
  <2>3. /\ htif_halted' = htif_halted \/ htif_halted' = FALSE
        /\ wfi_sleep' = wfi_sleep \/ wfi_sleep' = FALSE
    <3>1. CASE RvInit
      BY <3>1 DEF RvInit, FreshHart, LosesRam
    <3>2. CASE RvInitElf
      BY <3>2 DEF RvInitElf, FreshHart, LosesRam
    <3> QED
      BY <1>1, <3>1, <3>2 DEF LoadFirmware
  <2>4. /\ ~htif_halted /\ ~wfi_sleep
        /\ ~handler.active /\ MIE \notin mstatus
    BY <2>1
  <2>5. ~handler'.active /\ MIE \notin mstatus'
    BY <2>2, <2>4 DEF NoHandler
  <2>6. ~htif_halted' /\ ~wfi_sleep'
    BY <2>3, <2>4
  <2> QED
    BY <2>1, <2>5, <2>6
<1>2. CASE ResetHart
  <2>1. pc = 0
    BY <1>2 DEF ResetHart, Main
  <2>2. pc' = 0 /\ handler' = NoHandler /\ ~wfi_sleep' /\ UNCHANGED <<mstatus, htif_halted>>
    BY <1>2 DEF ResetHart, RvReset
  <2> QED
    BY <2>1, <2>2 DEF NoHandler
<1>3. CASE HoldReset \/ Posedge
  BY <1>3 DEF HoldReset, Posedge, RvSetIrq, csrs, call
<1>4. CASE CallStep
  <2>1. CASE StepRefused
    BY <2>1 DEF StepRefused, Return, csrs
  <2>2. CASE StepTrap
    BY <2>2, Trapped DEF Enters
  <2>3. CASE StepStart(step_batch)
    BY <2>3 DEF StepStart, csrs, history
  <2> QED
    BY <1>4, <2>1, <2>2, <2>3 DEF CallStep
<1>5. CASE Execute
  <2>1. GoesOn \/ SetsUp \/ EntersLoop \/ Sleeps \/ Ends
    BY <1>5, Executes
  <2>2. CASE GoesOn
    BY <2>2 DEF GoesOn, Proceeds, Keeps
  <2>3. CASE SetsUp
    BY <2>3 DEF SetsUp, Proceeds, NoHandler
  <2>4. CASE EntersLoop
    BY <2>4 DEF EntersLoop, Proceeds, NoHandler
  <2>5. CASE Sleeps \/ Ends
    BY <2>5 DEF Sleeps, Ends, Returns, Keeps
  <2> QED
    BY <2>1, <2>2, <2>3, <2>4, <2>5
<1>6. CASE BusAccess
  BY <1>6, Accesses DEF Proceeds, Keeps
<1>7. CASE Check \/ UNCHANGED sysvars
  BY <1>7 DEF Check, sysvars, vars, csrs, call, history
<1> QED
  BY <1>1, <1>2, <1>3, <1>4, <1>5, <1>6, <1>7 DEF SysNext

LEMMA RegistersStep ==
  ASSUME TypeOK, CallInv, Where, Main, Holds, Registers, [SysNext]_sysvars
  PROVE  Registers'
<1> USE DEF Registers, StoreCmpHi, StoreGpio, LoadGpio, LoadTime, Handler
<1>1. CASE LoadFirmware
  BY <1>1 DEF LoadFirmware, Main, board, timer
<1>2. CASE ResetHart
  BY <1>2 DEF ResetHart, RvReset, Main, board, timer
<1>3. CASE HoldReset
  BY <1>3 DEF HoldReset, RvSetIrq, board, timer
<1>4. CASE Posedge
  BY <1>4 DEF Posedge, RvSetIrq, Holds
<1>5. CASE CallStep
  <2>1. CASE StepRefused \/ StepStart(step_batch)
    <3>1. traps' = traps /\ pc' = pc
      BY <2>1 DEF StepRefused, StepStart, history
    <3> QED
      BY <1>5, <3>1 DEF CallStep, board, timer
  <2>2. CASE StepTrap
    BY <1>5, <2>2, Trapped DEF CallStep, Enters, board, timer, Handler, MainLoop
  <2> QED
    BY <1>5, <2>1, <2>2 DEF CallStep
<1>6. CASE Execute
  <2>1. UNCHANGED <<mtime, mtimecmp_lo, mtimecmp_hi, t2, fired_at>>
    BY <1>6 DEF Execute, board, timer
  <2>2. \/ pc' = pc
        \/ pc \in {0, 1, 2, 5, 6, 7, 8, 9, 14, 17, 18, 19} /\ pc' = pc + 1
        \/ pc >= 10 /\ pc' \in {11, 12}
    <3>1. GoesOn \/ SetsUp \/ EntersLoop \/ Sleeps \/ Ends
      BY <1>6, Executes DEF Where
    <3>2. pc = HandlerEnd => mepc \in {11, 12}
      BY DEF Where, MainLoop, HandlerEnd
    <3>3. CASE GoesOn
      BY <3>3 DEF GoesOn, MainLoop
    <3>4. CASE SetsUp
      BY <3>4 DEF SetsUp
    <3>5. CASE EntersLoop
      BY <3>2, <3>5 DEF EntersLoop, MainLoop, HandlerEnd
    <3>6. CASE Sleeps \/ Ends
      BY <3>6 DEF Sleeps, Ends, Returns
    <3> QED
      BY <3>1, <3>3, <3>4, <3>5, <3>6
  <2> QED
    BY <2>1, <2>2 DEF Where, HandlerEnd
<1>7. CASE BusAccess
  <2>1. pc' = pc + 1 /\ UNCHANGED <<mtime, fired_at>> /\ Access
    BY <1>7, Accesses DEF BusAccess, Where
  <2>2. mtime % WordMod = mtime
    BY SmallMod, NoOverflowAssumption, TimerAssumption DEF Holds
  <2> QED
    BY <2>1, <2>2 DEF Access, Where, HandlerEnd, Holds, StoreCmpLo, StoreNext
<1>8. CASE Check \/ UNCHANGED sysvars
  BY <1>8 DEF Check, sysvars, vars, board, timer
<1> QED
  BY <1>1, <1>2, <1>3, <1>4, <1>5, <1>6, <1>7, <1>8 DEF SysNext

\* A call ends, and the loop of main goes on with the next or to its check.
CallOver ==
  \/ phase = "boot" /\ phase' = "tick" /\ s' = s
  \/ phase # "boot" /\ phase' = "check" /\ s' = 0
  \/ phase # "boot" /\ phase' = phase /\ s' = s + 1 /\ s + 1 # StepsPerTick

LEMMA Over == AfterCall => CallOver /\ UNCHANGED <<options, checks>>
  BY DEF AfterCall, CallOver

\* What Execute and CallStep do to the main loop.
LEMMA MainMoves ==
  ASSUME TypeOK, CallInv, BatchInv, Where, Main, CallStep \/ Execute \/ BusAccess
  PROVE  /\ phase \in {"boot", "step"}
         /\ \/ busy' /\ UNCHANGED <<phase, s>>
               /\ executed' + left' = (IF busy THEN executed + left ELSE step_batch)
            \/ ~busy' /\ CallOver
         /\ UNCHANGED <<options, checks, mtime>> /\ initialized' = initialized
         /\ irq_mask' \in {irq_mask, {}}
<1>1. CASE CallStep
  <2>1. initialized' = initialized /\ UNCHANGED mtime /\ phase \in {"boot", "step"}
    BY <1>1 DEF CallStep, StepRefused, StepTrap, TakeTrap, StepStart, board, timer
  <2>2. irq_mask' \in {irq_mask, {}}
    BY <1>1, Trapped DEF CallStep, StepRefused, StepStart, Enters
  <2>3. ~busy /\ (busy' => left' = step_batch /\ executed' = 0)
    BY <1>1 DEF CallStep, StepRefused, StepTrap, TakeTrap, StepStart, Return
  <2>4. busy' => executed' + left' = step_batch
    BY <2>3, BatchAssumption DEF BatchInv
  <2>5. CASE busy'
    BY <1>1, <2>1, <2>2, <2>3, <2>4, <2>5 DEF CallStep, Harnessed, harness
  <2>6. CASE ~busy'
    BY <1>1, <2>1, <2>2, <2>6, Over DEF CallStep, Harnessed
  <2> QED
    BY <2>5, <2>6
<1>2. CASE Execute
  <2>1. busy /\ phase \in {"boot", "step"}
    BY <1>2 DEF Execute, ExecPlain, ExecMret, ExecWfi, ExecCsr, StepEnd, Insns, Running, Main
  <2>2. GoesOn \/ SetsUp \/ EntersLoop \/ Sleeps \/ Ends
    BY <1>2, Executes DEF Where
  <2>3. UNCHANGED <<initialized, irq_mask>> /\ (busy' => executed' + left' = executed + left)
    BY <2>2 DEF GoesOn, SetsUp, EntersLoop, Sleeps, Ends, Proceeds, Returns, TypeOK
  <2>4. CASE busy'
    <3>1. UNCHANGED harness /\ UNCHANGED board
      BY <1>2, <2>4 DEF Execute, Harnessed
    <3>2. UNCHANGED <<phase, s, options, checks, mtime>>
      BY <3>1 DEF harness, board, timer
    <3>3. executed' + left' = executed + left
      BY <2>3, <2>4
    <3>4. initialized' = initialized /\ irq_mask' = irq_mask
      BY <2>3
    <3> QED
      BY <2>1, <2>4, <3>2, <3>3, <3>4
  <2>5. CASE ~busy'
    BY <1>2, <2>1, <2>3, <2>5, Over DEF Execute, Harnessed, board, timer
  <2> QED
    BY <2>4, <2>5
<1>3. CASE BusAccess
  <2>1. Proceeds /\ UNCHANGED <<harness, mtime>>
    BY <1>3, Accesses DEF BusAccess, Where
  <2>2. busy /\ busy' /\ executed' + left' = executed + left
    BY <2>1 DEF Proceeds, TypeOK
  <2> QED
    BY <2>1, <2>2 DEF Proceeds, Main, harness
<1> QED
  BY <1>1, <1>2, <1>3

LEMMA MainStep ==
  ASSUME TypeOK, CallInv, BatchInv, Where, Holds, Main, [SysNext]_sysvars PROVE Main'
<1> USE DEF Main
<1>1. CASE LoadFirmware
  <2>1. UNCHANGED <<busy, mtime>> /\ initialized' /\ pc' = 0 /\ irq_mask' = {}
    BY <1>1 DEF LoadFirmware, RvInit, RvInitElf, FreshHart, LosesRam, call, board, timer
  <2> QED
    BY <1>1, <2>1 DEF LoadFirmware
<1>2. CASE ResetHart
  BY <1>2 DEF ResetHart, RvReset, call, board, timer
<1>3. CASE HoldReset
  BY <1>3, TimerAssumption DEF HoldReset, RvSetIrq, call, board, timer, options, Holds
<1>4. CASE Posedge
  BY <1>4 DEF Posedge, RvSetIrq, call, options, Holds
<1>5. CASE CallStep \/ Execute \/ BusAccess
  BY <1>5, MainMoves DEF CallOver, options
<1>6. CASE Check
  BY <1>6 DEF Check, vars, call, board, timer, options
<1>7. CASE UNCHANGED sysvars
  BY <1>7 DEF sysvars, vars, call, board, timer, harness, options
<1> QED
  BY <1>1, <1>2, <1>3, <1>4, <1>5, <1>6, <1>7 DEF SysNext

LEMMA HoldsStep ==
  ASSUME TypeOK, CallInv, BatchInv, Where, Main, Registers, Holds, [SysNext]_sysvars
  PROVE  Holds'
<1> USE DEF Holds
<1>1. CASE LoadFirmware \/ ResetHart \/ HoldReset
  BY <1>1 DEF LoadFirmware, ResetHart, HoldReset, board, timer, options, checks, StepsPerTick
<1>2. CASE Posedge
  BY <1>2, NoOverflowAssumption DEF Posedge, options, checks, StepsPerTick
<1>3. CASE CallStep \/ Execute \/ BusAccess
  <2>1. UNCHANGED <<options, checks, mtime>>
        /\ (UNCHANGED <<phase, s>> \/ CallOver) /\ phase \in {"boot", "step"}
    BY <1>3, MainMoves
  <2>2. phase' \in {"step", "boot", "tick", "check"} /\ s' \in 0 .. StepsPerTick - 1
    BY <2>1 DEF CallOver, StepsPerTick
  <2>3. StepsPerTick' = StepsPerTick
    BY <2>1 DEF StepsPerTick, options
  <2>4. /\ mtimecmp_lo' \in 0 .. WordMod - 1 /\ fired_at' \in 0 .. mtime
        /\ mem_write' \in {0, 1} /\ t2' \in 0 .. ClockTicks
    <3>1. CASE CallStep \/ Execute
      BY <3>1 DEF CallStep, Execute, board, timer
    <3>2. CASE BusAccess
      <4>1. fired_at' = fired_at /\ Access
        BY <3>2 DEF BusAccess
      <4>2. mtime % WordMod = mtime
        BY SmallMod, NoOverflowAssumption, TimerAssumption
      <4>3. NextDeadline \in 0 .. WordMod - 1 /\ Period < WordMod
        <5>1. t2 + Period \in Nat /\ WordMod > 0
          BY NoOverflowAssumption, TimerAssumption
        <5>2. (t2 + Period) % WordMod \in 0 .. WordMod - 1
          BY <5>1, ModRange, NoOverflowAssumption
        <5> QED
          BY <5>2, NoOverflowAssumption, TimerAssumption DEF NextDeadline
      <4>4. pc = StoreGpio => t2 = 0
        BY DEF Registers
      <4>5. /\ mtimecmp_lo' \in {mtimecmp_lo, Period, NextDeadline}
            /\ t2' \in {t2, 0, mtime}
            /\ mem_write' \in {mem_write, 1}
        BY <4>1, <4>2, <4>4 DEF Access
      <4>6. Period \in 0 .. WordMod - 1 /\ mtime \in 0 .. ClockTicks /\ 0 \in 0 .. ClockTicks
        BY <4>3, TimerAssumption, NoOverflowAssumption
      <4> QED
        BY <4>1, <4>3, <4>5, <4>6
    <3> QED
      BY <1>3, <3>1, <3>2
  <2> QED
    BY <2>1, <2>2, <2>3, <2>4 DEF options, checks
<1>4. CASE Check
  <2>1. UNCHANGED <<board, options, s, fired_at>> /\ phase' \in {"done", "tick"}
    BY <1>4 DEF Check
  <2>2. timer_fired' \in BOOLEAN /\ second_fire' \in BOOLEAN
    BY <1>4, Zenon DEF Check
  <2> QED
    BY <2>1, <2>2 DEF board, timer, options, StepsPerTick
<1>5. CASE UNCHANGED sysvars
  BY <1>5 DEF sysvars, board, timer, harness, options, checks, StepsPerTick
<1> QED
  BY <1>1, <1>2, <1>3, <1>4, <1>5 DEF SysNext

BenchInv == BatchInv /\ Where /\ Main /\ Registers /\ Holds

LEMMA BenchInvInit == SysInit => BenchInv
<1> SUFFICES ASSUME SysInit PROVE BenchInv
  OBVIOUS
<1>1. PICK b \in Benches : bench = b[1] /\ step_batch = b[2]
  BY DEF SysInit
<1>2. step_batch \in 1 .. MaxBatch /\ options \in Benches
  BY <1>1, TimerAssumption DEF options
<1>3. StepsPerTick \in {1, 5}
  BY DEF StepsPerTick
<1>4. /\ pc = 0 /\ mstatus = {} /\ ~handler.active /\ ~wfi_sleep /\ ~htif_halted
      /\ ~busy /\ irq_mask = {}
  BY DEF SysInit, Init, NoHandler
<1>5. /\ mtime = 0 /\ mtimecmp_lo = WordMod - 1 /\ mtimecmp_hi = WordMod - 1
      /\ mem_write = 0 /\ t2 = 0 /\ phase = "load" /\ s = 0 /\ fired_at = 0
      /\ timer_fired = FALSE /\ second_fire = FALSE
  BY DEF SysInit
<1>6. Where
  BY <1>4 DEF Where, MainLoop, Handler, HandlerEnd
<1>7. Main
  BY <1>4, <1>5 DEF Main
<1>8. Registers
  BY <1>4, <1>5 DEF Registers, StoreCmpHi, LoadGpio, StoreGpio, LoadTime, Handler
<1>9. timer_fired \in BOOLEAN /\ second_fire \in BOOLEAN
  BY <1>5, Zenon
<1>10. Holds
  BY <1>2, <1>3, <1>5, <1>9, NoOverflowAssumption, TimerAssumption DEF Holds
<1> QED
  BY <1>2, <1>6, <1>7, <1>8, <1>10 DEF BenchInv, BatchInv

LEMMA BenchInvariant == SysSpec => [](TypeOK /\ CoreInv /\ BenchInv)
<1>1. SysSpec => [](TypeOK /\ CoreInv)
  BY BenchIsHart, TypeCorrect, CoreInvariant, PTL
<1>2. TypeOK /\ CoreInv /\ BenchInv /\ [SysNext]_sysvars => BenchInv'
  BY BatchStep, WhereStep, MainStep, RegistersStep, HoldsStep DEF CoreInv, BenchInv
<1> QED
  BY <1>1, <1>2, BenchInvInit, PTL DEF SysSpec

\* The timer's registers, the firmware's register and the loop counters of main
\* stay within their types, for any period, clock limit and batch sizes.
THEOREM SysTypesCorrect == SysSpec => []SysTypeOK
<1>1. TypeOK /\ CoreInv /\ BenchInv => SysTypeOK
  BY DEF BenchInv, Holds, Registers, SysTypeOK
<1> QED
  BY <1>1, BenchInvariant, PTL

-----------------------------------------------------------------------------
(* How far the calls of a clock cycle have brought the firmware, under the *)
(* main loop that makes five of them.                                      *)

\* The batch is used up but has not returned; the comparison holds; between the
\* last call of a cycle and the next edge.
Late == busy /\ left = 0
Truthful == mtimecmp_hi = 0 /\ mtime >= mtimecmp_lo
Between == phase \in {"check", "tick", "done"}

\* Boot: each call brings the firmware at least one instruction on, and the
\* deadline is programmed before the clock can reach it.
BootPace ==
  pc < MainLoop =>
    /\ irq_mask = {}
    /\ pc > StoreCmpLo => mtimecmp_lo = Period
    /\ phase = "boot" /\ busy => pc + left >= 1
    /\ phase = "step" /\ busy => pc + left >= 2 + 5 * (mtime - 1) + s
    /\ phase = "step" /\ ~busy => pc >= 1 + 5 * (mtime - 1) + s
    /\ Between => pc >= 1 + 5 * mtime

\* In the loop: with the line up the next call traps, unless it rose, with
\* batches of one, while the handler spanned two cycles.
IdleLine ==
  pc \in {MainLoop, MainLoop + 1} =>
    /\ pc = MainLoop
    /\ irq_mask # {} =>
         \/ Truthful /\ phase = "step" /\ ~busy /\ s = 0
         \/ step_batch = 1 /\ (Between \/ (phase = "step" /\ Late /\ s = 4))

\* The handler with batches of two or more: it stores the next deadline in the
\* cycle it was entered in, so the line is down from the next edge on.
PairPace ==
  step_batch >= 2 /\ pc >= Handler =>
    /\ irq_mask = {} /\ (pc > LoadTime => t2 = fired_at)
    /\ \/ /\ pc <= StoreNext /\ phase = "step" /\ s >= 1 /\ mtime = fired_at
          /\ IF busy THEN pc + left >= Handler + 2 * s ELSE pc >= Handler + 2 * (s - 1)
       \/ /\ pc = HandlerEnd /\ mtimecmp_lo = fired_at + Period
          /\ \/ mtime = fired_at /\ (phase = "step" \/ Between)
             \/ mtime = fired_at + 1 /\ phase = "step" /\ s = 0 /\ ~Late

\* The handler with batches of one: the trap and four instructions in the first
\* cycle, five in the second, at whose edge the line may still be up.
SinglePace ==
  step_batch = 1 /\ pc >= Handler =>
    /\ pc > LoadTime => t2 = fired_at
    /\ \/ /\ phase = "step" /\ s >= 1 /\ irq_mask = {} /\ mtime = fired_at
          /\ pc = Handler + s - (IF Late THEN 0 ELSE 1)
       \/ Between /\ irq_mask = {} /\ mtime = fired_at /\ pc = LoadTime + 1
       \/ phase = "step" /\ mtime = fired_at + 1 /\ pc = LoadTime + 1 + s + (IF Late THEN 1 ELSE 0)

\* A call that ends with its batch leads to the next call or to the check.
LEMMA EndsCall ==
  ASSUME TypeOK, CallInv, Main, Ends, Harnessed
  PROVE  /\ phase = "boot" => phase' = "tick"
         /\ phase = "step" => IF s + 1 = StepsPerTick THEN phase' = "check"
                              ELSE phase' = "step" /\ s' = s + 1
<1>1. executed \in 1 .. MaxBatch /\ ~busy'
  BY DEF CallInv, Ends, Returns, TypeOK
<1>2. returned' # returned
  BY <1>1, BatchAssumption DEF Ends, Returns, Plus, TypeOK
<1> QED
  BY <1>1, <1>2 DEF Harnessed, AfterCall

\* What a call of rv_step that starts leaves behind.
LEMMA CallEffects ==
  ASSUME TypeOK, CallInv, BatchInv, Where, Main, IdleLine, bench = "zephyr_tb", CallStep
  PROVE  /\ UNCHANGED <<mtime, mtimecmp_lo, mtimecmp_hi, t2, step_batch>> /\ ~busy
         /\ \/ /\ pc = MainLoop /\ pc' = pc /\ irq_mask = {} /\ irq_mask' = {}
               /\ ~busy' /\ CallOver /\ wfi_sleep'
            \/ /\ Truthful /\ phase = "step" /\ Enters /\ pc = MainLoop
               /\ phase' = "step" /\ s' = 1 /\ fired_at' = mtime
            \/ /\ busy' /\ left' = step_batch /\ UNCHANGED <<phase, s, pc, irq_mask, mepc, fired_at>>
               /\ (pc \in {MainLoop, MainLoop + 1} => irq_mask = {})
<1>1. UNCHANGED <<mtime, mtimecmp_lo, mtimecmp_hi, t2, step_batch>> /\ ~busy
  BY MainMoves DEF CallStep, board, timer, options, StepRefused, StepTrap, TakeTrap, StepStart
<1>2. pc \in {MainLoop, MainLoop + 1} /\ ~TakesIrq => irq_mask = {}
  <2> SUFFICES ASSUME pc \in {MainLoop, MainLoop + 1}, irq_mask # {} PROVE TakesIrq
    OBVIOUS
  <2>1. irq_mask = {MTI}
    BY TimerAssumption DEF TypeOK
  <2> QED
    BY <2>1 DEF TakesIrq, Enabled, Where, MainLoop
<1>3. CASE StepRefused
  <2>1. initialized
    BY DEF CallStep, Main
  <2>2. wfi_sleep /\ ~TakesIrq
    BY <1>3, <2>1 DEF StepRefused
  <2>3. pc = MainLoop /\ irq_mask = {}
    BY <1>2, <2>2 DEF Where
  <2>4. ~busy' /\ UNCHANGED <<pc, irq_mask, wfi_sleep>>
    BY <1>3 DEF StepRefused, Return
  <2> QED
    BY <1>1, <2>2, <2>3, <2>4, Over DEF CallStep, Harnessed
<1>4. CASE StepTrap
  <2>1. Enters
    BY <1>4, Trapped
  <2>2. phase = "step"
    BY <2>1 DEF CallStep, Main, Enters
  <2>3. pc = MainLoop /\ Truthful /\ s = 0
    BY <1>1, <2>1, <2>2 DEF IdleLine, Enters, Late, Between
  <2>4. phase' = "step" /\ s' = 1 /\ fired_at' = mtime
    BY <2>1, <2>2, <2>3 DEF CallStep, Harnessed, AfterCall, StepsPerTick, Enters
  <2> QED
    BY <1>1, <2>1, <2>2, <2>3, <2>4
<1>5. CASE StepStart(step_batch)
  <2>1. busy' /\ left' = step_batch /\ UNCHANGED <<pc, irq_mask, mepc, traps>> /\ ~TakesIrq
    BY <1>5 DEF StepStart, csrs, history
  <2>2. UNCHANGED <<phase, s, fired_at>>
    BY <2>1 DEF CallStep, Harnessed, harness
  <2> QED
    BY <1>1, <1>2, <2>1, <2>2
<1> QED
  BY <1>3, <1>4, <1>5 DEF CallStep

\* And one instruction, or the end of the call.
InCall == UNCHANGED <<mtime, fired_at, step_batch, irq_mask>> /\ busy

LEMMA ExecEffects ==
  ASSUME TypeOK, CallInv, BatchInv, Where, Main, Holds, IdleLine, bench = "zephyr_tb", Execute \/ BusAccess
  PROVE  /\ InCall
         /\ \/ /\ left > 0 /\ busy' /\ left' = left - 1 /\ UNCHANGED <<phase, s, mepc>>
               /\ \/ /\ pc \in 0 .. HandlerEnd /\ pc \notin {MainLoop, MainLoop + 1, HandlerEnd}
                     /\ pc' = pc + 1
                  \/ pc = HandlerEnd /\ pc' = mepc
               /\ mtimecmp_lo' = IF pc = StoreCmpLo THEN Period
                                 ELSE IF pc = StoreNext THEN t2 + Period ELSE mtimecmp_lo
               /\ t2' = IF pc = LoadTime THEN mtime ELSE IF pc = LoadGpio THEN 0 ELSE t2
            \/ /\ pc = MainLoop /\ pc' = pc /\ irq_mask = {} /\ CallOver /\ ~busy'
               /\ wfi_sleep'
            \/ /\ left = 0 /\ ~busy' /\ UNCHANGED <<pc, mtimecmp_lo, t2, mepc>>
               /\ phase = "boot" => phase' = "tick"
               /\ phase = "step" => IF s + 1 = StepsPerTick THEN phase' = "check"
                                    ELSE phase' = "step" /\ s' = s + 1
<1> USE DEF MainLoop, HandlerEnd, StoreNext, StoreCmpLo, LoadTime, LoadGpio, Handler
<1>1. CASE Execute
  <2>1. GoesOn \/ SetsUp \/ EntersLoop \/ Sleeps \/ Ends
    BY <1>1, Executes DEF Where
  <2>2. UNCHANGED <<mtime, mtimecmp_lo, t2, fired_at>> /\ Harnessed
    BY <1>1 DEF Execute, board, timer
  <2>3. step_batch' = step_batch
    BY <1>1, MainMoves DEF options
  <2>4. InCall
    BY <2>1, <2>2, <2>3 DEF InCall, GoesOn, SetsUp, EntersLoop, Sleeps, Ends, Proceeds, Returns
  <2>5. CASE GoesOn \/ SetsUp \/ EntersLoop
    <3>1. Proceeds
      BY <2>5 DEF GoesOn, SetsUp, EntersLoop
    <3>2. UNCHANGED <<phase, s, mepc>>
      BY <2>2, <3>1 DEF Harnessed, harness, Proceeds
    <3>3. pc \in {11, 12} => pc = 11 /\ irq_mask = {}
      BY <3>1 DEF IdleLine, Proceeds, Late, Between, Main
    <3>4. \/ pc \in 0 .. 20 /\ pc \notin {11, 12} /\ pc' = pc + 1
          \/ pc = 21 /\ pc' = mepc
      BY <2>5, <3>3 DEF GoesOn, SetsUp, EntersLoop
    <3>5. pc \notin {3, 13, 16, 20}
      BY <2>5, <3>3 DEF GoesOn, SetsUp, EntersLoop
    <3> QED
      BY <2>2, <2>4, <3>1, <3>2, <3>4, <3>5 DEF Proceeds
  <2>6. CASE Sleeps
    <3>1. pc = 11 /\ ~busy' /\ irq_mask = {} /\ pc' = pc /\ wfi_sleep'
      BY <2>6 DEF Sleeps, Returns, IdleLine, Late, Between, Main
    <3> QED
      BY <2>2, <2>4, <3>1, Over DEF Harnessed
  <2>7. CASE Ends
    <3>1. left = 0 /\ ~busy' /\ UNCHANGED <<pc, mepc>>
      BY <2>7 DEF Ends, Returns
    <3> QED
      BY <2>2, <2>4, <2>7, <3>1, EndsCall
  <2> QED
    BY <2>1, <2>5, <2>6, <2>7
<1>2. CASE BusAccess
  <2>1. Proceeds /\ pc \in {3, 4, 13, 15, 16, 20} /\ pc' = pc + 1
    BY <1>2, Accesses DEF Where
  <2>2. UNCHANGED <<mtime, harness, fired_at>> /\ Access
    BY <1>2 DEF BusAccess
  <2>3. InCall /\ UNCHANGED <<phase, s, mepc>>
    BY <2>1, <2>2 DEF InCall, Proceeds, harness, options
  <2>4. mtime % WordMod = mtime /\ (t2 + Period) % WordMod = t2 + Period
    BY SmallMod, NoOverflowAssumption, TimerAssumption DEF Holds
  <2>5. /\ mtimecmp_lo' = IF pc = 3 THEN Period ELSE IF pc = 20 THEN t2 + Period ELSE mtimecmp_lo
        /\ t2' = IF pc = 16 THEN mtime ELSE IF pc = 13 THEN 0 ELSE t2
    BY <2>1, <2>2, <2>4 DEF Access, StoreCmpHi, StoreGpio, NextDeadline
  <2> QED
    BY <2>1, <2>3, <2>5 DEF Proceeds
<1> QED
  BY <1>1, <1>2

\* All of it; MRET goes back to the WFI.
Paced == BootPace /\ IdleLine /\ PairPace /\ SinglePace /\ (pc >= Handler => mepc = MainLoop)

\* What an edge samples: mtimecmp_hi is all ones until the deadline is set.
LEMMA LineAtEdge ==
  ASSUME Holds, Registers PROVE IrqMask = IF Truthful THEN {MTI} ELSE {}
<1>1. WordMod \in Nat /\ WordMod >= 3 /\ mtime \in Nat /\ mtime < WordMod /\ mtimecmp_lo \in Nat
  BY NoOverflowAssumption, TimerAssumption DEF Holds
<1>2. CASE mtimecmp_hi = 0
  <2>1. mtimecmp = mtimecmp_lo
    BY <1>1, <1>2 DEF mtimecmp
  <2> QED
    BY <1>2, <2>1 DEF IrqMask, Truthful
<1>3. CASE mtimecmp_hi = WordMod - 1
  <2>1. (WordMod - 1) * WordMod \in Nat /\ (WordMod - 1) * WordMod >= WordMod
    BY <1>1
  <2>2. ~(mtime >= mtimecmp)
    BY <1>1, <1>3, <2>1 DEF mtimecmp
  <2>3. mtimecmp_hi # 0
    BY <1>1, <1>3
  <2> QED
    BY <2>2, <2>3 DEF IrqMask, Truthful
<1> QED
  BY <1>2, <1>3 DEF Registers

LEMMA PacedCall ==
  ASSUME TypeOK, CallInv, BatchInv, Where, Main, Holds, Paced, bench = "zephyr_tb", CallStep
  PROVE  Paced'
<1> USE DEF MainLoop, HandlerEnd, StoreNext, StoreCmpLo, LoadTime, Handler
<1>1. step_batch \in Nat /\ step_batch >= 1
  BY BatchAssumption DEF BatchInv
<1>2. IdleLine
  BY DEF Paced
<1>3. UNCHANGED <<mtime, mtimecmp_lo, mtimecmp_hi, t2, step_batch>> /\ ~busy /\ left = 0
  BY <1>2, CallEffects DEF CallInv
<1>4. CASE pc = MainLoop /\ pc' = pc /\ irq_mask' = {}
  BY <1>4 DEF Paced, BootPace, IdleLine, PairPace, SinglePace
<1>5. CASE Enters /\ pc = MainLoop /\ phase' = "step" /\ s' = 1 /\ fired_at' = mtime
  <2>1. pc' = 13 /\ mepc' = 11 /\ irq_mask' = {} /\ ~busy' /\ left' = 0
    BY <1>5 DEF Enters
  <2> QED
    BY <1>1, <1>3, <1>5, <2>1 DEF Paced, BootPace, IdleLine, PairPace, SinglePace, Late
<1>6. CASE /\ busy' /\ left' = step_batch /\ UNCHANGED <<phase, s, pc, irq_mask, mepc, fired_at>>
           /\ pc \in {MainLoop, MainLoop + 1} => irq_mask = {}
  <2> USE <1>1, <1>3, <1>6 DEF Paced
  <2>1. pc \in 0 .. 21 /\ mtime \in Nat /\ s \in Nat
    BY DEF Where, Holds, StepsPerTick
  <2>2. BootPace'
    BY <2>1, MainMoves DEF BootPace, Between
  <2>3. IdleLine'
    BY DEF IdleLine
  <2>4. PairPace'
    BY <2>1 DEF PairPace, Late, Between
  <2>5. SinglePace'
    BY <2>1 DEF SinglePace, Late, Between
  <2> QED
    BY <2>2, <2>3, <2>4, <2>5
<1> QED
  BY <1>2, <1>4, <1>5, <1>6, CallEffects

LEMMA PacedExec ==
  ASSUME TypeOK, CallInv, BatchInv, Where, Main, Registers, Holds, Paced,
         bench = "zephyr_tb", Execute \/ BusAccess
  PROVE  Paced'
<1> USE DEF MainLoop, HandlerEnd, StoreNext, StoreCmpLo, LoadTime, LoadGpio, Handler
<1>1. IdleLine
  BY DEF Paced
<1>2. /\ step_batch \in Nat /\ step_batch >= 1 /\ executed + left = step_batch
      /\ executed \in Nat /\ left \in Nat
      /\ pc \in 0 .. 21 /\ mtime \in Nat /\ fired_at \in Nat /\ s \in 0 .. 4 /\ t2 \in Nat
      /\ phase \in {"boot", "step"} /\ (phase = "boot" => mtime = 0)
  <2>1. busy
    BY <1>1, ExecEffects DEF InCall
  <2> QED
    BY <2>1, BatchAssumption DEF BatchInv, Main, TypeOK, Where, Holds, StepsPerTick
<1>3. InCall
  BY <1>1, ExecEffects
<1>4. CASE /\ left > 0 /\ busy' /\ left' = left - 1 /\ UNCHANGED <<phase, s, mepc>>
           /\ \/ /\ pc \in 0 .. HandlerEnd /\ pc \notin {MainLoop, MainLoop + 1, HandlerEnd}
                 /\ pc' = pc + 1
              \/ pc = HandlerEnd /\ pc' = mepc
           /\ mtimecmp_lo' = IF pc = StoreCmpLo THEN Period
                             ELSE IF pc = StoreNext THEN t2 + Period ELSE mtimecmp_lo
           /\ t2' = IF pc = LoadTime THEN mtime ELSE IF pc = LoadGpio THEN 0 ELSE t2
  <2> USE <1>2, <1>3, <1>4 DEF InCall, Paced
  <2>1. BootPace'
    BY DEF BootPace, Between
  <2>2. IdleLine'
    <3>1. CASE pc = MainLoop - 1
      BY <3>1 DEF IdleLine, BootPace
    <3>2. CASE pc = HandlerEnd
      <4>1. pc' = MainLoop
        BY <3>2
      <4>2. CASE step_batch >= 2
        BY <3>2, <4>1, <4>2 DEF IdleLine, PairPace
      <4>3. CASE step_batch = 1
        <5>1. phase = "step" /\ s = 4
          BY <3>2, <4>3 DEF SinglePace, Late, Between
        <5> QED
          BY <4>1, <4>3, <5>1 DEF IdleLine, Late
      <4> QED
        BY <4>2, <4>3
    <3> QED
      BY <3>1, <3>2 DEF IdleLine
  <2>3. PairPace'
    BY DEF PairPace, Late, Between
  <2>4. SinglePace'
    BY DEF SinglePace, Late, Between
  <2> QED
    BY <2>1, <2>2, <2>3, <2>4
<1>5. CASE pc = MainLoop /\ pc' = pc /\ irq_mask = {}
  BY <1>3, <1>5 DEF InCall, Paced, BootPace, IdleLine, PairPace, SinglePace
<1>6. CASE /\ left = 0 /\ ~busy' /\ UNCHANGED <<pc, mtimecmp_lo, t2, mepc>>
           /\ phase = "boot" => phase' = "tick"
           /\ phase = "step" => IF s + 1 = StepsPerTick THEN phase' = "check"
                                ELSE phase' = "step" /\ s' = s + 1
  <2> USE <1>2, <1>3, <1>6 DEF InCall, Paced
  <2>1. StepsPerTick = 5
    BY DEF StepsPerTick
  <2>2. BootPace'
    BY <2>1 DEF BootPace, Between
  <2>3. IdleLine'
    BY <2>1 DEF IdleLine, Late, Between
  <2>4. PairPace'
    BY <2>1 DEF PairPace, Late, Between
  <2>5. SinglePace'
    BY <2>1 DEF SinglePace, Late, Between
  <2> QED
    BY <2>2, <2>3, <2>4, <2>5
<1> QED
  BY <1>1, <1>4, <1>5, <1>6, ExecEffects

LEMMA PacedStep ==
  ASSUME TypeOK, CallInv, BatchInv, Where, Main, Registers, Holds,
         Paced, bench = "zephyr_tb", [SysNext]_sysvars
  PROVE  Paced'
<1> USE DEF MainLoop, HandlerEnd, StoreNext, StoreCmpLo, LoadTime, LoadGpio, Handler
<1>1. CASE LoadFirmware
  <2>1. pc' = 0 /\ irq_mask' = {} /\ phase' = "reset"
    BY <1>1 DEF LoadFirmware, Main, RvInit, RvInitElf, FreshHart, LosesRam
  <2> QED
    BY <2>1 DEF Paced, BootPace, IdleLine, PairPace, SinglePace, Between
<1>2. CASE ResetHart
  BY <1>2 DEF ResetHart, RvReset, Main, Paced, BootPace, IdleLine, PairPace, SinglePace, Between
<1>3. CASE HoldReset
  <2>1. pc' = 0 /\ irq_mask' = {} /\ phase' = "boot" /\ ~busy'
    BY <1>3 DEF HoldReset, RvSetIrq, Main, call
  <2> QED
    BY <2>1 DEF Paced, BootPace, IdleLine, PairPace, SinglePace, Between
<1>4. CASE Posedge
  <2>1. /\ phase = "tick" /\ phase' = "step" /\ ~busy /\ ~busy' /\ mtime' = mtime + 1 /\ s' = 0
        /\ UNCHANGED <<pc, mtimecmp_lo, mtimecmp_hi, t2, step_batch, mepc, fired_at>>
    BY <1>4 DEF Posedge, RvSetIrq, call, csrs, options
  <2>2. irq_mask' = IF Truthful THEN {MTI} ELSE {}
    BY <1>4, LineAtEdge DEF Posedge, RvSetIrq
  <2>3. mtime \in Nat /\ fired_at \in Nat /\ mtimecmp_lo \in Nat /\ pc \in 0 .. 21
    BY DEF Holds, Where
  <2> USE <2>1, <2>2, <2>3, TimerAssumption DEF Paced
  <2>4. BootPace'
    <3>1. pc < MainLoop => ~Truthful
      BY NoOverflowAssumption DEF BootPace, Between, Truthful, Registers, StoreCmpHi
    <3> QED
      BY <3>1 DEF BootPace, Between
  <2>5. IdleLine'
    BY DEF IdleLine, Truthful
  <2>6. PairPace'
    BY DEF PairPace, Truthful, Late, Between
  <2>7. SinglePace'
    BY DEF SinglePace, Late, Between
  <2> QED
    BY <2>4, <2>5, <2>6, <2>7
<1>5. CASE CallStep
  BY <1>5, PacedCall
<1>6. CASE Execute \/ BusAccess
  BY <1>6, PacedExec
<1>7. CASE Check
  <2>1. /\ Between /\ Between' /\ phase # "step" /\ phase' \notin {"step", "boot"}
        /\ UNCHANGED <<vars, board, options, s, fired_at>>
    BY <1>7 DEF Check, Between
  <2>2. UNCHANGED <<pc, irq_mask, mepc, busy, left, mtime, mtimecmp_lo, mtimecmp_hi, t2,
                    step_batch, fired_at, s>>
    BY <2>1 DEF vars, call, csrs, board, timer, options
  <2> QED
    BY <2>1, <2>2 DEF Paced, BootPace, IdleLine, PairPace, SinglePace
<1>8. CASE UNCHANGED sysvars
  BY <1>8 DEF sysvars, vars, call, csrs, board, timer, harness, options,
     Paced, BootPace, IdleLine, PairPace, SinglePace, Late, Truthful, Between
<1> QED
  BY <1>1, <1>2, <1>3, <1>4, <1>5, <1>6, <1>7, <1>8 DEF SysNext

\* One call a cycle sees the line as it was just sampled.
SampledLine ==
  bench = "boot_tb" =>
    s = 0 /\ phase # "boot" /\ (phase = "step" /\ ~busy /\ irq_mask # {} => Truthful)

LEMMA SampledStep ==
  ASSUME TypeOK, CallInv, BatchInv, Where, Main, Registers, Holds, SampledLine, [SysNext]_sysvars
  PROVE  SampledLine'
<1> SUFFICES ASSUME bench' = "boot_tb"
             PROVE  /\ s' = 0 /\ phase' # "boot"
                    /\ phase' = "step" /\ ~busy' /\ irq_mask' # {} => Truthful'
  BY DEF SampledLine
<1>1. bench = "boot_tb"
  BY DEF SysNext, LoadFirmware, ResetHart, HoldReset, Posedge, CallStep, Execute, BusAccess,
         Check, Harnessed, AfterCall, harness, options, sysvars
<1>2. StepsPerTick = 1
  BY <1>1 DEF StepsPerTick
<1>3. CASE LoadFirmware \/ ResetHart \/ HoldReset
  BY <1>1, <1>3 DEF LoadFirmware, ResetHart, HoldReset, SampledLine
<1>4. CASE Posedge
  BY <1>4, LineAtEdge DEF Posedge, RvSetIrq, Truthful, Holds
<1>5. CASE CallStep \/ Execute \/ BusAccess
  BY <1>1, <1>2, <1>5, MainMoves DEF SampledLine, CallOver
<1>6. CASE Check
  BY <1>1, <1>6 DEF Check, SampledLine
<1>7. CASE UNCHANGED sysvars
  BY <1>1, <1>7 DEF sysvars, vars, call, board, timer, harness, SampledLine, Truthful
<1> QED
  BY <1>3, <1>4, <1>5, <1>6, <1>7 DEF SysNext

\* The state functions of PeriodicTick, by the firmware's position.
DeadlineIs == Deadline = IF pc <= StoreCmpHi THEN -1 ELSE mtimecmp_lo
RearmedIs == Rearmed = (pc \notin Handler .. StoreNext)

LEMMA TickState == BenchInv => DeadlineIs /\ RearmedIs
<1> SUFFICES ASSUME BenchInv PROVE DeadlineIs /\ RearmedIs
  OBVIOUS
<1>1. WordMod \in Nat /\ WordMod >= 3 /\ mtimecmp_lo \in Nat /\ Registers /\ Where
  BY NoOverflowAssumption, TimerAssumption DEF BenchInv, Holds
<1>2. DeadlineIs
  <2>1. CASE pc <= StoreCmpHi
    <3>1. mtimecmp_hi # 0
      BY <1>1, <2>1 DEF Registers
    <3> QED
      BY <2>1, <3>1 DEF Deadline, DeadlineIs
  <2>2. CASE ~(pc <= StoreCmpHi)
    BY <1>1, <2>2 DEF Deadline, mtimecmp, Registers, DeadlineIs
  <2> QED
    BY <2>1, <2>2
<1>3. RearmedIs
  <2>1. pc \in 0 .. HandlerEnd /\ (handler.active <=> pc >= Handler)
    BY <1>1 DEF Where
  <2>2. Rearmed <=> pc \notin Handler .. StoreNext
    BY <2>1 DEF Rearmed, StoreNext, Handler, HandlerEnd
  <2> QED
    BY <2>2 DEF Rearmed, RearmedIs
<1> QED
  BY <1>2, <1>3

LEMMA TickStateNext == BenchInv' => DeadlineIs' /\ RearmedIs'
  BY TickState, PTL

\* Every step of the bench is a step of PeriodicTick or leaves its state alone.
LEMMA TickMapped ==
  ASSUME TypeOK, CallInv, BenchInv, BenchInv', bench = "zephyr_tb" => Paced, SampledLine,
         [SysNext]_sysvars
  PROVE  [Abstract!Next]_(Abstract!vars)
<1> USE DEF MainLoop, Handler, HandlerEnd, StoreCmpHi, StoreNext
<1> DEFINE due(p, lo) == IF p <= StoreCmpHi THEN -1 ELSE lo
           armed(p) == p \notin Handler .. StoreNext
<1>1. /\ Deadline = due(pc, mtimecmp_lo) /\ Deadline' = due(pc', mtimecmp_lo')
      /\ Rearmed = armed(pc) /\ Rearmed' = armed(pc')
  BY TickState, TickStateNext DEF DeadlineIs, RearmedIs
<1>2. TypeOK /\ Where /\ Main /\ Registers /\ Holds /\ pc \in 0 .. 21 /\ pc' \in 0 .. 21
  BY DEF BenchInv, Where
<1>3. ASSUME UNCHANGED <<mtime, fired_at>>, due(pc, mtimecmp_lo) = due(pc', mtimecmp_lo'),
             armed(pc) = armed(pc')
      PROVE  UNCHANGED Abstract!vars
  BY <1>1, <1>3 DEF Abstract!vars
<1>4. CASE LoadFirmware \/ ResetHart \/ HoldReset
  <2>1. UNCHANGED <<mtime, fired_at, mtimecmp_lo>> /\ pc = 0 /\ pc' = 0
    BY <1>2, <1>4 DEF LoadFirmware, ResetHart, HoldReset, RvReset, RvSetIrq, Main, board, timer
  <2> QED
    BY <1>3, <2>1
<1>5. CASE Posedge
  <2>1. mtime < ClockTicks /\ mtime' = mtime + 1 /\ UNCHANGED <<pc, mtimecmp_lo, fired_at>>
    BY <1>5 DEF Posedge, RvSetIrq
  <2> QED
    BY <1>1, <2>1 DEF Abstract!Next, Abstract!Advance
<1>6. CASE CallStep
  <2>1. UNCHANGED <<mtime, mtimecmp_lo>>
    BY <1>6 DEF CallStep, board, timer
  <2>2. CASE StepRefused \/ StepStart(step_batch)
    <3>1. UNCHANGED <<pc, traps>>
      BY <2>2 DEF StepRefused, StepStart, history
    <3>2. fired_at' = fired_at
      BY <1>6, <3>1 DEF CallStep
    <3> QED
      BY <1>3, <2>1, <3>1, <3>2
  <2>3. CASE StepTrap
    <3>1. Enters
      BY <1>2, <2>3, Trapped
    <3>2. phase = "step"
      BY <1>2, <1>6, <3>1 DEF CallStep, Main, Enters
    <3>3. bench \in {"zephyr_tb", "boot_tb"}
      BY <1>2, TimerAssumption DEF Holds, options
    <3>4. Truthful
      BY <1>2, <3>1, <3>2, <3>3 DEF Paced, IdleLine, SampledLine, Enters, Late, Between
    <3>5. mtime >= due(pc, mtimecmp_lo) /\ due(pc, mtimecmp_lo) # -1 /\ armed(pc) /\ ~armed(pc')
          /\ due(pc', mtimecmp_lo') = due(pc, mtimecmp_lo)
      BY <1>2, <2>1, <3>1, <3>4 DEF Truthful, Enters, Holds
    <3>6. fired_at' = mtime
      BY <1>6, <3>1 DEF CallStep, Enters
    <3> QED
      BY <1>1, <2>1, <3>5, <3>6 DEF Abstract!Next, Abstract!Fire, Abstract!Expired, Abstract!Never
  <2> QED
    BY <1>6, <2>2, <2>3 DEF CallStep
<1>7. CASE Execute
  <2>1. UNCHANGED <<mtime, mtimecmp_lo, fired_at>>
    BY <1>7 DEF Execute, board, timer
  <2>2. GoesOn \/ SetsUp \/ EntersLoop \/ Sleeps \/ Ends
    BY <1>2, <1>7, Executes DEF Where
  <2>3. pc = 21 => mepc \in {11, 12}
    BY <1>2 DEF Where
  <2>4. \/ pc' = pc
        \/ pc \in {0, 1, 2, 5, 6, 7, 8, 9, 14, 17, 18, 19} /\ pc' = pc + 1
        \/ pc \in {10, 11, 12, 21} /\ pc' \in {11, 12}
    BY <2>2, <2>3 DEF GoesOn, SetsUp, EntersLoop, Sleeps, Ends, Returns
  <2> QED
    BY <1>3, <2>1, <2>4
<1>8. CASE BusAccess
  <2>1. pc \in {3, 4, 13, 15, 16, 20} /\ pc' = pc + 1
    BY <1>2, <1>8, Accesses
  <2>2. UNCHANGED <<mtime, fired_at>> /\ Access
    BY <1>8 DEF BusAccess
  <2>3. CASE pc \in {3, 13, 15, 16}
    BY <1>3, <2>1, <2>2, <2>3 DEF Access, StoreCmpLo, LoadGpio, StoreGpio, LoadTime
  <2>4. CASE pc = StoreCmpHi
    <3>1. mtimecmp_lo' = Period
      BY <1>2, <2>1, <2>2, <2>4 DEF Access, Registers, StoreCmpLo, LoadGpio, StoreGpio, LoadTime
    <3> QED
      BY <1>1, <2>1, <2>2, <2>4, <3>1 DEF Abstract!Next, Abstract!Program, Abstract!Never
  <2>5. CASE pc = StoreNext
    <3>1. t2 \in fired_at .. mtime /\ (t2 + Period) % WordMod = t2 + Period
      BY <1>2, <2>5, SmallMod, NoOverflowAssumption, TimerAssumption DEF Registers, Holds, LoadTime
    <3>2. mtimecmp_lo' = t2 + Period
      BY <2>2, <2>5, <3>1 DEF Access, NextDeadline, StoreCmpLo, LoadGpio, StoreGpio, LoadTime
    <3>3. Deadline' = t2 + Period
      BY <1>1, <2>1, <2>5, <3>2
    <3>4. ~armed(pc) /\ armed(pc')
      BY <2>1, <2>5
    <3>5. ~Rearmed /\ Rearmed' = TRUE
      BY <1>1, <3>4
    <3> QED
      BY <2>2, <3>1, <3>3, <3>5 DEF Abstract!Next, Abstract!Rearm
  <2> QED
    BY <2>1, <2>3, <2>4, <2>5
<1>9. CASE Check \/ UNCHANGED sysvars
  BY <1>3, <1>9 DEF Check, sysvars, vars, board, timer
<1> QED
  BY <1>4, <1>5, <1>6, <1>7, <1>8, <1>9 DEF SysNext

\* The schedule of either main loop.
SchedInv == (bench = "zephyr_tb" => Paced) /\ SampledLine

LEMMA SchedInvariant == SysSpec => [](TypeOK /\ CoreInv /\ BenchInv /\ SchedInv)
<1>1. SysInit => SchedInv
  <2> SUFFICES ASSUME SysInit PROVE SchedInv
    OBVIOUS
  <2>1. pc = 0 /\ irq_mask = {} /\ phase = "load" /\ s = 0
    BY DEF SysInit, Init
  <2> QED
    BY <2>1 DEF SchedInv, SampledLine, Paced, BootPace, IdleLine, PairPace, SinglePace,
       Between, MainLoop, Handler, StoreCmpLo
<1>2. TypeOK /\ CoreInv /\ BenchInv /\ SchedInv /\ [SysNext]_sysvars => SchedInv'
  <2> SUFFICES ASSUME TypeOK, CoreInv, BenchInv, SchedInv, [SysNext]_sysvars PROVE SchedInv'
    OBVIOUS
  <2>1. CallInv
    BY DEF CoreInv
  <2>2. bench' = bench
    BY DEF SysNext, LoadFirmware, ResetHart, HoldReset, Posedge, CallStep, Execute, BusAccess,
           Check, Harnessed, AfterCall, harness, options, sysvars
  <2>3. bench = "zephyr_tb" => Paced'
    BY <2>1, PacedStep DEF BenchInv, SchedInv
  <2> QED
    BY <2>1, <2>2, <2>3, SampledStep DEF BenchInv, SchedInv
<1> QED
  BY <1>1, <1>2, BenchInvariant, PTL DEF SysSpec

\* The timer of tb_top_zephyr.sv, the firmware and either main loop keep the
\* promise of PeriodicTick: no interrupt is taken on a line sampled before the
\* deadline was moved, for any period and any batch size.
THEOREM BenchKeepsPeriod == SysSpec => KeepsPeriod
<1>1. SysInit => Abstract!Init
  <2> SUFFICES ASSUME SysInit PROVE Abstract!Init
    OBVIOUS
  <2>1. BenchInv /\ pc = 0 /\ mtime = 0 /\ fired_at = 0
    BY BenchInvInit DEF SysInit, Init
  <2>2. Deadline = -1
    BY <2>1, TickState DEF DeadlineIs, StoreCmpHi
  <2>3. pc \notin Handler .. StoreNext
    BY <2>1 DEF Handler, StoreNext
  <2>4. Rearmed = TRUE
    BY <2>1, <2>3, TickState DEF RearmedIs
  <2> QED
    BY <2>1, <2>2, <2>4 DEF Abstract!Init, Abstract!Never
<1>2. /\ TypeOK /\ CoreInv /\ BenchInv /\ SchedInv /\ BenchInv' /\ [SysNext]_sysvars
      => [Abstract!Next]_(Abstract!vars)
  BY TickMapped DEF SchedInv, CoreInv
<1> QED
  BY <1>1, <1>2, SchedInvariant, PTL DEF SysSpec, KeepsPeriod, Abstract!Spec

-----------------------------------------------------------------------------
(* The same with batches large enough for the handler.                     *)

\* Five calls of at least three instructions: boot ends in the first cycle, and
\* every cycle ends asleep, with the deadline ahead.
RoomyPace ==
  /\ pc < MainLoop =>
       /\ phase = "boot" /\ busy => pc + left >= 3
       /\ phase = "step" => mtime = 1
       /\ phase = "step" /\ busy => pc + left >= 6 + 3 * s
       /\ phase = "step" /\ ~busy => pc >= 3 + 3 * s
       /\ phase = "tick" => pc >= 3
  /\ pc >= Handler =>
       /\ phase = "step" /\ mtime = fired_at /\ s >= 1
       /\ busy => pc + left >= Handler + 3 * s
       /\ ~busy => pc >= Handler + 3 * (s - 1)
  /\ pc = MainLoop =>
       /\ phase = "step" /\ busy => left >= 3 * s - 9
       /\ irq_mask = {} => mtime <= mtimecmp_lo
  /\ phase \in {"check", "done"} => wfi_sleep
  /\ phase = "tick" => wfi_sleep \/ mtime = 0

LEMMA RoomyPaceStep ==
  ASSUME TypeOK, CallInv, BatchInv, Where, Main, Registers, Holds, Paced, RoomyPace,
         bench = "zephyr_tb", step_batch >= 3, [SysNext]_sysvars
  PROVE  RoomyPace'
<1> USE DEF MainLoop, HandlerEnd, StoreNext, StoreCmpLo, LoadTime, LoadGpio, Handler
<1>1. IdleLine /\ pc \in 0 .. 21 /\ mtime \in Nat /\ mtimecmp_lo \in Nat /\ s \in 0 .. 4
      /\ step_batch \in Nat /\ fired_at \in Nat /\ left \in Nat
      /\ (wfi_sleep => pc = MainLoop /\ ~busy) /\ Period >= 2 /\ Period \in Nat
  BY TimerAssumption DEF Paced, Where, Holds, BatchInv, StepsPerTick, TypeOK
<1>2. CASE LoadFirmware
  <2>1. pc' = 0 /\ phase' = "reset"
    BY <1>2 DEF LoadFirmware
  <2> QED
    BY <2>1 DEF RoomyPace
<1>3. CASE ResetHart
  <2>1. pc' = 0 /\ phase' = "hold"
    BY <1>3 DEF ResetHart, RvReset
  <2> QED
    BY <2>1 DEF RoomyPace
<1>4. CASE HoldReset
  <2>1. pc' = 0 /\ phase' = "boot" /\ ~busy'
    BY <1>4 DEF HoldReset, RvSetIrq, Main, call
  <2> QED
    BY <2>1 DEF RoomyPace
<1>5. CASE Posedge
  <2>1. /\ phase = "tick" /\ phase' = "step" /\ ~busy' /\ mtime' = mtime + 1 /\ s' = 0
        /\ UNCHANGED <<pc, mtimecmp_lo>>
    BY <1>5 DEF Posedge, RvSetIrq, call, Main
  <2>2. irq_mask' = IF Truthful THEN {MTI} ELSE {}
    BY <1>5, LineAtEdge DEF Posedge, RvSetIrq
  <2>3. pc = MainLoop => mtimecmp_hi = 0
    BY DEF Registers, StoreCmpHi
  <2> QED
    BY <1>1, <2>1, <2>2, <2>3 DEF RoomyPace, Truthful
<1>6. CASE CallStep
  <2>1. UNCHANGED <<mtime, mtimecmp_lo, step_batch>> /\ ~busy /\ phase \in {"boot", "step"}
    BY <1>1, <1>6, CallEffects, MainMoves
  <2>2. CASE /\ pc = MainLoop /\ pc' = pc /\ irq_mask = {} /\ irq_mask' = {}
             /\ ~busy' /\ CallOver /\ wfi_sleep'
    BY <1>1, <2>1, <2>2 DEF RoomyPace, CallOver
  <2>3. CASE Enters /\ phase' = "step" /\ s' = 1 /\ fired_at' = mtime
    BY <1>1, <2>1, <2>3 DEF RoomyPace, Enters
  <2>4. CASE busy' /\ left' = step_batch /\ UNCHANGED <<phase, s, pc, irq_mask, mepc, fired_at>>
    BY <1>1, <2>1, <2>4 DEF RoomyPace
  <2> QED
    BY <1>1, <1>6, <2>2, <2>3, <2>4, CallEffects
<1>7. CASE Execute \/ BusAccess
  <2>1. InCall /\ phase \in {"boot", "step"} /\ (phase = "boot" => mtime = 0)
    BY <1>1, <1>7, ExecEffects, MainMoves DEF Main
  <2>2. CASE /\ left > 0 /\ busy' /\ left' = left - 1 /\ UNCHANGED <<phase, s, mepc>>
             /\ \/ /\ pc \in 0 .. HandlerEnd /\ pc \notin {MainLoop, MainLoop + 1, HandlerEnd}
                   /\ pc' = pc + 1
                \/ pc = HandlerEnd /\ pc' = mepc
             /\ mtimecmp_lo' = IF pc = StoreCmpLo THEN Period
                               ELSE IF pc = StoreNext THEN t2 + Period ELSE mtimecmp_lo
    <3> USE <1>1, <2>1, <2>2 DEF InCall
    <3>1. CASE pc = HandlerEnd
      <4>1. mepc = MainLoop /\ mtime <= mtimecmp_lo
        BY <3>1 DEF Paced, PairPace, RoomyPace
      <4> QED
        BY <3>1, <4>1 DEF RoomyPace
    <3>2. CASE pc = MainLoop - 1
      <4>1. mtimecmp_lo = Period
        BY <3>2 DEF Paced, BootPace
      <4> QED
        BY <3>2, <4>1 DEF RoomyPace
    <3>3. CASE pc \notin {MainLoop - 1, HandlerEnd}
      BY <3>3 DEF RoomyPace
    <3> QED
      BY <3>1, <3>2, <3>3
  <2>3. CASE pc = MainLoop /\ pc' = pc /\ irq_mask = {} /\ CallOver /\ ~busy' /\ wfi_sleep'
    <3>1. mtimecmp_lo' = mtimecmp_lo
      BY <1>7, <2>3, Accesses DEF Execute, board, timer, Where
    <3> QED
      BY <1>1, <2>1, <2>3, <3>1 DEF RoomyPace, InCall, CallOver
  <2>4. CASE /\ left = 0 /\ ~busy' /\ UNCHANGED <<pc, mtimecmp_lo, t2, mepc>>
             /\ phase = "boot" => phase' = "tick"
             /\ phase = "step" => IF s + 1 = StepsPerTick THEN phase' = "check"
                                  ELSE phase' = "step" /\ s' = s + 1
    <3>1. StepsPerTick = 5 /\ pc # MainLoop + 1
      BY <1>1 DEF StepsPerTick, IdleLine
    <3> QED
      BY <1>1, <2>1, <2>4, <3>1 DEF RoomyPace, InCall
  <2> QED
    BY <1>1, <1>7, <2>2, <2>3, <2>4, ExecEffects
<1>8. CASE Check
  <2>1. /\ phase = "check" /\ phase' \in {"tick", "done"} /\ pc = 11
        /\ UNCHANGED <<pc, irq_mask, busy, mtime, mtimecmp_lo, wfi_sleep>>
    BY <1>1, <1>8 DEF Check, vars, call, board, timer, RoomyPace
  <2> QED
    BY <1>1, <2>1 DEF RoomyPace
<1>9. CASE UNCHANGED sysvars
  BY <1>9 DEF sysvars, vars, call, csrs, board, timer, harness, RoomyPace
<1> QED
  BY <1>2, <1>3, <1>4, <1>5, <1>6, <1>7, <1>8, <1>9 DEF SysNext

\* One call of at least eight: a cycle takes the trap, the next runs the handler
\* up to its store of the deadline.
OncePace ==
  /\ pc < MainLoop =>
       /\ pc > StoreCmpLo => mtimecmp_lo = Period
       /\ phase = "step" => pc >= 8 * (mtime - 1)
       /\ phase = "step" /\ busy => pc + left >= 8 * mtime
       /\ Between => pc >= 8 * mtime
  /\ pc \in {MainLoop, MainLoop + 1} =>
       mtime <= mtimecmp_lo + (IF phase = "step" /\ ~busy /\ irq_mask # {} THEN 1 ELSE 0)
  /\ pc \in Handler .. StoreNext =>
       \/ pc = Handler /\ Between /\ mtime <= mtimecmp_lo + 1
       \/ pc = Handler /\ phase = "step" /\ ~busy
       \/ phase = "step" /\ busy /\ pc + left >= HandlerEnd
  /\ pc \in LoadTime + 1 .. StoreNext => t2 = mtime
  /\ pc = HandlerEnd =>
       /\ mtimecmp_lo = t2 + Period
       /\ mtime = t2 \/ (mtime = t2 + 1 /\ phase = "step" /\ ~Late)

LEMMA OncePaceStep ==
  ASSUME TypeOK, CallInv, BatchInv, Where, Main, Registers, Holds, SampledLine, OncePace,
         bench = "boot_tb", step_batch >= 8, [SysNext]_sysvars
  PROVE  OncePace'
<1> USE DEF MainLoop, HandlerEnd, StoreNext, StoreCmpLo, LoadTime, LoadGpio, Handler
<1>1. /\ pc \in 0 .. 21 /\ mtime \in Nat /\ mtimecmp_lo \in Nat /\ s = 0 /\ t2 \in Nat
      /\ step_batch \in Nat /\ left \in Nat /\ Period >= 2 /\ Period \in Nat
      /\ phase # "boot" /\ (phase = "step" => mtime >= 1)
  BY TimerAssumption DEF Where, Holds, BatchInv, StepsPerTick, TypeOK, SampledLine, Main
<1>2. CASE LoadFirmware
  <2>1. pc' = 0 /\ phase' = "reset"
    BY <1>2 DEF LoadFirmware
  <2> QED
    BY <2>1 DEF OncePace, Between
<1>3. CASE ResetHart
  <2>1. pc' = 0 /\ phase' = "hold"
    BY <1>3 DEF ResetHart, RvReset
  <2> QED
    BY <2>1 DEF OncePace, Between
<1>4. CASE HoldReset
  <2>1. pc' = 0 /\ phase' = "tick" /\ mtime' = 0
    BY <1>4 DEF HoldReset, RvSetIrq, Main, call, board, timer
  <2> QED
    BY <2>1 DEF OncePace, Between
<1>5. CASE Posedge
  <2>1. /\ phase = "tick" /\ phase' = "step" /\ ~busy /\ ~busy' /\ mtime' = mtime + 1
        /\ UNCHANGED <<pc, mtimecmp_lo, mtimecmp_hi, t2>>
    BY <1>5 DEF Posedge, RvSetIrq, call, Main
  <2>2. irq_mask' = IF Truthful THEN {MTI} ELSE {}
    BY <1>5, LineAtEdge DEF Posedge, RvSetIrq
  <2>3. pc > 4 => mtimecmp_hi = 0
    BY <1>1 DEF Registers, StoreCmpHi
  <2> QED
    BY <1>1, <2>1, <2>2, <2>3 DEF OncePace, Truthful, Between, Late
<1>6. CASE CallStep
  <2>1. UNCHANGED <<mtime, mtimecmp_lo, t2>> /\ ~busy /\ phase = "step"
    BY <1>1, <1>6 DEF CallStep, board, timer, StepRefused, StepTrap, TakeTrap, StepStart
  <2>2. ~busy' => phase' = "check"
    BY <1>1, <1>6, <2>1 DEF CallStep, Harnessed, AfterCall, StepsPerTick
  <2>3. pc \in {11, 12} /\ ~TakesIrq => irq_mask = {}
    <3> SUFFICES ASSUME pc \in {11, 12}, irq_mask # {} PROVE TakesIrq
      OBVIOUS
    <3>1. irq_mask = {MTI}
      BY TimerAssumption DEF TypeOK
    <3> QED
      BY <3>1 DEF TakesIrq, Enabled, Where
  <2>4. CASE StepRefused
    <3>1. initialized
      BY <2>1 DEF Main
    <3>2. pc = 11 /\ irq_mask = {}
      BY <2>3, <2>4, <3>1 DEF StepRefused, Where
    <3>3. ~busy' /\ pc' = pc
      BY <2>4 DEF StepRefused, Return
    <3> QED
      BY <1>1, <2>1, <2>2, <3>2, <3>3 DEF OncePace
  <2>5. CASE StepTrap
    <3>1. pc \in {11, 12} /\ pc' = 13 /\ ~busy'
      BY <2>5, Trapped DEF Enters
    <3> QED
      BY <1>1, <2>1, <2>2, <3>1 DEF OncePace, Between
  <2>6. CASE StepStart(step_batch)
    <3>1. busy' /\ left' = step_batch /\ UNCHANGED <<pc, irq_mask>> /\ ~TakesIrq
      BY <2>6 DEF StepStart
    <3>2. phase' = phase
      BY <1>6, <3>1 DEF CallStep, Harnessed, harness
    <3> QED
      BY <1>1, <2>1, <2>3, <3>1, <3>2 DEF OncePace, Between, Late
  <2> QED
    BY <1>6, <2>4, <2>5, <2>6 DEF CallStep
<1>7. CASE Execute
  <2>1. UNCHANGED <<mtime, mtimecmp_lo, t2>> /\ Harnessed
    BY <1>7 DEF Execute, board, timer
  <2>2. GoesOn \/ SetsUp \/ EntersLoop \/ Sleeps \/ Ends
    BY <1>7, Executes DEF Where
  <2>3. busy /\ phase = "step"
    BY <1>1, <2>2 DEF GoesOn, SetsUp, EntersLoop, Sleeps, Ends, Proceeds, Main
  <2>4. CASE GoesOn \/ SetsUp \/ EntersLoop
    <3>1. Proceeds
      BY <2>4 DEF GoesOn, SetsUp, EntersLoop
    <3>2. phase' = phase /\ busy' /\ left' = left - 1 /\ left > 0
      BY <2>1, <3>1 DEF Harnessed, harness, Proceeds
    <3>3. pc = 21 => mepc \in {11, 12}
      BY DEF Where
    <3>4. \/ pc \notin {3, 10, 11, 12, 16, 20, 21} /\ pc' = pc + 1
          \/ pc \in {10, 11, 12, 21} /\ pc' \in {11, 12}
      BY <2>4, <3>3 DEF GoesOn, SetsUp, EntersLoop
    <3> QED
      BY <1>1, <2>1, <2>3, <3>2, <3>4 DEF OncePace, Between, Late
  <2>5. CASE Sleeps \/ Ends
    <3>1. ~busy' /\ pc' = pc /\ (pc = 11 \/ left = 0)
      BY <2>5 DEF Sleeps, Ends, Returns
    <3>2. phase' = "check"
      BY <1>1, <2>1, <2>3, <3>1 DEF Harnessed, AfterCall, StepsPerTick
    <3> QED
      BY <1>1, <2>1, <2>3, <3>1, <3>2 DEF OncePace, Between, Late
  <2> QED
    BY <2>2, <2>4, <2>5
<1>8. CASE BusAccess
  <2>1. Proceeds /\ pc \in {3, 4, 13, 15, 16, 20} /\ pc' = pc + 1
    BY <1>8, Accesses DEF Where
  <2>2. UNCHANGED <<mtime, harness>> /\ Access
    BY <1>8 DEF BusAccess
  <2>3. phase' = phase /\ phase = "step" /\ busy /\ busy' /\ left' = left - 1 /\ left > 0
    BY <1>1, <2>1, <2>2 DEF Proceeds, harness, Main
  <2>4. mtime % WordMod = mtime /\ (t2 + Period) % WordMod = t2 + Period
    BY SmallMod, NoOverflowAssumption, TimerAssumption DEF Holds
  <2>5. /\ mtimecmp_lo' = IF pc = 3 THEN Period ELSE IF pc = 20 THEN t2 + Period ELSE mtimecmp_lo
        /\ t2' = IF pc = 16 THEN mtime ELSE IF pc = 13 THEN 0 ELSE t2
    BY <2>1, <2>2, <2>4 DEF Access, StoreCmpHi, StoreGpio, NextDeadline
  <2> QED
    BY <1>1, <2>1, <2>2, <2>3, <2>5 DEF OncePace, Between, Late
<1>9. CASE Check
  <2>1. /\ phase = "check" /\ phase' \in {"tick", "done"}
        /\ UNCHANGED <<pc, irq_mask, busy, left, mtime, mtimecmp_lo, t2>>
    BY <1>9 DEF Check, vars, call, board, timer
  <2> QED
    BY <1>1, <2>1 DEF OncePace, Between, Late
<1>10. CASE UNCHANGED sysvars
  BY <1>10 DEF sysvars, vars, call, csrs, board, timer, harness, OncePace, Between, Late
<1> QED
  BY <1>2, <1>3, <1>4, <1>5, <1>6, <1>7, <1>8, <1>9, <1>10 DEF SysNext

\* The schedule of either main loop with Roomy batches.
TimeInv ==
  /\ bench = "zephyr_tb" /\ step_batch >= 3 => RoomyPace
  /\ bench = "boot_tb" /\ step_batch >= 8 => OncePace

LEMMA TimeInvariant ==
  SysSpec => [](TypeOK /\ CoreInv /\ BenchInv /\ SchedInv /\ TimeInv)
<1>1. SysInit => TimeInv
  <2> SUFFICES ASSUME SysInit PROVE TimeInv
    OBVIOUS
  <2>1. pc = 0 /\ phase = "load"
    BY DEF SysInit, Init
  <2> QED
    BY <2>1 DEF TimeInv, RoomyPace, OncePace, Between, MainLoop, Handler, StoreCmpLo,
       StoreNext, LoadTime, HandlerEnd
<1>2. TypeOK /\ CoreInv /\ BenchInv /\ SchedInv /\ TimeInv /\ [SysNext]_sysvars => TimeInv'
  <2> SUFFICES ASSUME TypeOK, CoreInv, BenchInv, SchedInv, TimeInv, [SysNext]_sysvars PROVE TimeInv'
    OBVIOUS
  <2>1. CallInv
    BY DEF CoreInv
  <2>2. bench' = bench /\ step_batch' = step_batch
    BY DEF SysNext, LoadFirmware, ResetHart, HoldReset, Posedge, CallStep, Execute, BusAccess,
           Check, Harnessed, AfterCall, harness, options, sysvars
  <2>3. bench = "zephyr_tb" /\ step_batch >= 3 => RoomyPace'
    BY <2>1, RoomyPaceStep DEF BenchInv, SchedInv, TimeInv
  <2>4. bench = "boot_tb" /\ step_batch >= 8 => OncePace'
    BY <2>1, OncePaceStep DEF BenchInv, SchedInv, TimeInv
  <2> QED
    BY <2>2, <2>3, <2>4 DEF TimeInv
<1> QED
  BY <1>1, <1>2, SchedInvariant, PTL DEF SysSpec

\* With Roomy batches no clock edge comes later than the programmed deadline,
\* or one cycle later under rv32_dpi_zephyr_boot_tb.cpp's single call a cycle.
THEOREM BenchIsOnTime == SysSpec => []OnTime
<1>1. TypeOK /\ CoreInv /\ BenchInv /\ SchedInv /\ TimeInv => OnTime
  <2> SUFFICES ASSUME BenchInv, SchedInv, TimeInv, phase = "tick", Deadline # -1, Roomy
               PROVE  mtime <= Deadline + (IF bench = "zephyr_tb" THEN 0 ELSE 1)
    BY DEF OnTime
  <2>1. pc \in 5 .. 21 /\ Deadline = mtimecmp_lo /\ mtime \in Nat /\ mtimecmp_lo \in Nat
        /\ Period >= 2 /\ Period \in Nat /\ Between /\ step_batch \in Nat
    BY TickState, TimerAssumption
    DEF BenchInv, BatchInv, Where, Holds, DeadlineIs, StoreCmpHi, HandlerEnd, Handler, Between
  <2>2. bench \in {"zephyr_tb", "boot_tb"}
    BY TimerAssumption DEF BenchInv, Holds, options
  <2>3. CASE bench = "zephyr_tb"
    <3>1. RoomyPace /\ Paced /\ step_batch >= 3
      BY <2>3 DEF Roomy, TimeInv, SchedInv
    <3>2. CASE pc < MainLoop
      BY <2>1, <2>3, <3>1, <3>2 DEF Paced, BootPace, MainLoop, StoreCmpLo
    <3>3. CASE pc \in {MainLoop, MainLoop + 1}
      BY <2>1, <2>3, <3>1, <3>3 DEF Paced, IdleLine, RoomyPace, Between
    <3>4. CASE pc >= Handler
      BY <3>1, <3>4 DEF RoomyPace
    <3> QED
      BY <2>1, <3>2, <3>3, <3>4 DEF MainLoop, Handler
  <2>4. CASE bench = "boot_tb"
    <3>1. OncePace
      BY <2>4 DEF Roomy, TimeInv
    <3> QED
      BY <2>1, <2>4, <3>1
      DEF OncePace, MainLoop, Handler, StoreCmpLo, StoreNext, HandlerEnd, LoadTime
  <2> QED
    BY <2>2, <2>3, <2>4
<1> QED
  BY <1>1, TimeInvariant, PTL

\* Under rv32_dpi_zephyr_tb.cpp five calls of at least three instructions bring
\* the firmware to sleep before the next clock edge.
THEOREM BenchSleeps == SysSpec => []SleepsBeforeEdge
<1>1. TimeInv => SleepsBeforeEdge
  BY DEF TimeInv, RoomyPace, SleepsBeforeEdge, Roomy
<1> QED
  BY <1>1, TimeInvariant, PTL

-----------------------------------------------------------------------------
(* What PeriodicTick promises, for every period, and so the bench.         *)

LEMMA TickValues == Period \in Nat /\ ClockTicks \in Nat
  BY TimerAssumption, NoOverflowAssumption

LEMMA InitAhead == Abstract!Init => Abstract!DueAhead
  BY DEF Abstract!Init, Abstract!DueAhead, Abstract!Never

\* Every action keeps the deadline a period past the last interrupt.
LEMMA StepAhead == Abstract!DueAhead /\ [Abstract!Next]_(Abstract!vars) => Abstract!DueAhead'
<1> SUFFICES ASSUME Abstract!DueAhead, [Abstract!Next]_(Abstract!vars) PROVE Abstract!DueAhead'
  OBVIOUS
<1> USE TickValues DEF Abstract!DueAhead, Abstract!Never
<1>1. CASE Abstract!Advance
  BY <1>1 DEF Abstract!Advance
<1>2. CASE Abstract!Program
  \* The first deadline: nothing was served, or it would not be missing.
  BY <1>2 DEF Abstract!Program
<1>3. CASE Abstract!Fire
  BY <1>3 DEF Abstract!Fire, Abstract!Expired
<1>4. CASE Abstract!Rearm
  BY <1>4 DEF Abstract!Rearm
<1>5. CASE UNCHANGED Abstract!vars
  BY <1>5 DEF Abstract!vars
<1>6. QED
  BY <1>1, <1>2, <1>3, <1>4, <1>5 DEF Abstract!Next

\* Whatever keeps the promise of PeriodicTick has every deadline, once set, a
\* period past the last interrupt served.
THEOREM DeadlinesAhead == Abstract!Spec => []Abstract!DueAhead
<1>1. QED
  BY InitAhead, StepAhead, PTL DEF Abstract!Spec

\* The bench serves two interrupts at least a period apart, for any period, any
\* batch size and either main loop (firmware_timer.S, "for periodic tick").
THEOREM InterruptsAreSpaced == SysSpec => Abstract!Spaced
<1>1. Abstract!DueAhead /\ [Abstract!Next]_(Abstract!vars)
      => [Abstract!Fire => mtime >= fired_at + Period]_(Abstract!vars)
  BY TickValues DEF Abstract!DueAhead, Abstract!Fire, Abstract!Expired, Abstract!Never
<1>2. SysSpec => Abstract!Spec
  BY BenchKeepsPeriod DEF KeepsPeriod
<1>3. QED
  BY <1>1, <1>2, DeadlinesAhead, PTL DEF Abstract!Spec, Abstract!Spaced
=============================================================================
