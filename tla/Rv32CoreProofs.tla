--------------------------- MODULE Rv32CoreProofs ---------------------------
(***************************************************************************)
(* Proofs about Rv32Core, for every set of lines, memory size, batch       *)
(* bound, cycle-counter width and set of firmware images.                  *)
(***************************************************************************)
EXTENDS Rv32Core, WellFoundedInduction, TLAPS

-----------------------------------------------------------------------------
(* The operators the model is built from.                                  *)

\* Wrapping addition stays below the modulus.
LEMMA PlusType ==
  ASSUME NEW m \in Nat, NEW a \in 0 .. m - 1, NEW b \in 0 .. m
  PROVE  Plus(a, b, m) \in 0 .. m - 1
BY DEF Plus

\* ctz32 of a mask that is not zero is one of its bits.
LEMMA LowestMember ==
  ASSUME NEW mask \in SUBSET Bits, mask # {}
  PROVE  Lowest(mask) \in mask
<1>1. mask \subseteq Nat
  BY BitsAssumption
<1>2. PICK c \in mask : \A d \in mask : <<d, c>> \notin OpToRel(<, Nat)
  BY <1>1, NatLessThanWellFounded, WFMin
<1>3. ASSUME NEW d \in mask  PROVE c <= d
  <2>1. c \in Nat /\ d \in Nat
    BY <1>1
  <2>2. <<d, c>> \in OpToRel(<, Nat) <=> d < c
    BY <2>1, Zenon DEF OpToRel
  <2>3. ~ (d < c)
    BY <1>2, <2>2, Zenon
  <2>4. QED
    BY <2>1, <2>3
<1>4. QED
  BY <1>3 DEF Lowest

\* Where a trap goes is an address.
LEMMA TrapTargetType ==
  ASSUME NEW cause \in Lines, mtvec \in Mtvec
  PROVE  TrapTarget(cause) \in Addr
<1>1. SlotMod \in Nat /\ cause \in 0 .. SlotMod - 1 /\ mtvec.base \in 0 .. SlotMod - 1
  BY SlotAssumption DEF Mtvec, Addr
<1>2. QED
  BY <1>1 DEF TrapTarget, Addr, Plus

\* The next slot is an address.
LEMMA NextSlotType ==
  ASSUME NEW a \in Addr
  PROVE  NextSlot(a) \in Addr
BY SlotAssumption DEF NextSlot, Addr, Plus

\* A CSR write of a bit operand gives a set of bits.
LEMMA CsrBitsType ==
  ASSUME NEW old \in SUBSET Bits, NEW val \in SUBSET Bits,
         NEW f3 \in {"write", "set", "clear"}
  PROVE  CsrBits(old, f3, val) \in SUBSET Bits
BY DEF CsrBits

-----------------------------------------------------------------------------
(* Facts several actions share.                                            *)

\* While the loop runs, the slot at pc holds an instruction.
LEMMA FetchedInsn ==
  ASSUME TypeOK, CallInv, Running
  PROVE  /\ ram \in Firmware /\ pc \in Ram
         /\ ram[pc] \in Insn /\ ram[pc].to \in Addr /\ ram[pc].val \in SUBSET Bits
         /\ ram[pc].f3 \in {"write", "set", "clear"}
<1>1. ram \in Firmware /\ pc \in Ram
  BY DEF TypeOK, CallInv, Running, Fetchable
<1>2. ram \in [Ram -> Insn]
  BY <1>1, FirmwareAssumption
<1>3. ram[pc] \in Insn
  BY <1>1, <1>2
<1>4. QED
  BY <1>1, <1>3 DEF Insn

\* What retiring an instruction does to the counts.
LEMMA RetireCounts ==
  ASSUME TypeOK, CallInv, Running, NEW next \in Addr, Retire(next)
  PROVE  /\ pc' \in Addr /\ initialized' = initialized /\ ram' = ram
         /\ busy' /\ busy /\ initialized /\ ~wfi_sleep /\ stalled' = stalled
         /\ busy' \in BOOLEAN /\ stalled' \in BOOLEAN
         /\ left' \in 0 .. MaxBatch /\ executed' \in 1 .. MaxBatch
         /\ left' + executed' \in 1 .. MaxBatch
         /\ executed \in 0 .. MaxBatch - 1 /\ executed' = executed + 1
         /\ mcycle' \in 0 .. CycleMod - 1 /\ mcycle' = Plus(mcycle, 1, CycleMod)
         /\ returned' = returned /\ traps' = traps
<1>1. /\ left \in 1 .. MaxBatch /\ executed \in 0 .. MaxBatch
      /\ left + executed \in 1 .. MaxBatch
      /\ MaxBatch \in Nat /\ CycleMod \in Nat /\ 1 \in 0 .. CycleMod
      /\ mcycle \in 0 .. CycleMod - 1
  BY BatchAssumption DEF TypeOK, CallInv, Running
<1>2. Plus(mcycle, 1, CycleMod) \in 0 .. CycleMod - 1
  BY <1>1, PlusType
<1>3. /\ left' = left - 1 /\ executed' = executed + 1
      /\ mcycle' = Plus(mcycle, 1, CycleMod) /\ pc' = next
      /\ UNCHANGED <<initialized, ram, busy, returned, traps, stalled>>
  BY DEF Retire
<1>4. /\ left' \in 0 .. MaxBatch /\ executed' \in 1 .. MaxBatch
      /\ left' + executed' \in 1 .. MaxBatch /\ executed \in 0 .. MaxBatch - 1
  BY <1>1, <1>3
<1>5. busy /\ initialized /\ ~wfi_sleep
  BY DEF CallInv, Running
<1>6. QED
  BY <1>2, <1>3, <1>4, <1>5 DEF TypeOK

\* What returning from rv_step does to the counts.
LEMMA ReturnCounts ==
  ASSUME TypeOK, NEW n \in 0 .. MaxBatch, Return(n)
  PROVE  /\ ~busy' /\ busy' \in BOOLEAN /\ left' = 0 /\ executed' = 0
         /\ left' \in 0 .. MaxBatch /\ executed' \in 0 .. MaxBatch
         /\ returned' \in 0 .. CycleMod - 1 /\ stalled' \in BOOLEAN
<1>1. /\ n \in 0 .. CycleMod /\ CycleMod \in Nat /\ MaxBatch \in Nat
      /\ returned \in 0 .. CycleMod - 1
  BY BatchAssumption DEF TypeOK
<1>2. Plus(returned, n, CycleMod) \in 0 .. CycleMod - 1
  BY <1>1, PlusType
<1>3. stalled' \in BOOLEAN
  BY Zenon DEF Return
<1>4. /\ busy' = FALSE /\ left' = 0 /\ executed' = 0
      /\ returned' = Plus(returned, n, CycleMod)
  BY DEF Return
<1>5. ~busy' /\ busy' \in BOOLEAN
  BY <1>4
<1>6. left' \in 0 .. MaxBatch /\ executed' \in 0 .. MaxBatch
  BY <1>1, <1>4
<1>7. QED
  BY <1>2, <1>3, <1>4, <1>5, <1>6, Zenon

-----------------------------------------------------------------------------
(* Type correctness, together with what holds of a call in progress.       *)

\* The calls that set the hart up.
LEMMA SetupTyped ==
  ASSUME TypeOK, CallInv, Setup
  PROVE  TypeOK' /\ CallInv'
<1>1. ASSUME NEW image \in Firmware, FreshHart(image), ~busy, pc' \in Addr,
             htif_halted' \in BOOLEAN
      PROVE  TypeOK' /\ CallInv'
  <2>1. NoHandler \in [active: BOOLEAN, at: Addr]
    BY SlotAssumption, RamAssumption DEF NoHandler, Addr
  <2>2. TypeOK'
    BY <1>1, <2>1 DEF FreshHart, TypeOK, call
  <2>3. CallInv'
    BY <1>1, FirmwareAssumption DEF FreshHart, TypeOK, CallInv, call
  <2>4. QED
    BY <2>2, <2>3
<1>2. ASSUME LosesRam, ~busy, htif_halted' \in BOOLEAN
      PROVE  TypeOK' /\ CallInv'
  BY <1>2 DEF LosesRam, TypeOK, CallInv, call, csrs
<1>3. 0 \in Addr
  BY SlotAssumption, RamAssumption DEF Addr
<1>4. CASE RvInit
  BY <1>1, <1>2, <1>3, <1>4 DEF RvInit, TypeOK
<1>5. CASE RvInitElf
  <2>1. ~busy /\ htif_halted' \in BOOLEAN
    BY <1>5 DEF RvInitElf
  <2>2. ASSUME stalled' = FALSE,
               UNCHANGED <<initialized, ram, pc, irq_mask, wfi_sleep, csrs, mcycle,
                           call, returned, traps, handler>>
        PROVE  TypeOK' /\ CallInv'
    BY <2>1, <2>2 DEF TypeOK, CallInv, call, csrs
  <2>3. QED
    BY <1>1, <1>2, <1>5, <2>1, <2>2 DEF RvInitElf
<1>6. ASSUME NEW image \in Firmware, RvSetRam(image)
      PROVE  TypeOK' /\ CallInv'
  <2>1. TypeOK'
    BY <1>6 DEF RvSetRam, TypeOK, call, csrs
  <2>2. CallInv'
    BY <1>6, FirmwareAssumption DEF RvSetRam, TypeOK, CallInv, call
  <2>3. QED
    BY <2>1, <2>2
<1>7. ASSUME NEW image \in Firmware, RvLoadElf(image)
      PROVE  TypeOK' /\ CallInv'
  <2>1. TypeOK'
    BY <1>7 DEF RvLoadElf, TypeOK, call, csrs
  <2>2. CallInv'
    BY <1>7, FirmwareAssumption DEF RvLoadElf, TypeOK, CallInv, call
  <2>3. QED
    BY <2>1, <2>2
<1>8. ASSUME NEW start \in Addr, RvReset(start)
      PROVE  TypeOK' /\ CallInv'
  <2>1. NoHandler \in [active: BOOLEAN, at: Addr] /\ 0 \in 0 .. CycleMod - 1
    BY <1>3, BatchAssumption DEF NoHandler
  <2>2. TypeOK'
    BY <1>8, <2>1 DEF RvReset, TypeOK, call
  <2>3. CallInv'
    BY <1>8 DEF RvReset, CallInv, call
  <2>4. QED
    BY <2>2, <2>3
<1>9. QED
  BY <1>4, <1>5, <1>6, <1>7, <1>8 DEF Setup

\* rv_set_irq and the entry and return of rv_step.
LEMMA CallTyped ==
  ASSUME TypeOK, CallInv,
         (\E mask \in SUBSET Lines : RvSetIrq(mask)) \/ RvStep \/ StepEnd
  PROVE  TypeOK' /\ CallInv'
<1>1. ASSUME NEW mask \in SUBSET Lines, RvSetIrq(mask)
      PROVE  TypeOK' /\ CallInv'
  BY <1>1 DEF RvSetIrq, TypeOK, CallInv, call, csrs
<1>2. CASE StepRefused
  <2>1. 0 \in 0 .. MaxBatch
    BY BatchAssumption
  <2>2. Return(0)
    BY <1>2 DEF StepRefused
  <2>3. TypeOK'
    BY <1>2, <2>1, <2>2, ReturnCounts DEF StepRefused, TypeOK, csrs
  <2>4. CallInv'
    BY <1>2, <2>1, <2>2, ReturnCounts DEF StepRefused, CallInv
  <2>5. QED
    BY <2>3, <2>4
<1>3. CASE StepTrap
  <2>1. 1 \in 0 .. MaxBatch /\ 1 \in 0 .. CycleMod /\ CycleMod \in Nat
    BY BatchAssumption
  <2>2. Return(1)
    BY <1>3 DEF StepTrap, TakeTrap
  <2>3. Enabled \in SUBSET Bits /\ Enabled \in SUBSET Lines /\ Enabled # {}
    BY <1>3, LinesAssumption DEF StepTrap, TakeTrap, TakesIrq, Enabled, TypeOK
  <2>4. Lowest(Enabled) \in Lines
    BY <2>3, LowestMember
  <2>5. /\ mcause' \in Nat /\ mcause' = Lowest(Enabled)
        /\ irq_mask' \in SUBSET Lines
        /\ pc' \in Addr
    <3>1. TrapTarget(Lowest(Enabled)) \in Addr
      BY <2>4, TrapTargetType DEF TypeOK
    <3>2. Lines \subseteq Nat
      BY LinesAssumption, BitsAssumption
    <3>3. QED
      BY <1>3, <2>4, <3>1, <3>2 DEF StepTrap, TakeTrap, TypeOK
  <2>6. traps' \in 0 .. CycleMod - 1
    BY <1>3, <2>1, PlusType DEF StepTrap, TakeTrap, TypeOK
  <2>7. /\ ~busy' /\ busy' \in BOOLEAN /\ left' = 0 /\ executed' = 0
        /\ left' \in 0 .. MaxBatch /\ executed' \in 0 .. MaxBatch
        /\ returned' \in 0 .. CycleMod - 1 /\ stalled' \in BOOLEAN
    BY <2>1, <2>2, ReturnCounts
  <2>8. TypeOK'
    BY <1>3, <2>5, <2>6, <2>7 DEF StepTrap, TakeTrap, TypeOK
  <2>9. CallInv'
    BY <1>3, <2>7 DEF StepTrap, TakeTrap, CallInv
  <2>10. QED
    BY <2>8, <2>9
<1>4. ASSUME NEW max \in 1 .. MaxBatch, StepStart(max)
      PROVE  TypeOK' /\ CallInv'
  <2>1. MaxBatch \in Nat /\ 0 \in 0 .. MaxBatch
    BY BatchAssumption
  <2>2. TypeOK'
    BY <1>4, <2>1 DEF StepStart, TypeOK, csrs, history
  <2>3. ~TakesIrq'
    BY <1>4 DEF StepStart, TakesIrq, Enabled, csrs
  <2>4. CallInv'
    <3>1. initialized' /\ ~wfi_sleep' /\ busy' /\ executed' = 0 /\ left' = max
      BY <1>4 DEF StepStart
    <3>2. initialized' <=> ram' # NoRam
      BY <1>4 DEF StepStart, CallInv
    <3>3. left' + executed' \in 1 .. MaxBatch
      BY <2>1, <3>1
    <3>4. QED
      BY <2>3, <3>1, <3>2, <3>3 DEF CallInv
  <2>5. QED
    BY <2>2, <2>4
<1>5. CASE StepEnd
  <2>1. executed \in 0 .. MaxBatch /\ Return(executed)
    BY <1>5 DEF StepEnd, TypeOK
  <2>2. TypeOK'
    BY <1>5, <2>1, ReturnCounts DEF StepEnd, TypeOK, csrs
  <2>3. CallInv'
    BY <1>5, <2>1, ReturnCounts DEF StepEnd, CallInv
  <2>4. QED
    BY <2>2, <2>3
<1>6. CASE StepNone
  <2>1. TakesIrq' <=> TakesIrq
    BY <1>6 DEF StepNone, vars, csrs, TakesIrq, Enabled
  <2>2. QED
    BY <1>6, <2>1 DEF StepNone, vars, csrs, call, history, TypeOK, CallInv
<1>7. QED
  BY <1>1, <1>2, <1>3, <1>4, <1>5, <1>6 DEF RvStep

\* The instructions.
LEMMA ExecTyped ==
  ASSUME TypeOK, CallInv, Exec
  PROVE  TypeOK' /\ CallInv'
<1>1. ASSUME Running, NEW next \in Addr, Retire(next), wfi_sleep' = wfi_sleep
      PROVE  CallInv'
  BY <1>1, RetireCounts DEF CallInv
<1>2. CASE ExecPlain
  <2>1. PICK next \in Addr : Running /\ Retire(next)
    BY <1>2, FetchedInsn, NextSlotType DEF ExecPlain, Insns, TypeOK
  <2>2. TypeOK'
    BY <1>2, <2>1, RetireCounts DEF ExecPlain, TypeOK, csrs
  <2>3. CallInv'
    BY <1>1, <1>2, <2>1 DEF ExecPlain
  <2>4. QED
    BY <2>2, <2>3
<1>3. CASE ExecMmio
  <2>1. Running /\ NextSlot(pc) \in Addr /\ Retire(NextSlot(pc))
    BY <1>3, NextSlotType DEF ExecMmio, Insns, TypeOK
  <2>2. TypeOK'
    BY <1>3, <2>1, RetireCounts DEF ExecMmio, TypeOK, csrs
  <2>3. CallInv'
    BY <1>1, <1>3, <2>1 DEF ExecMmio
  <2>4. QED
    BY <2>2, <2>3
<1>4. CASE ExecExit
  <2>1. Running /\ NextSlot(pc) \in Addr /\ Retire(NextSlot(pc))
    BY <1>4, NextSlotType DEF ExecExit, Insns, TypeOK
  <2>2. TypeOK'
    BY <1>4, <2>1, RetireCounts DEF ExecExit, TypeOK, csrs
  <2>3. CallInv'
    BY <1>1, <1>4, <2>1 DEF ExecExit
  <2>4. QED
    BY <2>2, <2>3
<1>5. CASE ExecMret
  <2>1. Running /\ mepc \in Addr /\ Retire(mepc)
    BY <1>5 DEF ExecMret, Insns, TypeOK
  <2>2. NoHandler \in [active: BOOLEAN, at: Addr] /\ mstatus' \in SUBSET Bits
    BY <1>5, SlotAssumption, RamAssumption, BitsAssumption
       DEF ExecMret, NoHandler, Addr, TypeOK
  <2>3. TypeOK'
    BY <1>5, <2>1, <2>2, RetireCounts DEF ExecMret, TypeOK
  <2>4. CallInv'
    BY <1>1, <1>5, <2>1 DEF ExecMret
  <2>5. QED
    BY <2>3, <2>4
<1>6. CASE ExecWfi
  <2>1. CASE Retire(NextSlot(pc)) /\ UNCHANGED wfi_sleep
    <3>1. Running /\ NextSlot(pc) \in Addr
      BY <1>6, NextSlotType DEF ExecWfi, Insns, TypeOK
    <3>2. TypeOK'
      BY <1>6, <2>1, <3>1, RetireCounts DEF ExecWfi, TypeOK, csrs
    <3>3. CallInv'
      BY <1>1, <2>1, <3>1
    <3>4. QED
      BY <3>2, <3>3
  <2>2. CASE /\ wfi_sleep' = TRUE /\ Return(executed)
             /\ UNCHANGED <<initialized, ram, pc, mcycle, traps>>
    <3>1. executed \in 0 .. MaxBatch
      BY DEF TypeOK
    <3>2. TypeOK'
      BY <1>6, <2>2, <3>1, ReturnCounts DEF ExecWfi, TypeOK, csrs
    <3>3. CallInv'
      BY <2>2, <3>1, ReturnCounts DEF CallInv
    <3>4. QED
      BY <3>2, <3>3
  <2>3. QED
    BY <1>6, <2>1, <2>2 DEF ExecWfi
<1>7. CASE ExecCsr
  <2>1. Running /\ NextSlot(pc) \in Addr /\ Retire(NextSlot(pc))
    BY <1>7, NextSlotType DEF ExecCsr, Insns, TypeOK
  <2>2. /\ mstatus' \in SUBSET Bits /\ mie' \in SUBSET Bits
    BY <1>7, <2>1, FetchedInsn, CsrBitsType DEF ExecCsr, TypeOK
  <2>3. /\ mepc' \in Addr /\ mcause' \in Nat
    BY <1>7, <2>1, FetchedInsn, SlotAssumption DEF ExecCsr, TypeOK, Addr
  <2>4. mtvec' \in Mtvec
    <3>1. [base |-> ram[pc].to, vectored |-> ram[pc].val # {}] \in Mtvec
      BY <2>1, FetchedInsn DEF Mtvec
    <3>2. QED
      BY <1>7, <3>1 DEF ExecCsr, TypeOK
  <2>5. handler' \in [active: BOOLEAN, at: Addr]
    BY <1>7, SlotAssumption, RamAssumption DEF ExecCsr, NoHandler, Addr, TypeOK
  <2>6. TypeOK'
    BY <1>7, <2>1, <2>2, <2>3, <2>4, <2>5, RetireCounts DEF ExecCsr, TypeOK
  <2>7. CallInv'
    BY <1>1, <1>7, <2>1 DEF ExecCsr
  <2>8. QED
    BY <2>6, <2>7
<1>8. QED
  BY <1>2, <1>3, <1>4, <1>5, <1>6, <1>7 DEF Exec

\* So it starts.
LEMMA HartTypeInit == Init => TypeOK /\ CallInv
<1> SUFFICES ASSUME Init PROVE TypeOK /\ CallInv
  OBVIOUS
<1>1. /\ 0 \in Addr /\ 0 \in 0 .. CycleMod - 1 /\ 0 \in 0 .. MaxBatch
      /\ NoHandler \in [active: BOOLEAN, at: Addr]
      /\ [base |-> 0, vectored |-> FALSE] \in Mtvec
  BY SlotAssumption, RamAssumption, BatchAssumption DEF Addr, NoHandler, Mtvec
<1>2. TypeOK
  BY <1>1 DEF Init, TypeOK
<1>3. CallInv
  BY DEF Init, CallInv
<1>4. QED
  BY <1>2, <1>3

\* Every step keeps the types.
LEMMA HartTypeStep ==
  ASSUME TypeOK, CallInv, [Next]_vars
  PROVE  TypeOK' /\ CallInv'
<1>2. CASE UNCHANGED vars
  <2>1. TypeOK'
    BY <1>2 DEF vars, csrs, call, history, TypeOK
  <2>2. TakesIrq' <=> TakesIrq
    BY <1>2 DEF vars, csrs, TakesIrq, Enabled
  <2>3. CallInv'
    BY <1>2, <2>2 DEF vars, call, CallInv
  <2>4. QED
    BY <2>1, <2>3
<1>3. CASE Setup
  BY <1>3, SetupTyped
<1>4. CASE (\E mask \in SUBSET Lines : RvSetIrq(mask)) \/ RvStep \/ StepEnd
  BY <1>4, CallTyped
<1>5. CASE Exec
  BY <1>5, ExecTyped
<1>6. QED
  BY <1>2, <1>3, <1>4, <1>5, Zenon DEF Next

\* The simulator's state keeps its types, and a call in progress its bounds,
\* through every harness call, trap and instruction.
THEOREM TypeCorrect == Spec => [](TypeOK /\ CallInv)
<1>1. Init => TypeOK /\ CallInv
  BY HartTypeInit
<1>2. TypeOK /\ CallInv /\ [Next]_vars => TypeOK' /\ CallInv'
  BY HartTypeStep
<1>3. QED
  BY <1>1, <1>2, PTL DEF Spec

-----------------------------------------------------------------------------
(* The account of what rv_step returned.                                   *)

\* Wrapping addition commutes with a step of either summand.
LEMMA PlusStep ==
  ASSUME NEW m \in Nat \ {0, 1}, NEW a \in 0 .. m - 1, NEW b \in 0 .. m - 1
  PROVE  /\ Plus(Plus(a, 1, m), b, m) = Plus(Plus(a, b, m), 1, m)
         /\ Plus(a, Plus(b, 1, m), m) = Plus(Plus(a, b, m), 1, m)
         /\ b + 1 \in 0 .. m - 1 => Plus(a, b + 1, m) = Plus(Plus(a, b, m), 1, m)
         /\ Plus(a, 0, m) = a
BY DEF Plus

\* A step that leaves the counts alone leaves the account alone.
LEMMA SameAccount ==
  ASSUME ReturnsAccount, UNCHANGED <<returned, executed, mcycle, traps>>
  PROVE  ReturnsAccount'
BY DEF ReturnsAccount

\* Every step keeps the account.
LEMMA AccountStep ==
  ASSUME TypeOK, CallInv, ReturnsAccount, [Next]_vars
  PROVE  ReturnsAccount'
<1>1. /\ CycleMod \in Nat \ {0, 1} /\ MaxBatch < CycleMod /\ MaxBatch \in Nat
      /\ returned \in 0 .. CycleMod - 1 /\ traps \in 0 .. CycleMod - 1
      /\ mcycle \in 0 .. CycleMod - 1
      /\ executed \in 0 .. MaxBatch /\ executed \in 0 .. CycleMod - 1
  BY BatchAssumption DEF TypeOK
<1>2. ASSUME Running, NEW next \in Addr, Retire(next)
      PROVE  ReturnsAccount'
  <2>1. /\ executed + 1 \in 0 .. CycleMod - 1 /\ executed' = executed + 1
        /\ mcycle' = Plus(mcycle, 1, CycleMod)
        /\ returned' = returned /\ traps' = traps
    BY <1>1, <1>2, RetireCounts
  <2>2. Plus(returned, executed + 1, CycleMod)
          = Plus(Plus(returned, executed, CycleMod), 1, CycleMod)
    BY <1>1, <2>1, PlusStep
  <2>3. Plus(Plus(mcycle, 1, CycleMod), traps, CycleMod)
          = Plus(Plus(mcycle, traps, CycleMod), 1, CycleMod)
    BY <1>1, PlusStep
  <2>4. QED
    BY <2>1, <2>2, <2>3 DEF ReturnsAccount
<1>3. ASSUME Return(executed), UNCHANGED <<mcycle, traps>>
      PROVE  ReturnsAccount'
  <2>1. returned' = Plus(returned, executed, CycleMod) /\ executed' = 0
    BY <1>3 DEF Return
  <2>2. Plus(returned, executed, CycleMod) \in 0 .. CycleMod - 1
    BY <1>1, PlusType
  <2>3. Plus(returned', executed', CycleMod) = Plus(returned, executed, CycleMod)
    BY <1>1, <2>1, <2>2, PlusStep
  <2>4. QED
    BY <1>3, <2>3 DEF ReturnsAccount
<1>4. CASE Setup
  <2>1. CASE UNCHANGED <<returned, executed, mcycle, traps>>
    BY <2>1, SameAccount
  <2>2. ASSUME NEW start \in Addr, RvReset(start)
        PROVE  ReturnsAccount'
    <3>1. returned' = 0 /\ executed' = 0 /\ mcycle' = 0 /\ traps' = 0
      BY <2>2 DEF RvReset, CallInv, call
    <3>2. QED
      BY <3>1 DEF ReturnsAccount
  <2>3. QED
    BY <1>4, <2>1, <2>2
       DEF Setup, RvInit, RvInitElf, RvSetRam, RvLoadElf, FreshHart, LosesRam, call
<1>5. ASSUME NEW mask \in SUBSET Lines, RvSetIrq(mask)
      PROVE  ReturnsAccount'
  BY <1>5, SameAccount DEF RvSetIrq, call
<1>6. CASE StepRefused
  <2>1. executed = 0
    BY <1>6 DEF StepRefused, CallInv
  <2>2. QED
    BY <1>3, <1>6, <2>1 DEF StepRefused
<1>7. CASE StepTrap
  <2>1. /\ executed = 0 /\ executed' = 0 /\ mcycle' = mcycle
        /\ returned' = Plus(returned, 1, CycleMod)
        /\ traps' = Plus(traps, 1, CycleMod)
    BY <1>7 DEF StepTrap, TakeTrap, CallInv, Return
  <2>2. Plus(returned, 1, CycleMod) \in 0 .. CycleMod - 1
    BY <1>1, PlusType
  <2>3. Plus(returned', executed', CycleMod) = Plus(returned, 1, CycleMod)
    BY <1>1, <2>1, <2>2, PlusStep
  <2>4. Plus(mcycle, Plus(traps, 1, CycleMod), CycleMod)
          = Plus(Plus(mcycle, traps, CycleMod), 1, CycleMod)
    BY <1>1, PlusStep
  <2>5. Plus(returned, 0, CycleMod) = returned
    BY <1>1, PlusStep
  <2>6. QED
    BY <2>1, <2>3, <2>4, <2>5 DEF ReturnsAccount
<1>8. ASSUME NEW max \in 1 .. MaxBatch, StepStart(max)
      PROVE  ReturnsAccount'
  <2>1. executed = 0 /\ executed' = 0
    BY <1>8 DEF StepStart, CallInv
  <2>2. QED
    BY <1>8, <2>1, SameAccount DEF StepStart, history
<1>9. CASE Exec
  <2>1. Running
    BY <1>9 DEF Exec, ExecPlain, ExecMmio, ExecExit, ExecMret, ExecWfi, ExecCsr, Insns
  <2>2. NextSlot(pc) \in Addr /\ mepc \in Addr /\ ram[pc].to \in Addr
    BY <2>1, NextSlotType, FetchedInsn DEF TypeOK
  <2>3. CASE \E next \in Addr : Retire(next)
    BY <1>2, <2>1, <2>3
  <2>4. CASE Return(executed) /\ UNCHANGED <<mcycle, traps>>
    BY <1>3, <2>4
  <2>5. QED
    BY <1>9, <2>2, <2>3, <2>4
       DEF Exec, ExecPlain, ExecMmio, ExecExit, ExecMret, ExecWfi, ExecCsr
<1>10. CASE StepEnd
  BY <1>3, <1>10 DEF StepEnd
<1>11. CASE UNCHANGED vars
  BY <1>11, SameAccount DEF vars, call, history
<1>12. QED
  BY <1>4, <1>5, <1>6, <1>7, <1>8, <1>9, <1>10, <1>11 DEF Next, RvStep, StepNone

-----------------------------------------------------------------------------
(* The running handler, and the hart that can do no more.                  *)

\* Only a trap starts a handler, and it closes MIE and saves pc as it does; only
\* the firmware's own CSR writes, MRET and the set-up calls end it.
LEMMA HandlerStep ==
  ASSUME TypeOK, HandlerInv, [Next]_vars
  PROVE  HandlerInv'
<1>1. CASE UNCHANGED <<handler, mstatus, mepc>>
  BY <1>1 DEF HandlerInv
<1>2. CASE handler' = NoHandler
  BY <1>2 DEF HandlerInv, NoHandler
<1>3. CASE StepTrap
  <2>1. /\ handler' = [active |-> TRUE, at |-> pc]
        /\ mepc' = pc /\ mstatus' = mstatus \ {MIE}
    BY <1>3 DEF StepTrap, TakeTrap
  <2>2. QED
    BY <2>1 DEF HandlerInv
<1>4. CASE ExecCsr
  <2>1. CASE ram[pc].csr = "mepc" \/ MIE \in mstatus'
    BY <1>2, <1>4, <2>1 DEF ExecCsr
  <2>2. CASE ~(ram[pc].csr = "mepc" \/ MIE \in mstatus')
    <3>1. handler' = handler /\ mepc' = mepc /\ MIE \notin mstatus'
      BY <1>4, <2>2 DEF ExecCsr
    <3>2. QED
      BY <3>1 DEF HandlerInv
  <2>3. QED
    BY <2>1, <2>2
<1>5. CASE Setup
  <2>1. ASSUME NEW start \in Addr, RvReset(start)
        PROVE  HandlerInv'
    BY <1>2, <2>1 DEF RvReset
  <2>2. ASSUME NEW image \in Firmware, RvSetRam(image) \/ RvLoadElf(image)
        PROVE  HandlerInv'
    BY <1>1, <2>2 DEF RvSetRam, RvLoadElf, csrs
  <2>3. CASE RvInit \/ RvInitElf
    BY <1>1, <1>2, <2>3 DEF RvInit, RvInitElf, FreshHart, LosesRam, csrs
  <2>4. QED
    BY <1>5, <2>1, <2>2, <2>3 DEF Setup
<1>6. CASE Exec
  BY <1>1, <1>2, <1>4, <1>6 DEF Exec, ExecPlain, ExecMmio, ExecExit, ExecMret, ExecWfi, csrs
<1>7. CASE (\E mask \in SUBSET Lines : RvSetIrq(mask)) \/ RvStep \/ StepEnd
  BY <1>1, <1>3, <1>7
  DEF RvSetIrq, RvStep, StepNone, StepRefused, StepStart, StepEnd, csrs, history, vars
<1>8. CASE UNCHANGED vars
  BY <1>1, <1>8 DEF vars, csrs, history
<1>9. QED
  BY <1>5, <1>6, <1>7, <1>8 DEF Next

\* A batch that ends before its first instruction leaves a hart that is stuck,
\* and a stuck hart stays so until a caller other than rv_step acts.
LEMMA StallStep ==
  ASSUME TypeOK, CallInv, StallInv, [Next]_vars
  PROVE  StallInv'
<1>1. CASE stalled' = FALSE
  BY <1>1 DEF StallInv
<1>2. ASSUME UNCHANGED <<initialized, irq_mask, mie, mstatus, wfi_sleep,
                         htif_halted, pc, ram>>
      PROVE  Stuck' <=> Stuck
  BY <1>2 DEF Stuck, TakesIrq, Enabled, Fetchable
<1>3. ASSUME Stuck \/ ~stalled, UNCHANGED <<stalled, initialized, irq_mask, mie, mstatus,
                                wfi_sleep, htif_halted, pc, ram>>
      PROVE  StallInv'
  BY <1>2, <1>3 DEF StallInv
<1>4. CASE Setup \/ \E mask \in SUBSET Lines : RvSetIrq(mask)
  BY <1>1, <1>4 DEF Setup, RvInit, RvInitElf, RvSetRam, RvLoadElf, RvReset,
                    FreshHart, LosesRam, RvSetIrq
<1>5. CASE StepRefused
  <2>1. Stuck
    BY <1>5 DEF StepRefused, Stuck
  <2>2. QED
    BY <1>2, <1>5, <2>1 DEF StepRefused, csrs, StallInv
<1>6. CASE StepTrap
  <2>1. ~Stuck
    BY <1>6 DEF StepTrap, TakeTrap, Stuck
  <2>2. ~stalled /\ stalled' = (stalled \/ 1 = 0)
    BY <1>6, <2>1 DEF StepTrap, TakeTrap, Return, StallInv
  <2>3. 1 # 0
    OBVIOUS
  <2>4. ~stalled'
    BY <2>2, <2>3, Zenon
  <2>5. QED
    BY <2>4 DEF StallInv
<1>7. ASSUME NEW max \in 1 .. MaxBatch, StepStart(max)
      PROVE  StallInv'
  BY <1>3, <1>7 DEF StepStart, csrs, history, StallInv
<1>8. ASSUME Running, executed = 0, ram[pc].op # "stop"
      PROVE  ~Stuck
  BY <1>8 DEF Running, Stuck, CallInv
<1>9. ASSUME Running, ram[pc].op # "stop"
      PROVE  ~stalled
  BY <1>9 DEF Running, Stuck, CallInv, StallInv
<1>10. CASE Exec
  <2>1. Running /\ ram[pc].op # "stop"
    BY <1>10 DEF Exec, ExecPlain, ExecMmio, ExecExit, ExecMret, ExecWfi, ExecCsr, Insns
  <2>2. ~stalled
    BY <1>9, <2>1
  <2>3. CASE stalled' = stalled
    BY <2>2, <2>3 DEF StallInv
  <2>4. CASE ExecWfi /\ ~WfiFallsThrough /\ wfi_sleep' = TRUE /\ Return(executed)
    <3>1. CASE executed = 0
      <4>1. ~TakesIrq
        BY <2>1, <3>1 DEF CallInv, Running
      <4>2. ~TakesIrq'
        BY <2>4, <4>1 DEF ExecWfi, csrs, TakesIrq, Enabled
      <4>3. QED
        BY <2>4, <4>2 DEF StallInv, Stuck
    <3>2. CASE executed # 0
      BY <2>2, <2>4, <3>2 DEF Return, StallInv
    <3>3. QED
      BY <3>1, <3>2
  <2>5. QED
    BY <1>10, <2>3, <2>4 DEF Exec, ExecPlain, ExecMmio, ExecExit, ExecMret, ExecWfi,
                             ExecCsr, Retire
<1>11. CASE StepEnd
  <2>1. /\ busy /\ stalled' = (stalled \/ executed = 0)
        /\ UNCHANGED <<initialized, irq_mask, mie, mstatus, wfi_sleep, htif_halted, pc, ram>>
    BY <1>11 DEF StepEnd, Return, csrs
  <2>2. CASE executed # 0
    BY <1>2, <2>1, <2>2 DEF StallInv
  <2>3. CASE executed = 0
    <3>1. ~TakesIrq /\ left # 0
      BY <2>1, <2>3, BatchAssumption DEF CallInv, TypeOK
    <3>2. Stuck
      BY <1>11, <3>1 DEF StepEnd, Insns, Stuck
    <3>3. QED
      BY <1>2, <2>1, <3>2 DEF StallInv
  <2>4. QED
    BY <2>2, <2>3
<1>12. CASE UNCHANGED vars
  BY <1>3, <1>12 DEF vars, csrs, history, StallInv
<1>13. QED
  BY <1>4, <1>5, <1>6, <1>7, <1>10, <1>11, <1>12 DEF Next, RvStep, StepNone

-----------------------------------------------------------------------------
(* The theorems.                                                           *)

\* The inductive invariant holds of every reachable state.
THEOREM CoreInvariant == Spec => []CoreInv
<1>1. Init => HandlerInv /\ StallInv /\ ReturnsAccount
  BY DEF Init, HandlerInv, StallInv, ReturnsAccount, NoHandler
<1>2. /\ TypeOK /\ CallInv /\ HandlerInv /\ StallInv /\ ReturnsAccount
      /\ [Next]_vars
      => HandlerInv' /\ StallInv' /\ ReturnsAccount'
  BY HandlerStep, StallStep, AccountStep
<1>3. CallInv /\ HandlerInv /\ StallInv /\ ReturnsAccount => CoreInv
  BY DEF CoreInv
<1>4. QED
  BY <1>1, <1>2, <1>3, TypeCorrect, PTL DEF Spec

\* What rv_step returned since the last reset is mcycle plus the traps taken.
THEOREM ReturnsAreAccounted == Spec => []ReturnsAccount
<1>1. CoreInv => ReturnsAccount
  BY DEF CoreInv
<1>2. QED
  BY <1>1, CoreInvariant, PTL

\* A handler is not interrupted and returns to the instruction it cut off.
THEOREM HandlersAreAtomic == Spec => HandlerAtomic
<1>1. CoreInv /\ [Next]_vars
      => [handler.active => ~StepTrap /\ (ExecMret => pc' = handler.at)]_vars
  BY DEF CoreInv, HandlerInv, StepTrap, TakeTrap, TakesIrq, ExecMret, Retire
<1>2. QED
  BY <1>1, CoreInvariant, PTL DEF Spec, HandlerAtomic

\* Once rv_step has returned 0, only another call than rv_step moves the hart.
THEOREM StalledHartsStay == Spec => StalledStays
<1>1. CoreInv /\ [Next]_vars
      => [stalled /\ stalled' => UNCHANGED <<pc, csrs, mcycle, wfi_sleep, traps>>]_vars
  <2> SUFFICES ASSUME CoreInv, Next, stalled, stalled'
               PROVE  UNCHANGED <<pc, csrs, mcycle, wfi_sleep, traps>>
    OBVIOUS
  <2>1. Stuck
    BY DEF CoreInv, StallInv
  <2>2. CASE StepRefused \/ StepEnd
    BY <2>2 DEF StepRefused, StepEnd
  <2>3. ASSUME NEW max \in 1 .. MaxBatch, StepStart(max)
        PROVE  UNCHANGED <<pc, csrs, mcycle, wfi_sleep, traps>>
    BY <2>3 DEF StepStart, history
  <2>4. ~StepTrap
    BY <2>1 DEF Stuck, StepTrap, TakeTrap
  <2>5. ~Exec
    <3>1. Exec => Running /\ ram[pc].op # "stop"
      BY DEF Exec, ExecPlain, ExecMmio, ExecExit, ExecMret, ExecWfi, ExecCsr, Insns
    <3>2. QED
      BY <2>1, <3>1 DEF Running, Stuck, CoreInv, CallInv
  <2>6. ~Setup /\ ~(\E mask \in SUBSET Lines : RvSetIrq(mask))
    BY DEF Setup, RvInit, RvInitElf, RvSetRam, RvLoadElf, RvReset, FreshHart,
           LosesRam, RvSetIrq
  <2>7. CASE StepNone
    BY <2>7 DEF StepNone, vars, csrs, history
  <2>8. QED
    BY <2>2, <2>3, <2>4, <2>5, <2>6, <2>7 DEF Next, RvStep
<1>2. QED
  BY <1>1, CoreInvariant, PTL DEF Spec, StalledStays

\* A hart halted through HTIF retires nothing.
THEOREM HaltedHartsRetireNothing == Spec => HaltedRetiresNothing
<1>1. TypeOK /\ CallInv /\ [Next]_vars
      => [htif_halted /\ htif_halted' => executed' <= executed]_vars
  <2> SUFFICES ASSUME TypeOK, CallInv, Next, htif_halted
               PROVE  executed' <= executed
    OBVIOUS
  <2>1. executed \in Nat
    BY BatchAssumption DEF TypeOK
  <2>2. CASE UNCHANGED executed
    BY <2>1, <2>2
  <2>3. CASE executed' = 0
    BY <2>1, <2>3
  <2>4. ~Exec
    BY DEF Exec, ExecPlain, ExecMmio, ExecExit, ExecMret, ExecWfi, ExecCsr, Insns, Running
  <2>5. CASE Setup \/ \E mask \in SUBSET Lines : RvSetIrq(mask)
    BY <2>2, <2>5 DEF Setup, RvInit, RvInitElf, RvSetRam, RvLoadElf, RvReset,
                      FreshHart, LosesRam, RvSetIrq, call
  <2>6. CASE RvStep \/ StepEnd
    BY <2>2, <2>3, <2>6
    DEF RvStep, StepNone, StepRefused, StepTrap, TakeTrap, StepStart, StepEnd, Return, vars, call
  <2>7. QED
    BY <2>4, <2>5, <2>6 DEF Next
<1>2. QED
  BY <1>1, TypeCorrect, PTL DEF Spec, HaltedRetiresNothing

=============================================================================
