--------------------------- MODULE RunnersProofs ----------------------------
(***************************************************************************)
(* Proofs about Runners, for every set of programs, batch size and limit:  *)
(* the instruction counts the runners print are the hart's, the native     *)
(* runner passes its cycle limit by less than a batch, and a pass printed  *)
(* for a fully loaded program that keeps to its segments is its own.       *)
(***************************************************************************)
EXTENDS Runners, Rv32CoreProofs

\* The suite does not change while it runs, and RAM holds bytes of its programs.
SuiteInv ==
  /\ suite \in [1 .. SuiteLen -> Programs] /\ i \in 1 .. SuiteLen
  /\ loaded \in Held

LEMMA OverHeld ==
  ASSUME NEW held \in Held, NEW p \in Programs, NEW out  PROVE Over(held, p, out) \in Held
BY DEF Held, Over

LEMMA SuiteInit == RunInit => SuiteInv
BY RunnerAssumption DEF RunInit, SuiteInv, Empty, Held

LEMMA SuiteStep ==
  ASSUME SuiteInv, [RunNext]_runvars  PROVE SuiteInv'
<1>1. CASE NextProgram
  <2>1. Len(suite) = SuiteLen /\ SuiteLen \in Nat
    BY RunnerAssumption, SMT DEF SuiteInv
  <2>2. QED
    BY <1>1, <2>1 DEF SuiteInv, NextProgram, input, guest
<1>2. CASE UNCHANGED <<suite, i, loaded>>
  BY <1>2 DEF SuiteInv
<1>3. CASE InitElf \/ LoadElf
  <2>1. Program_i \in Programs /\ Empty \in Held /\ UNCHANGED <<suite, i>>
    BY <1>3 DEF SuiteInv, Program_i, Empty, Held, InitElf, LoadElf, input
  <2>2. loaded' \in Held
    BY <1>3, <2>1, OverHeld DEF SuiteInv, InitElf, LoadElf
  <2>3. QED
    BY <2>1, <2>2 DEF SuiteInv
<1>4. QED
  BY <1>1, <1>2, <1>3 DEF RunNext, runvars, GetRam, Reset, StopLoop,
     CallStep, Execute, ReportGp, ReportHalf, ReportWord, AfterMain, AfterCall,
     WildRequest, JudgeGp, JudgeHtif, JudgeMain, Returns, input, guest

\* Each step of a runner is a step of the simulator's specification or leaves the
\* simulator alone.
LEMMA RunnerStepMapped ==
  ASSUME SuiteInv, TypeOK, [RunNext]_runvars  PROVE [Next]_vars
<1>1. Program_i \in Programs /\ Program_i.entry \in Addr
  BY RunnerAssumption DEF SuiteInv, Program_i, Program
<1>2. pc \in Addr
  BY DEF TypeOK
<1>3. CASE GetRam
  BY <1>3, HeldAssumption DEF GetRam, Next, Setup
<1>4. CASE InitElf
  BY <1>4 DEF InitElf, Next, Setup
<1>5. CASE LoadElf
  <2>1. CASE UNCHANGED vars
    BY <2>1
  <2>2. CASE /\ loaded' = Over(loaded, Program_i, Program_i.left_out)
             /\ RvLoadElf(ImageOf(loaded'))
    <3>1. ImageOf(loaded') \in Firmware
      BY <1>1, <2>2, OverHeld, HeldAssumption DEF SuiteInv
    <3>2. QED
      BY <2>2, <3>1 DEF Next, Setup
  <2>3. QED
    BY <1>5, <2>1, <2>2 DEF LoadElf
<1>6. CASE Reset
  <2>1. (IF runner = "herve_main" THEN pc ELSE Program_i.entry) \in Addr
    BY <1>1, <1>2
  <2>2. QED
    BY <1>6, <2>1 DEF Reset, Next, Setup
<1>7. CASE CallStep
  <2>1. RvStep
    BY <1>7, RunnerAssumption DEF CallStep, RvStep
  <2>2. QED
    BY <2>1 DEF Next
<1>8. CASE Execute \/ ReportGp \/ ReportHalf \/ ReportWord
  BY <1>8 DEF Execute, ReportGp, ReportHalf, ReportWord, Next, Exec
<1>9. CASE UNCHANGED vars
  BY <1>9
<1>10. QED
  BY <1>3, <1>4, <1>5, <1>6, <1>7, <1>8, <1>9
  DEF RunNext, runvars, StopLoop, AfterMain, AfterCall, WildRequest, JudgeGp,
      JudgeHtif, JudgeMain, NextProgram

\* The runners' steps are made of the simulator's, so what Rv32CoreProofs shows of any
\* caller holds of them.
LEMMA RunnersAreHart == RunSpec => Spec
<1>1. RunInit => Init /\ SuiteInv /\ TypeOK /\ CallInv
  BY SuiteInit, HartTypeInit DEF RunInit
<1>2. SuiteInv /\ TypeOK /\ CallInv /\ [RunNext]_runvars
      => (SuiteInv /\ TypeOK /\ CallInv)' /\ [Next]_vars
  BY SuiteStep, RunnerStepMapped, HartTypeStep
<1>3. QED
  BY <1>1, <1>2, PTL DEF RunSpec, Spec

-----------------------------------------------------------------------------
(* What the runners count.                                                 *)

Suites == runner # "herve_main"

\* The phases in which a program is being run.
Active == {"call", "step", "after", "judge"}

\* No line is ever up; a call is in progress in phase "step" alone, and has less
\* than a batch before it and behind it.
LoopInv ==
  /\ irq_mask = {}
  /\ busy <=> phase = "step"
  /\ phase = "step" => left + executed <= Batch
  /\ Suites /\ phase \notin {"start", "done"} => initialized

\* The runner's count and the result it has not yet added make up mcycle, and
\* neither counter gets near its end.
CountInv ==
  /\ total_executed \in Nat /\ result \in 0 .. Batch
  /\ Suites /\ phase \in {"call", "step", "judge"} => result = 0
  /\ Suites /\ phase \in {"step", "after"} => total_executed < MaxInsns
  /\ Suites /\ phase \in Active
       => traps = 0 /\ total_executed + executed + result = mcycle

CycleInv ==
  runner = "herve_main"
    => /\ mcycle < MaxInsns + Batch
       /\ phase = "step" => mcycle + left < MaxInsns + Batch

RunInv == LoopInv /\ CountInv /\ CycleInv

LEMMA RunInitInv == RunInit => RunInv
<1> SUFFICES ASSUME RunInit PROVE RunInv
  OBVIOUS
<1>1. Batch \in Nat \ {0} /\ MaxInsns \in Nat \ {0}
  BY RunnerAssumption, BatchAssumption
<1>2. LoopInv
  BY DEF RunInit, Init, LoopInv
<1>3. CountInv
  BY <1>1 DEF RunInit, CountInv, Active
<1>4. CycleInv
  BY <1>1 DEF RunInit, Init, CycleInv
<1>5. QED
  BY <1>2, <1>3, <1>4 DEF RunInv

\* An instruction either retires, and the call goes on, or ends the call with
\* what it has executed; it takes no trap.
LEMMA InsnEffect ==
  ASSUME \/ ExecPlain \/ (ExecMmio /\ irq_mask' = irq_mask) \/ ExecExit \/ ExecMret
         \/ ExecWfi \/ ExecCsr \/ StepEnd
  PROVE  /\ UNCHANGED <<traps, irq_mask, initialized>>
         /\ \/ Running /\ \E next : Retire(next)
            \/ Return(executed) /\ mcycle' = mcycle
<1>1. CASE ExecPlain
  <2>1. Running /\ \E next : Retire(next)
    BY <1>1 DEF ExecPlain, Insns
  <2>2. QED
    BY <1>1, <2>1 DEF ExecPlain, Retire
<1>2. CASE ExecMmio /\ irq_mask' = irq_mask
  BY <1>2 DEF ExecMmio, Insns, Retire
<1>3. CASE ExecExit
  BY <1>3 DEF ExecExit, Insns, Retire
<1>4. CASE ExecMret
  BY <1>4 DEF ExecMret, Insns, Retire
<1>5. CASE ExecWfi
  BY <1>5 DEF ExecWfi, Insns, Retire
<1>6. CASE ExecCsr
  BY <1>6 DEF ExecCsr, Insns, Retire
<1>7. CASE StepEnd
  BY <1>7 DEF StepEnd
<1>8. QED
  BY <1>1, <1>2, <1>3, <1>4, <1>5, <1>6, <1>7

\* One iteration of the batch loop, as the runner sees it.
LEMMA CallGoesOn ==
  ASSUME TypeOK, CallInv, RunInv, phase = "step", Returns,
         UNCHANGED <<traps, irq_mask, initialized>>,
         \/ Running /\ \E next : Retire(next)
         \/ Return(executed) /\ mcycle' = mcycle
  PROVE  RunInv'
<1>0. /\ Batch \in Nat \ {0} /\ MaxInsns \in Nat \ {0} /\ CycleMod \in Nat
      /\ CycleMod > MaxInsns + Batch
  BY RunnerAssumption, BatchAssumption
<1>1. /\ left \in Nat /\ executed \in Nat /\ mcycle \in Nat
      /\ left + executed <= Batch
  BY BatchAssumption DEF TypeOK, RunInv, LoopInv
<1>2. UNCHANGED <<runner, total_executed>>
  BY DEF Returns, input
<1>3. CASE Running /\ \E next : Retire(next)
  <2>1. /\ left' = left - 1 /\ executed' = executed + 1 /\ busy' = busy
        /\ mcycle' = Plus(mcycle, 1, CycleMod) /\ left > 0
    BY <1>3 DEF Retire, Running
  <2>2. busy /\ busy' /\ phase' = "step" /\ result' = result
    <3>1. busy
      BY DEF RunInv, LoopInv
    <3>2. QED
      BY <3>1, <2>1 DEF Returns
  <2>3. mcycle + 1 < CycleMod
    <3>1. CASE Suites
      BY <1>0, <1>1, <2>1, <3>1 DEF RunInv, CountInv, Active
    <3>2. CASE ~Suites
      BY <1>0, <1>1, <2>1, <3>2 DEF RunInv, CycleInv, Suites
    <3>3. QED
      BY <3>1, <3>2
  <2>4. mcycle' = mcycle + 1
    BY <1>0, <1>1, <2>1, <2>3 DEF Plus
  <2>5. LoopInv'
    BY <1>1, <1>2, <2>1, <2>2 DEF RunInv, LoopInv, Suites
  <2>6. CountInv'
    BY <1>0, <1>1, <1>2, <2>1, <2>2, <2>4 DEF RunInv, CountInv, Suites, Active
  <2>7. CycleInv'
    BY <1>0, <1>1, <1>2, <2>1, <2>2, <2>4 DEF RunInv, CycleInv
  <2>8. QED
    BY <2>5, <2>6, <2>7 DEF RunInv
<1>4. CASE Return(executed) /\ mcycle' = mcycle
  <2>1. ~busy' /\ left' = 0 /\ executed' = 0 /\ mcycle' = mcycle /\ traps' = traps
    BY <1>4 DEF Return
  <2>2. phase' = "after" /\ result' = executed
    BY <2>1 DEF Returns
  <2>3. LoopInv'
    BY <1>2, <2>1, <2>2 DEF RunInv, LoopInv, Suites
  <2>4. CountInv'
    BY <1>0, <1>1, <1>2, <2>1, <2>2 DEF RunInv, CountInv, Suites, Active
  <2>5. CycleInv'
    BY <1>0, <1>1, <1>2, <2>1, <2>2 DEF RunInv, CycleInv
  <2>6. QED
    BY <2>3, <2>4, <2>5 DEF RunInv
<1>5. QED
  BY <1>3, <1>4

\* A call of rv_step: it is refused or enters its loop, for there is no interrupt.
LEMMA CallBegins ==
  ASSUME TypeOK, CallInv, RunInv, CallStep
  PROVE  RunInv'
<1>0. Batch \in Nat \ {0} /\ MaxInsns \in Nat \ {0} /\ CycleMod \in Nat
  BY RunnerAssumption, BatchAssumption
<1>1. phase = "call" /\ ~busy /\ executed = 0 /\ left = 0 /\ mcycle \in Nat
  BY DEF CallStep, RunInv, LoopInv, CallInv, TypeOK
<1>2. ~StepTrap
  BY DEF RunInv, LoopInv, StepTrap, TakeTrap, TakesIrq, Enabled
<1>3. UNCHANGED <<runner, total_executed, mcycle, traps, irq_mask, initialized>>
  BY <1>2 DEF CallStep, StepRefused, StepStart, Returns, input, history
<1>4. CASE StepRefused
  <2>1. ~busy' /\ left' = 0 /\ executed' = 0 /\ phase' = "after" /\ result' = 0
    BY <1>1, <1>3, <1>4 DEF StepRefused, Return, CallStep, Returns
  <2>2. LoopInv'
    BY <1>1, <1>3, <2>1 DEF RunInv, LoopInv, Suites
  <2>3. CountInv'
    BY <1>0, <1>1, <1>3, <2>1 DEF RunInv, CountInv, Suites, Active, CallStep, GoesOn
  <2>4. CycleInv'
    BY <1>0, <1>1, <1>3, <2>1 DEF RunInv, CycleInv
  <2>5. QED
    BY <2>2, <2>3, <2>4 DEF RunInv
<1>5. CASE StepStart(Batch)
  <2>1. /\ busy' /\ left' = Batch /\ executed' = 0 /\ phase' = "step"
        /\ result' = result
    BY <1>5 DEF StepStart, CallStep, Returns
  <2>2. LoopInv'
    BY <1>0, <1>1, <1>3, <2>1 DEF RunInv, LoopInv, Suites
  <2>3. CountInv'
    BY <1>0, <1>1, <1>3, <2>1 DEF RunInv, CountInv, Suites, Active, CallStep, GoesOn
  <2>4. CycleInv'
    BY <1>0, <1>1, <1>3, <2>1 DEF RunInv, CycleInv, CallStep, GoesOn
  <2>5. QED
    BY <2>2, <2>3, <2>4 DEF RunInv
<1>6. QED
  BY <1>2, <1>4, <1>5 DEF CallStep

\* Loading and resetting: the hart has no line up and starts counting at 0.
LEMMA SetupCounts ==
  ASSUME TypeOK, CallInv, RunInv, GetRam \/ InitElf \/ LoadElf \/ Reset
  PROVE  RunInv'
<1>0. Batch \in Nat \ {0} /\ MaxInsns \in Nat \ {0} /\ CycleMod \in Nat
  BY RunnerAssumption, BatchAssumption
<1>1. ~busy /\ executed = 0 /\ left = 0 /\ mcycle \in Nat /\ irq_mask = {}
  BY DEF GetRam, InitElf, LoadElf, Reset, RunInv, LoopInv, CallInv, TypeOK
<1>2. UNCHANGED runner
  BY DEF GetRam, InitElf, LoadElf, Reset, input
<1>3. CASE GetRam
  <2>1. phase' \in {"load", "done"} /\ Suites
    BY <1>3 DEF GetRam, Suites
  <2>2. /\ UNCHANGED <<busy, left, executed, mcycle, total_executed, result>>
        /\ irq_mask' = {} /\ (phase' = "load" => initialized')
    <3>1. NoRam # Blank
      BY HeldAssumption, FirmwareAssumption
    <3>2. CASE runner = "riscv_tests"
      BY <1>1, <1>3, <3>1, <3>2 DEF GetRam, RvInit, FreshHart, LosesRam, call, loop
    <3>3. CASE runner # "riscv_tests"
      BY <1>1, <1>3, <3>3 DEF GetRam, RvSetRam, call, loop
    <3>4. QED
      BY <3>2, <3>3
  <2>3. LoopInv'
    BY <1>1, <1>2, <2>1, <2>2 DEF LoopInv, Suites
  <2>4. CountInv' /\ CycleInv'
    BY <1>1, <1>2, <2>1, <2>2 DEF RunInv, CountInv, CycleInv, Suites, Active
  <2>5. QED
    BY <2>3, <2>4 DEF RunInv
<1>4. CASE InitElf
  <2>1. phase' = "reset" /\ ~Suites /\ runner = "herve_main"
    BY <1>4 DEF InitElf, Suites
  <2>2. /\ UNCHANGED <<busy, left, executed, mcycle, total_executed, result>>
        /\ irq_mask' = {}
    BY <1>1, <1>4 DEF InitElf, RvInitElf, FreshHart, LosesRam, call, loop
  <2>3. LoopInv' /\ CountInv' /\ CycleInv'
    BY <1>1, <1>2, <2>1, <2>2 DEF RunInv, LoopInv, CountInv, CycleInv, Suites, Active
  <2>4. QED
    BY <2>3 DEF RunInv
<1>5. CASE LoadElf
  <2>1. phase' \in {"next", "reset"} /\ phase = "load"
    BY <1>5 DEF LoadElf
  <2>2. UNCHANGED <<busy, left, executed, mcycle, total_executed, result, irq_mask,
                    initialized>>
    BY <1>5 DEF LoadElf, RvLoadElf, call, loop, vars
  <2>3. LoopInv' /\ CountInv' /\ CycleInv'
    BY <1>1, <1>2, <2>1, <2>2 DEF RunInv, LoopInv, CountInv, CycleInv, Suites, Active
  <2>4. QED
    BY <2>3 DEF RunInv
<1>6. CASE Reset
  <2>1. phase' = "call" /\ phase = "reset" /\ total_executed' = 0 /\ result' = 0
    BY <1>6 DEF Reset, NewRun
  <2>2. /\ UNCHANGED <<busy, left, executed, initialized>> /\ irq_mask' = {}
        /\ initialized => mcycle' = 0 /\ traps' = 0
        /\ ~initialized => mcycle' = mcycle
    BY <1>1, <1>6 DEF Reset, RvReset, call, vars
  <2>3. LoopInv' /\ CountInv' /\ CycleInv'
    BY <1>0, <1>1, <1>2, <2>1, <2>2
    DEF RunInv, LoopInv, CountInv, CycleInv, Suites, Active
  <2>4. QED
    BY <2>3 DEF RunInv
<1>7. QED
  BY <1>3, <1>4, <1>5, <1>6

\* Looking at the result and judging: the hart stands still.
LEMMA JudgeCounts ==
  ASSUME TypeOK, CallInv, RunInv, UNCHANGED vars,
         StopLoop \/ AfterMain \/ AfterCall \/ WildRequest \/ JudgeGp \/ JudgeHtif
           \/ JudgeMain \/ NextProgram
  PROVE  RunInv'
<1>0. Batch \in Nat \ {0} /\ MaxInsns \in Nat \ {0}
  BY RunnerAssumption, BatchAssumption
<1>1. UNCHANGED <<busy, left, executed, mcycle, traps, irq_mask, initialized, runner>>
  BY DEF vars, call, history, input, StopLoop, AfterMain, AfterCall, WildRequest,
         JudgeGp, JudgeHtif, JudgeMain, NextProgram
<1>2. ~busy /\ executed = 0 /\ left = 0 /\ mcycle \in Nat
  BY DEF StopLoop, AfterMain, AfterCall, WildRequest, JudgeGp, JudgeHtif, JudgeMain,
         NextProgram, RunInv, LoopInv, CallInv, TypeOK
<1>3. CASE AfterCall
  <2>1. /\ phase = "after" /\ phase' \in {"judge", "call"} /\ Suites
        /\ total_executed' = total_executed + result /\ result' = 0
    BY <1>3 DEF AfterCall, Suites
  <2>2. LoopInv' /\ CountInv' /\ CycleInv'
    BY <1>0, <1>1, <1>2, <2>1 DEF RunInv, LoopInv, CountInv, CycleInv, Suites, Active
  <2>3. QED
    BY <2>2 DEF RunInv
<1>4. CASE ~AfterCall
  <2>1. UNCHANGED <<total_executed, result>>
    BY <1>4 DEF loop, StopLoop, AfterMain, WildRequest, JudgeGp, JudgeHtif, JudgeMain,
                NextProgram
  <2>2. \/ phase = "call" /\ phase' = "judge"
        \/ phase = "after" /\ phase' \in {"call", "judge"} /\ ~Suites
        \/ phase = "judge" /\ phase' = "next"
        \/ phase' = "done" /\ phase # "step"
        \/ phase = "after" /\ phase' = "crashed"
        \/ phase = "next" /\ phase' \in {"load", "done"}
    BY <1>4 DEF StopLoop, AfterMain, WildRequest, JudgeGp, JudgeHtif, JudgeMain,
                NextProgram, Suites
  <2>3. LoopInv' /\ CountInv' /\ CycleInv'
    BY <1>0, <1>1, <1>2, <2>1, <2>2
    DEF RunInv, LoopInv, CountInv, CycleInv, Suites, Active
  <2>4. QED
    BY <2>3 DEF RunInv
<1>5. QED
  BY <1>3, <1>4

LEMMA RunInvStep ==
  ASSUME TypeOK, CallInv, RunInv, [RunNext]_runvars
  PROVE  RunInv'
<1>1. CASE GetRam \/ InitElf \/ LoadElf \/ Reset
  BY <1>1, SetupCounts
<1>2. CASE CallStep
  BY <1>2, CallBegins
<1>3. CASE Execute \/ ReportGp \/ ReportHalf \/ ReportWord
  <2>1. /\ phase = "step" /\ Returns
        /\ \/ ExecPlain \/ (ExecMmio /\ irq_mask' = irq_mask) \/ ExecExit \/ ExecMret
           \/ ExecWfi \/ ExecCsr \/ StepEnd
    BY <1>3 DEF Execute, ReportGp, ReportHalf, ReportWord
  <2>2. QED
    BY <2>1, InsnEffect, CallGoesOn
<1>4. CASE StopLoop \/ AfterMain \/ AfterCall \/ WildRequest \/ JudgeGp \/ JudgeHtif
             \/ JudgeMain \/ NextProgram
  <2>1. UNCHANGED vars
    BY <1>4 DEF StopLoop, AfterMain, AfterCall, WildRequest, JudgeGp, JudgeHtif,
                JudgeMain, NextProgram
  <2>2. QED
    BY <1>4, <2>1, JudgeCounts
<1>5. CASE UNCHANGED runvars
  BY <1>5 DEF runvars, vars, call, history, input, loop, RunInv, LoopInv, CountInv,
              CycleInv, Suites, Active
<1>6. QED
  BY <1>1, <1>2, <1>3, <1>4, <1>5 DEF RunNext

\* What a suite runner counted so far is what the hart retired, for every suite.
THEOREM CountsAreRight == RunSpec => []CountsInstructions
<1>1. RunSpec => [](TypeOK /\ CallInv)
  BY RunnersAreHart, TypeCorrect, PTL
<1>2. TypeOK /\ CallInv /\ RunInv /\ [RunNext]_runvars => RunInv'
  BY RunInvStep
<1>3. RunInv => CountsInstructions
  BY DEF RunInv, CountInv, CountsInstructions, Suites, Active
<1>4. QED
  BY <1>1, <1>2, <1>3, RunInitInv, PTL DEF RunSpec

\* The native runner passes --max-cycles by less than a batch.
THEOREM OvershootBounded == RunSpec => []CyclesBounded
<1>1. RunSpec => [](TypeOK /\ CallInv)
  BY RunnersAreHart, TypeCorrect, PTL
<1>2. TypeOK /\ CallInv /\ RunInv /\ [RunNext]_runvars => RunInv'
  BY RunInvStep
<1>3. RunInv => CyclesBounded
  BY DEF RunInv, CycleInv, CyclesBounded
<1>4. QED
  BY <1>1, <1>2, <1>3, RunInitInv, PTL DEF RunSpec

-----------------------------------------------------------------------------
(* What a printed pass means.                                              *)

\* A runner that judges by gp: gp is 1 only if the program said so since its reset,
\* and the loop ends only by a limit or with a hart that can do no more.
PassInv ==
  /\ results \in Seq({"pass", "fail", "skip"})
  /\ total_executed \in Nat /\ stale_count \in Nat
  /\ runner \in ByGp
       => /\ exit_code = -1
          /\ phase \in Active /\ gp = 1 => reported = "pass"
          /\ phase = "after" /\ result = 0 => stalled
          /\ phase = "judge" => TimedOut \/ stalled

LEMMA PassInit == RunInit => PassInv
<1>1. <<>> \in Seq({"pass", "fail", "skip"})
  OBVIOUS
<1>2. QED
  BY <1>1 DEF RunInit, PassInv, Active

LEMMA PassStep ==
  ASSUME PassInv, RunInv, CallInv, [RunNext]_runvars
  PROVE  PassInv'
<1>0. MaxInsns \in Nat \ {0} /\ MaxStale \in Nat \ {0} /\ result \in Nat
  BY RunnerAssumption, BatchAssumption DEF RunInv, CountInv
<1> USE DEF PassInv, Active, ByGp
<1>1. CASE GetRam \/ InitElf
  BY <1>1 DEF GetRam, InitElf, input, loop, guest, said
<1>2. CASE LoadElf
  <2>1. results' \in Seq({"pass", "fail", "skip"})
    BY <1>2 DEF LoadElf
  <2>2. QED
    BY <1>2, <2>1 DEF LoadElf, input, loop
<1>3. CASE Reset
  BY <1>3 DEF Reset, ResetRegs, NewRun, input
<1>4. CASE StopLoop
  <2>1. runner \in ByGp => total_executed >= MaxInsns
    BY <1>0, <1>4 DEF StopLoop, GoesOn
  <2>2. QED
    BY <1>4, <2>1 DEF StopLoop, TimedOut, input, guest, said, loop
<1>5. ASSUME Returns, CallStep \/ Execute \/ ReportGp \/ ReportHalf \/ ReportWord
      PROVE  PassInv'
  <2>1. UNCHANGED <<runner, results, total_executed, stale_count, exit_code>>
    BY <1>5 DEF Returns, input
  <2>2. phase \in Active /\ phase' \in {"step", "after"}
    BY <1>5 DEF CallStep, Execute, ReportGp, ReportHalf, ReportWord, Returns
  <2>3. gp' = 1 => (gp = 1 /\ reported' = reported) \/ reported' = "pass"
    BY <1>5 DEF CallStep, Execute, ReportGp, ReportHalf, ReportWord, GpOf, said
  <2>4. phase' = "after" /\ result' = 0 => stalled'
    <3>1. ASSUME ~busy'
          PROVE  \/ \E n : Return(n) /\ result' = n
                 \/ StepTrap
      <4>1. CASE CallStep
        <5>1. ~StepStart(Batch)
          BY <3>1 DEF StepStart
        <5>2. CASE StepRefused
          <6>1. ~busy /\ executed = 0 /\ traps' = traps
            BY <5>2 DEF StepRefused, CallInv
          <6>2. Return(0) /\ result' = 0
            BY <1>5, <3>1, <5>2, <6>1 DEF StepRefused, Returns
          <6>3. QED
            BY <6>2
        <5>3. QED
          BY <4>1, <5>1, <5>2 DEF CallStep
      <4>2. CASE ~CallStep
        <5>1. phase = "step"
              /\ \/ ExecPlain \/ (ExecMmio /\ irq_mask' = irq_mask) \/ ExecExit
                 \/ ExecMret \/ ExecWfi \/ ExecCsr \/ StepEnd
          BY <1>5, <4>2 DEF Execute, ReportGp, ReportHalf, ReportWord
        <5>2. /\ traps' = traps
              /\ \/ Running /\ \E next : Retire(next)
                 \/ Return(executed)
          BY <5>1, InsnEffect
        <5>3. ~(Running /\ \E next : Retire(next))
          BY <3>1 DEF Running, Retire
        <5>4. result' = executed
          BY <1>5, <3>1, <5>2 DEF Returns
        <5>5. QED
          BY <5>2, <5>3, <5>4
      <4>3. QED
        BY <4>1, <4>2
    <3>2. ~StepTrap
      BY DEF RunInv, LoopInv, StepTrap, TakeTrap, TakesIrq, Enabled
    <3>3. phase' = "after" => ~busy'
      BY <1>5 DEF Returns
    <3>4. QED
      BY <3>1, <3>2, <3>3 DEF Return
  <2>5. QED
    BY <2>1, <2>2, <2>3, <2>4
<1>6. CASE AfterMain \/ WildRequest
  BY <1>6 DEF AfterMain, WildRequest, input, guest, said, loop
<1>7. CASE AfterCall
  <2>1. /\ UNCHANGED <<runner, results, gp, reported, stalled>>
        /\ total_executed' \in Nat /\ stale_count' \in Nat
        /\ phase = "after" /\ phase' \in {"judge", "call"}
    BY <1>0, <1>7 DEF AfterCall, input, said, vars, history
  <2>2. ASSUME runner \in ByGp
        PROVE  exit_code' = -1 /\ (phase' = "judge" => TimedOut' \/ stalled')
    <3>1. exit_code' = -1
      BY <1>7, <2>2 DEF AfterCall, HandleHtif
    <3>2. ASSUME phase' = "judge", result # 0  PROVE TimedOut'
      BY <1>0, <1>7, <3>1, <3>2 DEF AfterCall, TimedOut
    <3>3. QED
      BY <1>7, <2>1, <2>2, <3>1, <3>2
  <2>3. QED
    BY <2>1, <2>2
<1>8. CASE JudgeGp
  <2>1. results' \in Seq({"pass", "fail", "skip"})
    BY <1>8 DEF JudgeGp, Verdict
  <2>2. QED
    BY <1>8, <2>1 DEF JudgeGp, input, guest, said, loop
<1>9. CASE JudgeHtif
  <2>1. results' \in Seq({"pass", "fail", "skip"})
    BY <1>9 DEF JudgeHtif, Verdict
  <2>2. QED
    BY <1>9, <2>1 DEF JudgeHtif, input
<1>10. CASE JudgeMain
  <2>1. results' \in Seq({"pass", "fail", "skip"})
    BY <1>10 DEF JudgeMain, Verdict
  <2>2. QED
    BY <1>10, <2>1 DEF JudgeMain, input, loop
<1>11. CASE NextProgram
  BY <1>11 DEF NextProgram, input, guest, said, loop
<1>12. CASE UNCHANGED runvars
  BY <1>12 DEF runvars, vars, history, input, guest, said, loop, TimedOut
<1>13. QED
  BY <1>1, <1>2, <1>3, <1>4, <1>5, <1>6, <1>7, <1>8, <1>9, <1>10, <1>11, <1>12
  DEF RunNext, CallStep, Execute, ReportGp, ReportHalf, ReportWord

-----------------------------------------------------------------------------
(* What the runners' variables hold.                                       *)

\* RAM holds the programs recorded as loaded, and none before the first.
PlaceInv ==
  /\ initialized => ram = ImageOf(loaded)
  /\ phase = "start" => loaded = Empty

GuestTypes ==
  /\ gp \in 0 .. 2 /\ tohost_ram \in 0 .. 4 /\ htif_exit_code \in {0, 1}
  /\ exit_code \in -1 .. 1 /\ reported \in Mark /\ exited \in -1 .. 1
  /\ reporter \in Programs \union {NoProgram}

\* The loop is left as soon as pc was stale for long enough.
LoopTypes ==
  /\ runner \in ByGp \union {"benchmark_htif", "herve_main"}
  /\ phase \in {"start", "load", "reset", "call", "step", "after", "judge", "next",
                "done", "crashed"}
  /\ total_executed \in 0 .. MaxInsns + Batch - 1 /\ prev_pc \in Addr
  /\ stale_count \in 0 .. MaxStale
  /\ phase \in {"call", "step", "after"} => stale_count < MaxStale

LEMMA RunTypesInit == RunInit => PlaceInv /\ GuestTypes /\ LoopTypes
<1> SUFFICES ASSUME RunInit PROVE PlaceInv /\ GuestTypes /\ LoopTypes
  OBVIOUS
<1>1. PlaceInv
  BY DEF RunInit, Init, PlaceInv
<1>2. GuestTypes
  BY DEF RunInit, GuestTypes, Mark
<1>3. LoopTypes
  BY RunnerAssumption, BatchAssumption, SlotAssumption, RamAssumption
  DEF RunInit, LoopTypes, Addr
<1>4. QED
  BY <1>1, <1>2, <1>3

LEMMA PlaceStep ==
  ASSUME PlaceInv, [RunNext]_runvars  PROVE PlaceInv'
<1> USE DEF PlaceInv
<1>2. CASE GetRam
  <2>1. loaded' = Empty /\ phase' # "start"
    BY <1>2 DEF GetRam, guest
  <2>2. initialized' => ram' = Blank
    <3>1. CASE runner = "riscv_tests"
      BY <1>2, <3>1, HeldAssumption, FirmwareAssumption DEF GetRam, RvInit, FreshHart, LosesRam
    <3>2. CASE runner # "riscv_tests"
      BY <1>2, <3>2 DEF GetRam, RvSetRam
    <3>3. QED
      BY <3>1, <3>2
  <2>3. Blank = ImageOf(Empty)
    BY DEF Blank, ImageOf, Empty, NoProgram
  <2>4. QED
    BY <2>1, <2>2, <2>3
<1>3. CASE InitElf
  BY <1>3 DEF InitElf
<1>4. CASE LoadElf
  <2>1. phase' # "start"
    BY <1>4 DEF LoadElf
  <2>2. CASE RvLoadElf(ImageOf(loaded'))
    BY <2>1, <2>2 DEF RvLoadElf
  <2>3. CASE UNCHANGED <<vars, loaded>>
    BY <2>1, <2>3 DEF vars
  <2>4. QED
    BY <1>4, <2>2, <2>3 DEF LoadElf
<1>5. CASE Reset
  BY <1>5 DEF Reset, RvReset, vars
<1>6. CASE CallStep
  BY <1>6 DEF CallStep, Returns, StepRefused, StepTrap, TakeTrap, StepStart
<1>7. CASE Execute \/ ReportGp \/ ReportHalf \/ ReportWord
  <2>1. /\ phase' # "start" /\ loaded' = loaded
        /\ \/ ExecPlain \/ (ExecMmio /\ irq_mask' = irq_mask) \/ ExecExit \/ ExecMret
           \/ ExecWfi \/ ExecCsr \/ StepEnd
    BY <1>7 DEF Execute, ReportGp, ReportHalf, ReportWord, Returns
  <2>2. UNCHANGED <<initialized, ram>>
    BY <2>1 DEF ExecPlain, ExecMmio, ExecExit, ExecMret, ExecWfi, ExecCsr, StepEnd, Retire
  <2>3. QED
    BY <2>1, <2>2
<1>8. CASE StopLoop \/ AfterMain \/ AfterCall \/ WildRequest \/ JudgeGp \/ JudgeHtif
             \/ JudgeMain \/ NextProgram
  BY <1>8 DEF StopLoop, AfterMain, AfterCall, WildRequest, JudgeGp, JudgeHtif,
              JudgeMain, NextProgram, guest, vars
<1>9. CASE UNCHANGED runvars
  BY <1>9 DEF runvars, guest, vars
<1>10. QED
  BY <1>2, <1>3, <1>4, <1>5, <1>6, <1>7, <1>8, <1>9 DEF RunNext

LEMMA GuestStep ==
  ASSUME SuiteInv, TypeOK, GuestTypes, [RunNext]_runvars  PROVE GuestTypes'
<1> USE DEF GuestTypes, said
<1>1. /\ tohost_ram % 2 = 1 => tohost_ram \div 2 \in {0, 1}
      /\ "none" \in Mark /\ "pass" \in Mark /\ "fail" \in Mark
  BY DEF Mark
<1>2. HandleHtif => exit_code' \in -1 .. 1 /\ tohost_ram' \in 0 .. 4
  BY <1>1 DEF HandleHtif
<1>3. CASE GetRam \/ InitElf \/ LoadElf
  BY <1>3 DEF GetRam, InitElf, LoadElf, guest, loop
<1>4. CASE Reset
  BY <1>1, <1>4 DEF Reset, ResetRegs, NewRun
<1>5. CASE CallStep \/ Execute
  BY <1>5 DEF CallStep, Execute, Returns
<1>6. CASE ReportGp
  <2>1. reporter' \in Programs \union {NoProgram}
    BY <1>6 DEF ReportGp, SuiteInv, Held, Insns, Running, Fetchable
  <2>2. QED
    BY <1>1, <1>6, <2>1 DEF ReportGp, GpOf, Returns
<1>7. CASE ReportHalf
  <2>1. tohost_ram' \in 0 .. 4
    BY <1>7 DEF ReportHalf, WordOf, CodeOf
  <2>2. QED
    BY <1>7, <2>1 DEF ReportHalf, Returns
<1>8. CASE ReportWord
  BY <1>8 DEF ReportWord, CodeOf, Returns
<1>9. CASE StopLoop \/ AfterMain \/ WildRequest \/ JudgeGp \/ JudgeMain \/ NextProgram
  BY <1>9 DEF StopLoop, AfterMain, WildRequest, JudgeGp, JudgeMain, NextProgram, guest,
              loop
<1>10. CASE AfterCall
  BY <1>2, <1>10 DEF AfterCall
<1>11. CASE JudgeHtif
  BY <1>2, <1>11 DEF JudgeHtif
<1>12. CASE UNCHANGED runvars
  BY <1>12 DEF runvars, guest, loop
<1>13. QED
  BY <1>3, <1>4, <1>5, <1>6, <1>7, <1>8, <1>9, <1>10, <1>11, <1>12 DEF RunNext

LEMMA LoopTypesStep ==
  ASSUME TypeOK, RunInv, LoopTypes, [RunNext]_runvars  PROVE LoopTypes'
<1>0. /\ Batch \in Nat \ {0} /\ MaxInsns \in Nat \ {0} /\ MaxStale \in Nat \ {0}
      /\ pc \in Addr /\ 0 \in Addr
  BY RunnerAssumption, BatchAssumption, RamAssumption, SlotAssumption DEF TypeOK, Addr
<1> USE <1>0 DEF LoopTypes
<1>1. CASE GetRam \/ InitElf \/ LoadElf
  BY <1>1 DEF GetRam, InitElf, LoadElf, input, loop
<1>2. CASE Reset
  BY <1>2 DEF Reset, NewRun, input
<1>3. CASE CallStep \/ Execute \/ ReportGp \/ ReportHalf \/ ReportWord
  <2>1. Returns /\ phase \in {"call", "step"}
    BY <1>3 DEF CallStep, Execute, ReportGp, ReportHalf, ReportWord
  <2>2. QED
    BY <2>1 DEF Returns, input
<1>4. CASE StopLoop \/ AfterMain \/ WildRequest \/ JudgeGp \/ JudgeMain \/ NextProgram
  BY <1>4 DEF StopLoop, AfterMain, WildRequest, JudgeGp, JudgeMain, NextProgram, input,
              loop
<1>5. CASE JudgeHtif
  BY <1>5 DEF JudgeHtif, input
<1>6. CASE AfterCall
  <2>1. phase = "after" /\ Suites /\ total_executed' = total_executed + result
    BY <1>6 DEF AfterCall, Suites
  <2>2. total_executed' \in 0 .. MaxInsns + Batch - 1
    BY <2>1 DEF RunInv, CountInv
  <2>3. stale_count' \in 0 .. MaxStale /\ (stale_count' < MaxStale \/ phase' = "judge")
    BY <1>6, <2>1 DEF AfterCall
  <2>4. QED
    BY <1>6, <2>2, <2>3 DEF AfterCall, input
<1>7. CASE UNCHANGED runvars
  BY <1>7 DEF runvars, input, loop
<1>8. QED
  BY <1>1, <1>2, <1>3, <1>4, <1>5, <1>6, <1>7 DEF RunNext

\* Every variable of the runners and of the simulator keeps its type: RAM holds the
\* programs recorded as loaded, no count passes its limit by a batch, and an exit code
\* is one a program can report.
THEOREM RunTypesCorrect == RunSpec => []RunTypeOK
<1>1. RunSpec => [](TypeOK /\ CallInv)
  BY RunnersAreHart, TypeCorrect, PTL
<1>2. /\ TypeOK /\ CallInv /\ RunInv /\ [RunNext]_runvars => RunInv'
      /\ RunInv /\ CallInv /\ PassInv /\ [RunNext]_runvars => PassInv'
      /\ SuiteInv /\ [RunNext]_runvars => SuiteInv'
  BY RunInvStep, PassStep, SuiteStep
<1>3. /\ PlaceInv /\ [RunNext]_runvars => PlaceInv'
      /\ SuiteInv /\ TypeOK /\ GuestTypes /\ [RunNext]_runvars => GuestTypes'
      /\ TypeOK /\ RunInv /\ LoopTypes /\ [RunNext]_runvars => LoopTypes'
  BY PlaceStep, GuestStep, LoopTypesStep
<1>4. TypeOK /\ RunInv /\ PassInv /\ SuiteInv /\ PlaceInv /\ GuestTypes /\ LoopTypes
      => RunTypeOK
  BY DEF RunTypeOK, RunInv, CountInv, PassInv, SuiteInv, PlaceInv, GuestTypes, LoopTypes
<1>5. QED
  BY <1>1, <1>2, <1>3, <1>4, RunInitInv, PassInit, SuiteInit, RunTypesInit, PTL DEF RunSpec

-----------------------------------------------------------------------------
(* Whose pass it is.                                                       *)

\* A program judged by gp that rv_load_elf loaded in full fills its slots until the next
\* one is loaded; if it is confined, pc never leaves them, so that no instruction but its
\* own can have set gp.
OwnInv ==
  runner \in ByGp /\ Program_i.left_out = {} =>
    /\ phase \in Active \union {"reset"}
         => \A slot \in Program_i.linked : loaded[slot] = Program_i
    /\ Confined(Program_i) /\ phase \in Active
         => pc \in Program_i.linked /\ (gp = 1 => reporter = Program_i)

LEMMA OwnInit == RunInit => OwnInv
BY DEF RunInit, OwnInv, Active

\* The next instruction is a successor of this one, or this one again.
LEMMA NextIsSuccessor ==
  ASSUME TypeOK, NEW p \in Program, pc \in Ram, ram[pc] = p.image[pc],
         \/ ExecPlain \/ (ExecMmio /\ irq_mask' = irq_mask) \/ ExecExit \/ ExecMret
         \/ ExecWfi \/ ExecCsr \/ StepEnd
  PROVE  pc' \in {pc} \union Successors(p, pc)
<1> DEFINE op == p.image[pc].op
<1>1. CASE ExecPlain
  <2>1. CASE op = "plain"
    BY <1>1, <2>1 DEF ExecPlain, Insns, Retire, Successors
  <2>2. CASE op \in {"jump", "cjump", "branch"}
    <3>1. pc' \in {ram[pc].to, NextSlot(pc)}
      BY <1>1, <2>2 DEF ExecPlain, Insns, Retire
    <3>2. Successors(p, pc) = {p.image[pc].to, NextSlot(pc)}
      BY <2>2 DEF Successors
    <3>3. QED
      BY <3>1, <3>2
  <2>3. QED
    BY <1>1, <2>1, <2>2 DEF ExecPlain, Insns
<1>2. CASE ExecMmio
  BY <1>2 DEF ExecMmio, Insns, Retire, Successors
<1>3. CASE ExecExit
  BY <1>3 DEF ExecExit, Insns, Retire, Successors
<1>4. CASE ExecMret
  BY <1>4 DEF ExecMret, Insns, Retire, Successors, TypeOK
<1>5. CASE ExecWfi
  BY <1>5 DEF ExecWfi, Insns, Retire, Successors
<1>6. CASE ExecCsr
  BY <1>6 DEF ExecCsr, Insns, Retire, Successors
<1>7. CASE StepEnd
  BY <1>7 DEF StepEnd
<1>8. QED
  BY <1>1, <1>2, <1>3, <1>4, <1>5, <1>6, <1>7

LEMMA OwnStep ==
  ASSUME TypeOK, SuiteInv, RunInv, PlaceInv, OwnInv, [RunNext]_runvars
  PROVE  OwnInv'
<1>0. Program_i \in Programs /\ Program_i \in Program
  BY RunnerAssumption DEF SuiteInv, Program_i
<1> USE DEF Active
<1>1. CASE GetRam \/ InitElf
  BY <1>1 DEF GetRam, InitElf, OwnInv, ByGp, input
<1>2. CASE LoadElf
  <2>1. UNCHANGED <<runner, suite, i>> /\ phase' \in {"reset", "next"}
    BY <1>2 DEF LoadElf, input
  <2>2. ASSUME phase' = "reset", Program_i.left_out = {}
        PROVE  \A slot \in Program_i.linked : loaded'[slot] = Program_i
    <3>1. loaded' = Over(loaded, Program_i, {})
      BY <1>2, <2>2 DEF LoadElf
    <3>2. QED
      BY <1>0, <3>1 DEF Over, Program
  <2>3. QED
    BY <2>1, <2>2 DEF OwnInv, Program_i
<1>3. CASE Reset
  <2>1. /\ UNCHANGED <<runner, suite, i, loaded>>
        /\ phase = "reset" /\ phase' = "call" /\ gp' = 0
    BY <1>3 DEF Reset, ResetRegs, input
  <2>2. runner \in ByGp => pc' = Program_i.entry
    BY <1>3 DEF Reset, RvReset, RunInv, LoopInv, Suites, ByGp
  <2>3. QED
    BY <2>1, <2>2 DEF OwnInv, Program_i, Confined
<1>4. CASE CallStep
  <2>1. UNCHANGED <<runner, suite, i, loaded, gp, reporter>> /\ phase = "call"
    BY <1>4 DEF CallStep, Returns, input, said
  <2>2. ~StepTrap
    BY DEF RunInv, LoopInv, StepTrap, TakeTrap, TakesIrq, Enabled
  <2>3. pc' = pc /\ phase' \in {"step", "after"}
    BY <1>4, <2>2 DEF CallStep, StepRefused, StepStart, Returns
  <2>4. QED
    BY <2>1, <2>3 DEF OwnInv, Program_i
<1>5. CASE Execute \/ ReportGp \/ ReportHalf \/ ReportWord
  <2>1. /\ UNCHANGED <<runner, suite, i, loaded>> /\ phase = "step"
        /\ phase' \in {"step", "after"}
        /\ \/ ExecPlain \/ (ExecMmio /\ irq_mask' = irq_mask) \/ ExecExit \/ ExecMret
           \/ ExecWfi \/ ExecCsr \/ StepEnd
    BY <1>5 DEF Execute, ReportGp, ReportHalf, ReportWord, Returns, input
  <2>2. (gp' = gp /\ reporter' = reporter) \/ reporter' = loaded[pc]
    BY <1>5 DEF Execute, ReportGp, ReportHalf, ReportWord, said
  <2>3. ASSUME runner \in ByGp, Program_i.left_out = {}, Confined(Program_i)
        PROVE  pc' \in Program_i.linked /\ (gp' = 1 => reporter' = Program_i)
    <3>1. /\ pc \in Program_i.linked /\ loaded[pc] = Program_i
          /\ gp = 1 => reporter = Program_i
      BY <2>1, <2>3 DEF OwnInv
    <3>2. pc \in Ram /\ Program_i.linked \subseteq Ram
      BY <1>0, <3>1 DEF Program
    <3>3. ram[pc] = Program_i.image[pc]
      BY <2>1, <2>3, <3>1, <3>2
      DEF PlaceInv, RunInv, LoopInv, Suites, ByGp, ImageOf
    <3>4. pc' \in {pc} \union Successors(Program_i, pc)
      BY <1>0, <2>1, <3>2, <3>3, NextIsSuccessor
    <3>5. pc' \in Program_i.linked
      BY <2>3, <3>1, <3>4 DEF Confined
    <3>6. QED
      BY <2>2, <3>1, <3>5
  <2>4. QED
    BY <2>1, <2>3 DEF OwnInv, Program_i
<1>6. CASE StopLoop \/ AfterMain \/ AfterCall \/ WildRequest \/ JudgeGp \/ JudgeHtif
             \/ JudgeMain
  <2>1. UNCHANGED <<runner, suite, i, loaded, gp, reporter, pc>>
    BY <1>6 DEF StopLoop, AfterMain, AfterCall, WildRequest, JudgeGp, JudgeHtif,
                JudgeMain, input, guest, said, vars
  <2>2. phase \in Active /\ phase' # "reset"
    BY <1>6 DEF StopLoop, AfterMain, AfterCall, WildRequest, JudgeGp, JudgeHtif,
                JudgeMain
  <2>3. QED
    BY <2>1, <2>2 DEF OwnInv, Program_i
<1>7. CASE NextProgram
  BY <1>7 DEF NextProgram, OwnInv
<1>8. CASE UNCHANGED runvars
  BY <1>8 DEF runvars, vars, input, guest, said, OwnInv, Program_i
<1>9. QED
  BY <1>1, <1>2, <1>3, <1>4, <1>5, <1>6, <1>7, <1>8 DEF RunNext

\* A test printed as passed by its gp reported it since it was reset, and its hart can do
\* nothing more; a fully loaded and confined one reported it itself, whatever program ran
\* before it and whatever is left of that in RAM.
THEOREM PassesAreEarned == RunSpec => PassIsEarned
<1>1. RunSpec => [](TypeOK /\ CallInv)
  BY RunnersAreHart, TypeCorrect, PTL
<1>2. TypeOK /\ CallInv /\ RunInv /\ [RunNext]_runvars => RunInv'
  BY RunInvStep
<1>3. RunInv /\ CallInv /\ PassInv /\ [RunNext]_runvars => PassInv'
  BY PassStep
<1>4. /\ SuiteInv /\ [RunNext]_runvars => SuiteInv'
      /\ PlaceInv /\ [RunNext]_runvars => PlaceInv'
  BY SuiteStep, PlaceStep
<1>5. TypeOK /\ SuiteInv /\ RunInv /\ PlaceInv /\ OwnInv /\ [RunNext]_runvars => OwnInv'
  BY OwnStep
<1>6. PassInv /\ OwnInv /\ [RunNext]_runvars
      => [PrintsPass =>
            /\ reported = "pass" /\ stalled
            /\ Program_i.left_out = {} /\ Confined(Program_i)
                 => reporter = Program_i]_runvars
  <2> SUFFICES ASSUME PassInv, OwnInv, PrintsPass
               PROVE  /\ reported = "pass" /\ stalled
                      /\ Program_i.left_out = {} /\ Confined(Program_i)
                           => reporter = Program_i
    OBVIOUS
  <2>1. /\ runner \in ByGp /\ phase = "judge"
        /\ results' = Append(results, IF TimedOut THEN "skip" ELSE Verdict(gp = 1))
    BY DEF PrintsPass, JudgeGp
  <2>2. results \in Seq({"pass", "fail", "skip"})
    BY DEF PassInv
  <2>3. results'[Len(results')] = IF TimedOut THEN "skip" ELSE Verdict(gp = 1)
    BY <2>1, <2>2 DEF Verdict
  <2>4. ~TimedOut /\ gp = 1
    BY <2>3 DEF Verdict, PrintsPass
  <2>5. QED
    BY <2>1, <2>4 DEF PassInv, OwnInv, Active
<1>7. QED
  BY <1>1, <1>2, <1>3, <1>4, <1>5, <1>6, RunInitInv, PassInit, SuiteInit, RunTypesInit,
     OwnInit, PTL DEF RunSpec, PassIsEarned
=============================================================================
