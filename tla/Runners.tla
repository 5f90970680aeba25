------------------------------ MODULE Runners -------------------------------
(***************************************************************************)
(* The programs that run test binaries on the simulator of Rv32Core:       *)
(* rv32_dpi_riscv_tests.cpp and rv32_dpi_benchmark.cpp, which judge a test *)
(* by register gp, rv32_dpi_benchmark_htif.cpp, which looks for an exit    *)
(* code in RAM at tohost, and the native runner herve_main.c, which runs   *)
(* one program for a number of cycles.  The first three run a suite of     *)
(* programs on one simulator, one after the other.                         *)
(*                                                                         *)
(* A word store to tohost goes to the simulator (Rv32Core's "exit"), a     *)
(* halfword store to RAM: write_u32 knows the HTIF window, write_u16 does  *)
(* not.                                                                    *)
(***************************************************************************)
EXTENDS Rv32Core, Sequences

CONSTANTS
  Programs,      (* what a suite is made of: see Program                    *)
  SuiteLen,      (* bound: programs in a suite                              *)
  Batch,         (* 1000 instructions in every runner                       *)
  MaxInsns,      (* MAX_INSTRUCTIONS, and --max-cycles                      *)
  MaxStale       (* MAX_STALE_CHECKS                                        *)

\* A program's image and entry point, the slots its segments are linked at and those
\* of segments rv_load_elf leaves out, what each of its instructions reports (by setting
\* gp, or by the value it stores to tohost), and which of its stores to tohost are
\* halfword stores.  A "wild" value is a request pointer that leads out of RAM.
Mark == {"none", "pass", "fail", "request", "wild"}
Program == [image: Firmware, entry: Addr, linked: SUBSET Ram, left_out: SUBSET Ram,
            mark: [Ram -> Mark], half: SUBSET Ram]

ASSUME RunnerAssumption ==
  /\ Programs \subseteq Program /\ SuiteLen \in Nat \ {0}
  /\ Batch \in 1 .. MaxBatch
  /\ MaxInsns \in Nat \ {0} /\ MaxStale \in Nat \ {0}
  /\ CycleMod > MaxInsns + Batch

\* Zeroed memory: no instruction of it is legal.
Blank == [slot \in Ram |-> [op |-> "stop", csr |-> "readonly", f3 |-> "write",
                            val |-> {}, to |-> 0]]
NoProgram == [image |-> Blank, entry |-> 0, linked |-> {}, left_out |-> {},
              mark |-> [slot \in Ram |-> "none"], half |-> {}]

\* Which program's bytes each slot of RAM holds, and what RAM then holds.
Held == [Ram -> Programs \union {NoProgram}]
Empty == [slot \in Ram |-> NoProgram]
ImageOf(held) == [slot \in Ram |-> held[slot].image[slot]]

\* RAM may hold the segments of several programs.
ASSUME HeldAssumption == Blank \in Firmware /\ \A held \in Held : ImageOf(held) \in Firmware

VARIABLES
  runner, suite,                         (* the executable, and its directory *)
  loaded,                                (* whose bytes each slot of RAM holds *)
  gp, tohost_ram, htif_exit_code,        (* x3, RAM at tohost, the simulator's code *)
  phase, i,
  total_executed, prev_pc, stale_count, exit_code,
  results,                               (* the verdicts printed              *)
  result,                                (* of the last rv_step               *)
  reported, reporter, exited             (* history: what was reported in this
                                            run by gp, by which program's code, and
                                            what by an exit                    *)

said == <<reported, reporter, exited>>
guest == <<loaded, gp, tohost_ram, htif_exit_code, said>>
loop == <<total_executed, prev_pc, stale_count, exit_code, result>>
input == <<runner, suite>>
runvars == <<vars, input, guest, phase, i, loop, results>>

ByGp == {"riscv_tests", "benchmark"}
Program_i == suite[i]

-----------------------------------------------------------------------------
RunInit ==
  /\ Init
  /\ runner \in ByGp \union {"benchmark_htif", "herve_main"}
  /\ suite \in [1 .. SuiteLen -> Programs]
  /\ loaded = Empty /\ gp = 0 /\ tohost_ram = 0 /\ htif_exit_code = 0
  /\ phase = "start" /\ i = 1
  /\ total_executed = 0 /\ prev_pc = 0 /\ stale_count = 0 /\ exit_code = -1
  /\ result = 0
  /\ results = <<>>
  /\ reported = "none" /\ reporter = NoProgram /\ exited = -1

\* rv_init of 2 GB, rv_set_ram of an mmap'ed buffer.
GetRam ==
  /\ phase = "start" /\ runner # "herve_main"
  /\ \/ /\ runner = "riscv_tests" /\ RvInit /\ ram' \in {Blank, NoRam}
        /\ phase' = IF ram' = Blank THEN "load" ELSE "done"
     \/ /\ runner # "riscv_tests" /\ RvSetRam(Blank)
        /\ phase' = "load"
  /\ UNCHANGED <<input, guest, i, loop, results>>

\* The segments of p but those in the slots out are copied over what RAM holds.
Over(held, p, out) ==
  [slot \in Ram |-> IF slot \in p.linked \ out THEN p ELSE held[slot]]

\* herve_main does not look at the result of rv_init_elf, which clears RAM first and
\* may leave out segments of its own.
InitElf ==
  /\ phase = "start" /\ runner = "herve_main" /\ phase' = "reset"
  /\ RvInitElf
  /\ IF initialized'
     THEN /\ \E out \in {{}, Program_i.left_out} : loaded' = Over(Empty, Program_i, out)
          /\ ram' = ImageOf(loaded') /\ pc' = Program_i.entry
     ELSE loaded' = loaded
  /\ UNCHANGED <<input, gp, tohost_ram, htif_exit_code, said, i, loop, results>>

\* rv_load_elf of the next program.  A file it refuses, or whose entry is 0, is
\* skipped.  A segment that does not fit, or that the file is too short for, is left
\* out without an error, and what RAM held there stays.  RAM at tohost is cleared if a
\* segment covers it.
LoadElf ==
  /\ phase = "load"
  /\ \/ /\ loaded' = Over(loaded, Program_i, Program_i.left_out)
        /\ RvLoadElf(ImageOf(loaded'))
        /\ tohost_ram' \in {0, tohost_ram}
        /\ phase' = IF Program_i.entry = 0 THEN "next" ELSE "reset"
     \/ phase' = "next" /\ UNCHANGED <<vars, loaded, tohost_ram>>
  /\ results' = IF phase' = "next" THEN Append(results, "skip") ELSE results
  /\ UNCHANGED <<input, gp, htif_exit_code, said, i, loop>>

\* Mutant of ResetRegs: the registers keep their values.
ResetRegsNot == gp' = gp

ResetRegs == gp' = 0

\* Mutant of NewRun: the runner's count goes on from one program to the next.
NewRunKeepsCount ==
  /\ prev_pc' = 0 /\ stale_count' = 0 /\ exit_code' = -1 /\ result' = 0
  /\ UNCHANGED total_executed

NewRun ==
  /\ total_executed' = 0 /\ prev_pc' = 0 /\ stale_count' = 0
  /\ exit_code' = -1 /\ result' = 0

\* rv_reset, which does nothing without memory, and the runner's local variables.
Reset ==
  /\ phase = "reset" /\ phase' = "call"
  /\ \/ initialized /\ RvReset(IF runner = "herve_main" THEN pc ELSE Program_i.entry)
     \/ ~initialized /\ UNCHANGED vars
  /\ ResetRegs /\ NewRun
  /\ reported' = "none" /\ reporter' = NoProgram /\ exited' = -1
  /\ UNCHANGED <<input, loaded, tohost_ram, htif_exit_code, i, results>>

-----------------------------------------------------------------------------
(* One call of rv_step.                                                    *)

\* Mutant of GoesOn: the native runner does not look at --max-cycles.
GoesOnForever ==
  IF runner = "herve_main" THEN ~htif_halted
                           ELSE total_executed < MaxInsns

\* The loop's condition.
GoesOn ==
  IF runner = "herve_main" THEN mcycle < MaxInsns /\ ~htif_halted
                           ELSE total_executed < MaxInsns

StopLoop ==
  /\ phase = "call" /\ ~GoesOn
  /\ phase' = "judge"
  /\ UNCHANGED <<vars, input, guest, i, loop, results>>

\* Where the call's result is known.
Returns ==
  /\ phase' = IF busy' THEN "step" ELSE "after"
  /\ result' = IF busy' THEN result ELSE IF traps' # traps THEN 1 ELSE executed
  /\ UNCHANGED <<input, loaded, i, total_executed, prev_pc, stale_count, exit_code,
                 results>>

CallStep ==
  /\ phase = "call" /\ GoesOn
  /\ StepRefused \/ StepTrap \/ StepStart(Batch)
  /\ Returns
  /\ UNCHANGED <<gp, tohost_ram, htif_exit_code, said>>

\* Of the program the instruction belongs to.
mark == loaded[pc].mark[pc]
ByHalf == pc \in loaded[pc].half

\* The value a mark stands for in gp, as an exit code, and as a word at tohost.
GpOf(m) == CASE m = "pass" -> 1 [] m = "fail" -> 2
CodeOf(m) == IF m = "fail" THEN 1 ELSE 0
WordOf(m) == CASE m = "request" -> 2 [] m = "wild" -> 4 [] OTHER -> 2 * CodeOf(m) + 1

\* The test bench answers MMIO from an array and drives no interrupt line.
Execute ==
  /\ phase = "step"
  /\ ExecPlain \/ (ExecMmio /\ irq_mask' = irq_mask) \/ ExecMret \/ ExecWfi
       \/ ExecCsr \/ StepEnd
  /\ ~(Insns("plain") /\ mark # "none")
  /\ Returns
  /\ UNCHANGED <<gp, tohost_ram, htif_exit_code, said>>

\* The program sets gp.
ReportGp ==
  /\ phase = "step"
  /\ Insns("plain") /\ ExecPlain /\ mark \in {"pass", "fail"} /\ ~ByHalf
  /\ gp' = GpOf(mark) /\ reported' = mark /\ reporter' = loaded[pc]
  /\ Returns
  /\ UNCHANGED <<tohost_ram, htif_exit_code, exited>>

\* A halfword store to tohost.
ReportHalf ==
  /\ phase = "step"
  /\ Insns("plain") /\ ExecPlain /\ mark # "none" /\ ByHalf
  /\ tohost_ram' = WordOf(mark)
  /\ Returns
  /\ UNCHANGED <<gp, htif_exit_code, said>>

\* A word store of an odd value to tohost: htif_process_request.
ReportWord ==
  /\ phase = "step"
  /\ ExecExit
  /\ htif_exit_code' = CodeOf(mark) /\ exited' = CodeOf(mark)
  /\ Returns
  /\ UNCHANGED <<gp, tohost_ram, reported, reporter>>

-----------------------------------------------------------------------------
(* What a runner does with the result.                                     *)

TimedOut == total_executed >= MaxInsns \/ stale_count >= MaxStale

\* Mutant of HandleHtif: the exit code is taken without the shift.
HandleHtifUnshifted ==
  IF runner = "benchmark_htif"
  THEN /\ exit_code' = IF tohost_ram % 2 = 1 THEN tohost_ram ELSE -1
       /\ tohost_ram' = IF tohost_ram % 2 = 1 THEN tohost_ram ELSE 0
  ELSE UNCHANGED <<exit_code, tohost_ram>>

\* handle_htif: an exit is left in RAM, a request is acknowledged.
HandleHtif ==
  IF runner = "benchmark_htif"
  THEN /\ exit_code' = IF tohost_ram % 2 = 1 THEN tohost_ram \div 2 ELSE -1
       /\ tohost_ram' = IF tohost_ram % 2 = 1 THEN tohost_ram ELSE 0
  ELSE UNCHANGED <<exit_code, tohost_ram>>

\* handle_htif does not check the pointer of a request: one that leads out of RAM
\* ends the process, unless what it finds there can be read and is taken for a request
\* like any other.  (By the time of JudgeHtif every request was acknowledged.)
WildRequest ==
  /\ phase = "after" /\ runner = "benchmark_htif" /\ tohost_ram = WordOf("wild")
  /\ phase' = "crashed"
  /\ UNCHANGED <<vars, input, guest, i, loop, results>>

AfterMain ==
  /\ phase = "after" /\ runner = "herve_main"
  /\ phase' = IF result = 0 /\ ~htif_halted THEN "judge" ELSE "call"
  /\ UNCHANGED <<vars, input, guest, i, loop, results>>

\* The loop breaks on a result of 0, on an exit, or when pc is where it was for
\* MaxStale batches.
AfterCall ==
  /\ phase = "after" /\ runner # "herve_main"
  /\ HandleHtif
  /\ total_executed' = total_executed + result
  /\ LET ends == result = 0 \/ exit_code' >= 0
     IN  /\ stale_count' = IF ends THEN stale_count
                           ELSE IF pc = prev_pc THEN stale_count + 1 ELSE 0
         /\ prev_pc' = IF ends THEN prev_pc ELSE pc
         /\ phase' = IF ends \/ stale_count' >= MaxStale THEN "judge" ELSE "call"
  /\ result' = 0
  /\ UNCHANGED <<vars, input, loaded, gp, htif_exit_code, said, i, results>>

Verdict(good) == IF good THEN "pass" ELSE "fail"

JudgeGp ==
  /\ phase = "judge" /\ runner \in ByGp /\ phase' = "next"
  /\ results' = Append(results, IF TimedOut THEN "skip" ELSE Verdict(gp = 1))
  /\ UNCHANGED <<vars, input, guest, i, loop>>

JudgeHtif ==
  /\ phase = "judge" /\ runner = "benchmark_htif" /\ phase' = "next"
  /\ IF exit_code >= 0 \/ TimedOut THEN UNCHANGED <<exit_code, tohost_ram>>
                                   ELSE HandleHtif
  /\ results' = Append(results, IF exit_code' >= 0 THEN Verdict(exit_code' = 0)
                                                   ELSE "skip")
  /\ UNCHANGED <<vars, input, loaded, gp, htif_exit_code, said, i, total_executed,
                 prev_pc, stale_count, result>>

\* main returns rv_get_exit_code().
JudgeMain ==
  /\ phase = "judge" /\ runner = "herve_main" /\ phase' = "done"
  /\ results' = Append(results, Verdict(htif_exit_code = 0))
  /\ UNCHANGED <<vars, input, guest, i, loop>>

NextProgram ==
  /\ phase = "next"
  /\ IF i < Len(suite) THEN phase' = "load" /\ i' = i + 1 ELSE phase' = "done" /\ i' = i
  /\ UNCHANGED <<vars, input, guest, loop, results>>

RunNext ==
  \/ GetRam \/ InitElf \/ LoadElf \/ Reset
  \/ StopLoop \/ CallStep \/ Execute \/ ReportGp \/ ReportHalf \/ ReportWord
  \/ AfterMain \/ AfterCall \/ WildRequest
  \/ JudgeGp \/ JudgeHtif \/ JudgeMain \/ NextProgram

\* One thread, which never waits for anything.
RunSpec == RunInit /\ [][RunNext]_runvars
RunFairSpec == RunSpec /\ WF_runvars(RunNext)

-----------------------------------------------------------------------------
(* Properties.                                                             *)

RunTypeOK ==
  /\ TypeOK
  /\ runner \in ByGp \union {"benchmark_htif", "herve_main"}
  /\ suite \in [1 .. SuiteLen -> Programs] /\ i \in 1 .. SuiteLen
  /\ loaded \in Held /\ (initialized => ram = ImageOf(loaded))
  /\ gp \in 0 .. 2 /\ tohost_ram \in 0 .. 4 /\ htif_exit_code \in {0, 1}
  /\ phase \in {"start", "load", "reset", "call", "step", "after", "judge", "next",
                "done", "crashed"}
  /\ total_executed \in 0 .. MaxInsns + Batch - 1 /\ result \in 0 .. Batch
  /\ prev_pc \in Addr /\ stale_count \in 0 .. MaxStale /\ exit_code \in -1 .. 1
  /\ results \in Seq({"pass", "fail", "skip"})
  /\ reported \in Mark /\ reporter \in Programs \union {NoProgram} /\ exited \in -1 .. 1

\* The instruction counts the suite runners print (and divide by the time) are
\* the hart's own: no batch is lost or counted twice, no interrupt is taken, and
\* nothing is carried over from the program before.
CountsInstructions ==
  runner # "herve_main" /\ phase \in {"call", "step", "after", "judge"}
    => /\ traps = 0
       /\ total_executed + executed + result = mcycle

\* Where the instruction at slot a may lead; MRET, to the mepc of any program before.
Successors(p, a) ==
  LET insn == p.image[a]
  IN  CASE insn.op \in {"stop"} -> {}
        [] insn.op = "mret" -> Addr
        [] insn.op \in {"jump", "cjump", "branch"} -> {insn.to, NextSlot(a)}
        [] OTHER -> {NextSlot(a)}

\* The program starts in its own segments and never jumps out of them.
Confined(p) == p.entry \in p.linked /\ \A a \in p.linked : Successors(p, a) \subseteq p.linked

\* The runner prints PASS by gp.
PrintsPass == JudgeGp /\ results'[Len(results')] = "pass"

\* PASS is printed by gp only if gp was set to 1 in this very run, and the hart can
\* execute nothing more (rv32_dpi_riscv_tests.cpp, "We stopped on ECALL/EBREAK").  It
\* is the named program's own instruction that set it, whatever programs RAM held
\* before, if that program keeps to its segments and rv_load_elf left none of them out;
\* if it left some out, the pass may be that of an earlier program (PassIsItsOwn).
PassIsEarned ==
  [][PrintsPass =>
       /\ reported = "pass" /\ stalled
       /\ Program_i.left_out = {} /\ Confined(Program_i) => reporter = Program_i]_runvars

\* herve_main's --max-cycles is checked between batches: a program may run past it,
\* by less than a batch.
CyclesBounded == runner = "herve_main" => mcycle < MaxInsns + Batch

\* Every runner gets through its suite, whatever the programs do: loop, sleep, stop,
\* exit, or hand over a pointer that ends the runner itself.
RunnersEnd == <>(phase \in {"done", "crashed"})

-----------------------------------------------------------------------------
(* What the documents say and the code does not do.                        *)

\* benchmark_results.md: "exit_code == 0 means PASS".  The simulator takes the word
\* store to tohost, and the RAM the runner looks at never changes.
ExitZeroPasses ==
  [][JudgeHtif /\ exited = 0 => results'[Len(results')] = "pass"]_runvars

\* rv32_dpi.h: rv_load_elf returns "0 on failure", and run_test reports a load that
\* failed.  A program none of whose segments was loaded has an entry all the same, and
\* a confined program that is printed as passed may have executed nothing of its own.
PassIsItsOwn ==
  [][PrintsPass /\ Confined(Program_i) => reporter = Program_i]_runvars
=============================================================================
