# Formal model of herve

herve (`src/dpi-riscv/`) is an RV32IMC instruction-set simulator written in C,
called through DPI by SystemVerilog test benches and by native programs that run
test suites, benchmarks and profiles. This directory holds TLA+ modules of its
control, its address map, its data path and the floating-point library its guests link,
TLC configurations that check them on small instances, and proofs that
TLAPS checks for every value of the constants.

Paths below are relative to `src/dpi-riscv/`; `iss/`, `harness/`, `bus/` and `dut/`
are under its `sim/`.

## 1. Inventory

| Component | State | Operations | Talks to | Hard part | Correct when |
|---|---|---|---|---|---|
| Hart and step loop, `iss/rv32_dpi.c` | `pc`, CSRs, `irq_mask`, `wfi_sleep`, `mcycle`, `htif_halted` | `rv_init*`, `rv_load_elf`, `rv_set_ram`, `rv_reset`, `rv_set_irq`, `rv_step` | called by every bench and runner; calls back `dpi_mmio_*` | a trap only at batch boundaries; `rv_set_irq` called while `rv_step` is on the stack; each loader resets a different part of the state | handlers are not re-entered, results agree with `mcycle`, pending lines are served, a stopped hart stays stopped |
| Instruction data path, compressed decoder, `iss/rv32_dpi.c` | `x[]`, `pc` | `execute_instruction`, `execute_compressed` | hart, memory | immediates assembled bit by bit; `rv_step` guesses from `pc` whether a compressed instruction jumped; division at its edges | a 16-bit instruction does what its expansion does; products and quotients agree with one another |
| Memory and address decoding, `iss/rv32_dpi.c` | `memory[]`, HTIF words, the bench's registers | `read_*`, `write_*`, `htif_process_request` | hart, benches | HTIF window decoded for words only; sub-word MMIO writes are read-modify-write; address arithmetic wraps | a load returns the last store; no access leaves `memory[]` |
| ELF and binary loading, `iss/rv32_dpi.c` | `memory[]`, `memory_base`, RAM ownership | `rv_init`, `rv_init_from_buffer`, `rv_init_elf`, `rv_load_elf`, `rv_set_ram` | runners | partial failure; 0 is both an entry and an error; a segment left out leaves the last program's bytes; two ways to place a segment | the program run is the program named, and its bytes are where it was linked |
| Machine-timer bench: `harness/tb_top_zephyr.sv`, two main loops, `firmware_timer.S` | `mtime`, `mtimecmp`, the line, loop counters | clock edge, batch, MMIO access | hart | the line carries the comparison of before the edge; up to five batches per cycle; handler may span edges | one interrupt per period, in time |
| AHB bench: `bus/ahb_lite_bfm.sv`, `dut/ahb_gpio.sv`, `harness/tb_top_ahb.sv`, `rv32_dpi_ahb_tb.cpp`, `firmware_ahb.S` | bridge FSM, registers, request handshake | `ahb_transaction`, clock edges, four calls of `rv_step` | hart | clock runs inside a load or store; a store is on the bus for several edges; phase of the clock at the call | accesses are atomic and answered; the self-test's verdict |
| Runners: `iss/rv32_dpi_riscv_tests.cpp`, `rv32_dpi_benchmark.cpp`, `rv32_dpi_benchmark_htif.cpp`, `herve_main.c` | counts, stale-`pc` detection, verdicts | load, reset, step, judge, per program | hart | state left by the previous program; two copies of `tohost`; limits looked at between batches | counts and verdicts are this program's own; the runner ends |
| Profiler and symbol table: `iss/herve_profiler.c` | call graph, last function, last jump kind | enable, record, look up | hart | an edge is deduced one instruction late; traps and MRET are not recorded | edges are the calls that were made, but for one for each trap or MRET |
| `dut/rv_timer.sv` | `mtime`, `mtimecmp` | bus writes, tick | nothing: not instantiated | its interrupt is registered a cycle later | as the Zephyr timer |
| MMIO-register, MUL/DIV, RVC benches: `harness/rv32_dpi_mmio_regs_tb.cpp`, `rv32_dpi_muldiv_tb.cpp`, `iss/rv32_dpi_c_test.cpp`, `vpi/rv32_dpi_vpi.c` | a register file in the window | build a program in RAM, run it, compare | hart, memory | a store of a byte is a read and a write of a register | the registers hold what the program computed |
| Basic and IRQ benches | small register files | scripted calls | hart | - | behaviours of the hart's model |
| Software floating point, `softfloat.c` | none | `__adddf3` ... `fma` | linked into the matrix benchmark | rounding, carries, cancellation, exponents at their ends, shifts past a word | errors bounded, comparisons consistent |
| VPI, Icarus, ModelSim bindings; blinky; newlib and Zephyr glue; build and test scripts | little or none | wrappers, routines, shell | - | - | - |

Everything runs on one thread. There is no persistence. The concurrency is the
callback: an MMIO access leaves `rv_step` for the bench, whose clocked process
may call `rv_set_irq` before it comes back; and the order in which the benches
interleave clock edges, batches and accesses.

`PROJECT.json` lists every component with its status, and every hazard at its line.

## 2. Modules

| Module | Models | Uses |
|---|---|---|
| `Rv32Core` | the hart's control: every setup call, `rv_step` split into its entry, each instruction and its return | |
| `PeriodicTick` | abstract: what a periodic timer interrupt promises | |
| `TimerSystem` | the timer bench with its firmware, under both main loops | extends `Rv32Core`, implements `PeriodicTick` |
| `RegisterPort` | abstract: atomic access to registers with an interrupt line | |
| `AhbBus` | bridge, slave, interrupt wiring and `ahb_transaction`, half a clock period per step | implements `RegisterPort` |
| `AhbSystem` | the AHB self-test: hart, firmware, bus, `main` | extends `Rv32Core` and `AhbBus` |
| `Runners` | the four native programs | extends `Rv32Core` |
| `Profiler` | `herve_profiler_record_insn`, symbol lookup, the three programs that profile | extends `Rv32Core` |
| `FlatMemory` | abstract: a byte-addressed store | |
| `Rv32Memory` | the address map: loads and stores of every width over RAM, MMIO and HTIF, the host requests, and every loader | implements `FlatMemory` twice |
| `Rv32Insn` | `execute_instruction`, `execute_compressed`, and the benches' encoders and programs | |
| `RvcTable` | the RVC chapter's expansions, and the properties of `Rv32Insn` | extends `Rv32Insn` |
| `SoftFloat` | the functions of `softfloat.c` | |
| `*MC` | values of the constants for TLC | |
| `*Proofs` | theorems and proofs | |

**How the hart corresponds to the code.** A firmware image is a function from
slots to instructions of the kinds the control distinguishes: ordinary
instructions and jumps by where they leave `pc`, MMIO accesses, a `tohost` store, instructions
that end the batch (ECALL, EBREAK, illegal), MRET, WFI and CSR writes. A slot is
four bytes; what an ordinary instruction computes is left out. `irq_mask`, `mie` and
`mstatus` are sets of bit numbers. `StepNone` (called with
`max_instructions` of 0 or less), `StepRefused`, `StepTrap` and `StepStart` are the ways through the head of `rv_step`, the `Exec*` actions one pass through its loop, and
`StepEnd` its return: so the state between two instructions of a batch is visible, and
`ExecMmio` may change `irq_mask` there. `rv_reset` and the loaders assign exactly the
variables their functions assign, with their failure paths: `rv_init_elf` may fail with the HTIF
state already cleared, before or after the old memory was freed. `returned`,
`traps`, `handler` and `stalled` are history variables: they are read by properties only.

**Timer bench.** One step is a clock edge (`Posedge`), the head of a call, an instruction
or the end of the loop body (`Check`). The edge samples the comparison of before the edge, which is
what the non-blocking assignments in `tb_top_zephyr.sv` do. The firmware is
in the module slot by slot; its register accesses act on the timer and on the one
guest register that carries a value across instructions (`t2`). Batches are of one instruction and more: with `-n 0`, which the
benches do not refuse, no instruction would ever run.

**AHB bench.** `AhbBus` moves by half-periods (`Tick`), with `ahb_transaction` as the states
request, drain and reply. `AhbSystem` holds the hart still between `BeginAccess` and
`EndAccess`; `irq_mask` takes the value of the last `rv_set_irq` of the access when it
ends, which no step in between can tell from setting it at once.

**Memory.** `Rv32Memory` has no hart: the guest makes any sequence of the eight loads and stores of `Loads` and
`Stores`, and between them the host calls any loader. `Read` and `Store` follow the order in which
`read_u8/16/32` and `write_u8/16/32` test the windows, `valid_memory_access` has the wrap of its 32-bit sum, and
an access it lets past the end of `memory[]` sets `crashed`. A byte has `BYTE` values
and addresses end at `TOP = BYTE^4`, so the wrap at 2^32 is reached. `Request` is `htif_process_request`: what it reads past
the end of RAM (up to 27 bytes, `rv32_dpi.c:148-151`) may look like a request, and that it reads there never sets `crashed`: `CrashOnlyAtTop` is
about the guest's accesses and the loaders' copies. The read and the write of the bench that a narrow MMIO store consists of are one step:
`DeviceIsFlat` is about the lanes they keep, not about what a register that acts on being read would do. An executable is a set of segments; header parsing is left out, and so is the file's
order of its segments, which the assumption that they do not overlap makes irrelevant. The bench behind the window is the
register file that `tb_top_mmio_regs.sv` and `rv32_dpi_vpi.c` have. `RamIsFlat` and `DeviceIsFlat` map RAM and those
registers to the one abstract store: `ServedByRam` and `ServedByDevice` say for which accesses.

**Instructions.** `Rv32Insn` runs what the benches put into RAM, one turn of the loop of `rv_step` per step. A load returns
any one word (`hart.data`) and a store is a request that the bench's registers may take, as the address map is in
`Rv32Memory`; CSR instructions and traps are in `Rv32Core`. A word has `W` bits; instructions keep their 32
and 16. `AfterCompressed` is `rv_step`'s test of `pc`. `HostShift` is the outcome of a C shift by 32 or more. `RvcTable` writes the ISA's
tables down a second time, as bit positions and weights, and runs the expansion through `execute_instruction`.

**Soft float.** One call per behaviour of `SoftFloat`, on any arguments of a set. A double is a record of sign, exponent and mantissa,
with the widths as parameters; special cases, alignment, normalisation and packing are those of the C functions, in their
order. `Product` is the arithmetic on half words `__muldf3` builds its 106 bits from, with the carries between its two words.
`Quotients` and `fixdfsi` are sets, as the code shifts by more than a word there.

**Three views of one file.** `Rv32Core`, `Rv32Memory` and `Rv32Insn` all model `rv32_dpi.c`, each without what the others
have: the first has control and CSRs, the second addresses and bytes, the third registers and values. They share no variables; what one
leaves to another is nondeterministic in it or ranges over a set.

**Runners.** `runner` picks the executable, `suite` its directory listing. `loaded` says for each slot of RAM
which program's bytes it holds: `rv_load_elf` copies a program's segments over what RAM held (`Over`), leaves out those that do not fit or that the
file is too short for, and clears nothing. `LoadElf` is that or a file refused. `WildRequest` ends a runner that follows
a request pointer out of RAM. A word store to `tohost` goes
to the simulator's flag (`ReportWord`), a halfword store to RAM (`ReportHalf`), because
`write_u32` knows the HTIF window and `write_u16` does not.

**Profiler.** `RecordInsn` is `herve_profiler_record_insn`. `Observe` is the independent account of
what ran: each call or tail call from one function to another at the moment it is made, and each trap or MRET (`disturbances`).
The three places in the code that record are one predicate (`Recorded`), and `rv_step`'s two loops, with and without the profiler, are one:
that profiling leaves the hart alone is read off the code, not checked.

## 3. Runs

| Run | Expected | Distinct states | Question |
|---|---|---|---|
| `core` | pass | 343,494 | Under any order of loads, resets, lines and batches: do traps, results, sleep and halt stay consistent, is an enabled pending line served, and does each call return? |
| `timer` | pass | 9,462 | For 30 batch sizes and both loops: one interrupt a period, in time, asleep before the next edge? |
| `ahb_bus` | pass | 39,413 | Is every access atomic, answered, and the bus idle after it? |
| `ahb_system` | pass | 2,669 | Does the self-test end with its verdict, and is no trap taken on a stale line? |
| `runners` | pass | 33,381 | Are counts and passes right for any suite, and does the runner end? |
| `runners_exit` | violation | | "`exit_code == 0` means PASS": such a benchmark is printed as skipped. |
| `runners_pass` | violation | | "or 0 on failure": a test none of whose segments was loaded is printed as passed, by the test before it. |
| `profiler` | pass | 310,076 | Do edges and calls agree with what ran? |
| `memory` | pass | 152,824 | Are RAM and device registers byte stores, do loaders place what they load, can an access leave `memory[]`, and is the exit the one in `tohost`? |
| `insn` | pass | 202,752 | Does every 16-bit instruction do what its expansion does, outside the departures listed, and do products and quotients agree? |
| `rvc_equivalent` | violation | | "Expands 16-bit compressed instructions into their equivalent RV32I operations": a compiler's stack frame refutes it. |
| `softfloat` | pass | 1,082,748 | How far off can sums, products and conversions be, and are comparisons numeric? |

Every property of a passing run has a mutant: a definition altered as a plausible
bug would alter the code, under which the property fails.

### Bounds

- `Rv32Core`: six slots of RAM and one unmapped, two interrupt lines plus the MIE bit,
  batches of up to 2, `mcycle` modulo 3. Two lines are what priority and
  acknowledging one of them need; two instructions give a batch with an inside; the seventh slot is a
  fetch outside memory. `mcycle` and the sum of results wrap together, as in C, and only their
  difference matters. Two images, which replace one another at any time: an interrupt loop with WFI, whose vectored handler masks a
  line and returns or stops; and a critical section with a device access, run as a handler too, which enables interrupts again,
  loops or exits. Writes of `mepc` are left to the proofs.
- `TimerSystem`: a period of 6 for 50000 and 28 clock cycles, four periods, in a
  word of 64. The period need only be longer than the two cycles that a trap and its handler can span with
  batches of one. Batch sizes 1 to 30, under each main loop, cover every alignment of the 11-instruction boot and the 9-instruction handler
  with the batch boundaries; above 30 all are in one batch. `OnTime` and `SleepsBeforeEdge` are claimed for batches large enough
  for the handler (`Roomy`: 3 with five calls a cycle, 8 with one). `ClockTicks` is the harness's own
  limit, which is why the run may stop and deadlock is not checked.
- `AhbBus`: register values 0 to 2 (clear, set, and a nonzero value whose low bit is
  clear); a timeout of 8 half-periods for 100, of which 6 are ever used. Nothing bounds the
  number of accesses.
- `AhbSystem`: batches of 8 to 24. Below 8 the fixed four calls end before the
  verdict (section 6); above 24 a batch always ends by polling or at the ECALL. The
  self-test ends, so deadlock is not checked.
- `Runners`: suites of two of twelve programs, batches of 3 for 1000, a limit of 7, 2 stale checks. Two
  programs show what one leaves to the next, in registers and in RAM: one covers all of it, one half of it, and of two some or all segments
  are left out; 7 is not a multiple of 3, so the
  limit is passed. A negative `--max-cycles` (`MaxInsns` below 1) is left out: the program would not run at all. `runners_pass` takes the three
  tests its behaviour needs. The runner ends, so deadlock is not checked.
- `Profiler`: eight slots, one line, batches of up to 3, no call from `mcycle` 9 on (`MaxInsns`). The images
  have a call, a return, a tail call, a branch out of a function, an overlapping symbol, two functions of
  one name, code without a symbol, a handler, and MRET used as a jump.

- `Rv32Memory`: bytes of 4 values and so 256 addresses; a window of 12 bytes with one register, so that an access may
  miss it; RAM of up to 16 bytes, which the loaders put at 0, around the HTIF window, just below the top of the address space or at
  it. Four programs: two segments at 0, a high one whose data looks like a request, one near the top
  and one whose end wraps. Twelve addresses, among them each window's edges, misaligned ones and the last bytes of RAM. Two guest accesses
  (`MaxOps`) between any placements: the store and the load that sees it. RAM, registers and HTIF words are all
  that one access leaves to the next, so a longer run only repeats the pair from other contents.
- `Rv32Insn`: words of 15 bits (13 to 32 in the proofs), which hold every immediate but the upper part of LUI's; all 49,152 encodings of quadrants 0 to 2, on two register
  files (even values with zeros, odd and large ones); the MUL/DIV program for 256 pairs of operands around 0, 2^11, 2^12 and
  the sign. A word of 15 bits still has shifts past its width, and 2 * 15 bits is what TLC's integers hold. The programs end, so
  deadlock is not checked.
- `SoftFloat`: doubles of 6 mantissa and 4 exponent bits, singles of 2 and 3, in words of 8 bits, which keeps the relations the code
  relies on: a sum with its carry fits a word, a product does not, a single fits a double. Every exponent with six mantissas (0, 1, 2, 27, 62, 63), in
  pairs; with one pair of them, every addend of `fma`, every single and every int. One call and the program ends, so deadlock is not checked.

No symmetry is used: lines differ by priority, slots by their instruction.

### Fairness

One thread runs everything, and no call waits for another actor, so weak fairness
of the whole next-state relation is what the code gives: `SysFairSpec` in
`AhbSystem` and `RunFairSpec` in `Runners`. In `Rv32Core` the callers are arbitrary, so `FairSpec` asks
only that a call in progress goes on (`Exec \/ StepEnd`), and that the harness calls `rv_step` again, for at
least one instruction, which every main loop does. Nothing is assumed fair about lines, loads or resets.

## 4. What is proved

For any word size, image, batch size, period, timeout, suite and symbol table within the named
assumptions of the modules:

- **Hart** (`Rv32CoreProofs`): types; `ReturnsAccount`, `HandlerAtomic`, `StalledStays`,
  and, without a run, `HaltedRetiresNothing`. None of these is inductive. The inductive invariant
  `CoreInv` is the conjunction of `CallInv` (a call is in progress only on an awake hart with memory, and was not
  entered with an interrupt to take), `HandlerInv` (in a handler MIE is clear and `mepc` is the instruction cut
  off), `StallInv` (why a hart whose last call returned 0 can do no more) and
  `ReturnsAccount`. Each is shown action by action; the action properties then follow
  from `CoreInv` and one step. `core` checks `CoreInv` as an invariant.
- **Timer** (`TimerSystemProofs`): interrupts of `PeriodicTick` are a period
  apart, from `DueAhead`; handlers are atomic and cycles accounted for on the bench too, as its steps are the hart's; types; and
  `KeepsPeriod`, `OnTime` and `SleepsBeforeEdge`, in three layers. `BenchInv` says what the firmware has set up by the time `pc` is where it is
  (`Where`, `Registers`) and what the main loop has done by its phase (`Main`). `SchedInv` counts instructions: how far each call of a clock
  cycle has brought the firmware, in boot, in the handler with batches of one, and with larger ones, and when the line can be up in the WFI loop; it
  is what makes each trap start from a line that is still true, and so maps every step to `PeriodicTick`. `TimeInv` counts again for `Roomy` batches, where
  the handler ends in the cycle it begins in, or with one call a cycle in the next.
- **AHB** (`AhbSystemProofs`): types, the six-half-period answer, quiet between accesses, and
  the refinement of `RegisterPort`, from `BusInv`, which says for each state of the caller's loop where the
  bridge is, what is on the bus, and whether the line agrees with the register. The self-test's own variables have their types; with `AccessInv` (an access only inside a
  call) and `LineInv` (outside an access the hart's line is the bus's or was acknowledged) no trap is stale. `SelfTestPasses` holds for every
  batch size of at least eight: `SelfInv` says what each instruction finds in the registers (`RegistersInv`), that the first two calls reach
  the polling loop (`BeforeTrap`), and that the call after the trap has enough left of its batch to run to the end (`AfterTrap`, `ToGo`).
- **Runners** (`RunnersProofs`): types; `CountsInstructions`, `CyclesBounded` and
  `PassIsEarned`, from `RunInv` (the loop's counters against `mcycle`), `PassInv` (`gp` against what was
  reported, and why the loop ended), `PlaceInv` (a program that was loaded whole fills its segments) and `OwnInv` (a confined program that fills
  its segments has `pc` in them, and what was reported it reported). `NextIsSuccessor` says where an instruction leads. Without the two conditions
  `PassIsEarned` leaves open whose instruction it was, and `runners_pass` shows that it may be the last program's.
- **Profiler** (`ProfilerProofs`): types; and
  `EdgesExact`, whose invariant says that the edges recorded are the calls made but for the one
  still pending, which `Pending` computes from `last_cf`, `last_func` and `pc`, and for at most one for each trap or MRET: what these leave stale is used
  once, as the next instruction recorded replaces it (`DisturbedStep`). `CallsCoverEdges` compares a counter with
  a sum over the callers: with the types it is inductive, once `SumBump` shows, by induction over finite sets of names, that one more call of an edge
  adds one to the sum of its callee and to no other.
- **Memory** (`Rv32MemoryProofs`): types; `CrashOnlyAtTop`; `ExitIsTohost`; and `RamIsFlat`, the refinement of `FlatMemory`: for any
  width of a byte, address map, program and buffer, a load from RAM returns what was last stored there, byte by byte, and a store
  changes the bytes it names and no other. The type invariant is what carries it: `memory` has exactly `memory_size` bytes
  below `TOP`, so an access the check admits either lies in it or sets `crashed`. `LoadIsFlat` and `StoreIsFlat` are the two halves; an
  access that RAM does not serve, and a step of the host, change what the abstract store leaves open. `DeviceIsFlat` is the same for the
  bench's registers: `RegisterLanes` shows that the bytes of an access are consecutive lanes of one register, so the read, merge and write of a
  narrow store changes those and no other. `LoadersPlace` needs no induction: `NeededCovers` (the allocation spans the program),
  `SegmentCopied` (segments do not overlap, so one decides each byte) and `ReadsRam` (a byte load returns that byte).
- **Instructions** (`Rv32InsnProofs`): types, `MulDivLaws` and `CompressedExpands`. `MulDivLaws`: for every word of 13 to 32 bits and any two operands, the bench's program ends
  with the products and quotients that complete one another. `InsnInv` adds to the types that the register file and the program are what
  the encoders can produce; `BenchInv` says, for each of the 23 addresses `pc` can be at, which operands `load_imm` has built and
  which results are in the bench's registers. Under them lie lemmas on the data path itself: powers of 2, `Signed` and `Wrap` undo one another,
  `lui` and `addi` give the number back, `And` of words is a word and an upper product with the lower one is the whole product.
  Powers and `And` are recursive functions, so those lemmas use induction over sets of numbers. `CompressedExpands` holds for every
  encoding, program and register file (the run has two): `BitTable` writes each field as a sum of bits, so that the immediate
  the code shifts together and the manual's list of weights are two sums over the same bits (`ImmediateCI`, `ImmediateCJ` ...), equal
  where `Misread` does not say otherwise; the `Exec` lemmas encode each expansion and execute it; `JumpMatches` is the test of `pc` after a jump;
  and `Quadrant0Expands`, `Quadrant1Expands`, `Quadrant2Expands` put them together, one case per format.
- **Soft float** (`SoftFloatProofs`): `OrderIsNumeric` and `ErrorsBounded`, for every format `WidthAssumption` admits, IEEE's own among them, where
  the run has one small format. The invariant, `Returned`, is only that the result is one of the function called on typed arguments; the
  work is in the lemmas on the functions. `Doubling` and `PowerSum` give powers of any exponent their laws, by induction over finite sets.
  `SizeOrder` and `MagnitudeOrder` compare doubles by exponent and mantissa and `UnitOrder` their values; `RoundTrip` is that of a single.
  `ProductIsExact` adds up the four products of halves and the carries of `__muldf3`: its two words hold the whole product, and nothing is lost.
  `RoundedNear`, `NormalizedNear` and `TruncatedNear` bound what packing, normalising and narrowing lose, `FixedIsPart` what the shifts of the
  conversion to an int keep. A sum goes through `AlignedNear`, which bounds what the shifted-out addend loses, `ShiftExists`, and one lemma for each way
  of normalising: `SumIsNear`, `DifferenceIsNear`. The proof also shows that the second carry of `__adddf3` (`softfloat.c:179`) is never taken.
  `ErrorsBounded` is what the library gives, which is less than it claims: section 6 has the numbers for which it is off.

Assumptions on constants are the named `ASSUME`s; TLC evaluates each in a passing
run. The substantial ones: `BatchAssumption` (a batch is shorter than `mcycle`'s range),
`TimeoutAssumption` (at least 6 half-periods), `NoOverflowAssumption` (the timer's low word does not wrap, as the
firmware's comment says), `RunnerAssumption` and `InsnsAssumption` (`mcycle` does not wrap within a
run), that an image is not modified by the program in it, and, in `InputAssumption`, that the segments of an executable do not overlap
and that the bytes in its file are no more than those it has in memory, and, in `TimerAssumption`, that the period is at least 2; `NamesAssumption` (finitely many functions), `Rv32Insn`'s `WidthAssumption` (a word
holds the addresses of the bench's program and registers), `HostAssumption` (a shift of 32 or more gives some number) and
`InputsAssumption` (x0 starts as 0, and programs are made of instructions); `SoftFloat`'s `WidthAssumption` (the relations between the widths of the C
types that the code's shifts rely on) and `ArgumentsAssumption` (arguments are of those types).

**Only model-checked:** liveness (`PendingDelivered`, `CallReturns`, `SelfTestEnds`, `RunnersEnd`): fairness is out of the
prover's reach. Every safety property of a passing run is a theorem.

## 5. Not modelled

- A fetch in the last three bytes of the address space, where the bounds check wraps (`rv32_dpi.c:191`); `rv_set_ram` of no buffer or of
  size 0.
- Self-modifying code, and instruction fetch through the address map (`Rv32Core` has the fetch outside memory, `Rv32Insn` fetches
  from its program).
- Reading files and checking ELF headers, beyond their success or failure; a second `rv_init_elf`, which no program makes;
  the ownership flag of RAM, of which the loaders' results are modelled.
- The immediate forms of the CSR instructions. The instruction set of `iss/rv32_dpi_c_test.cpp` is
  modelled, its own expected values are not: its encoders are checked by none of its assertions.
- Cycle costs, instruction-type counts and the profiler's report; option parsing, traces, timing.
- `dut/rv_timer.sv` (no bench uses it), VPI/Icarus/ModelSim wrappers, the blinky demo, scripts.
- The benches assume that Verilator settles inputs before the clocked blocks run.

## 6. Disagreements seen in the source

Three have a run (section 3). The others were met while translating and have none.

Hart:

- `rv_step` returns 1 for a trap; `rv32_dpi.h` says "Number of instructions actually executed".
- A line that rises in an MMIO access waits for the end of the batch; `docs/arch.md:64` says it is looked at.
- WFI tests `irq_mask` without `mie` (`rv32_dpi.c:957`), the wake-up test uses both; with `mstatus.MIE` clear a pending line never wakes it
  (`firmware_irq.S:54`).
- `rv_reset` keeps `mstatus` and `mtvec`; `harness/rv32_dpi_zephyr_boot_tb.cpp:162` says it resets the CSRs.
- The immediate CSR forms take their operand from `rd` (`rv32_dpi.c:971`).
- `htif_halted` survives `rv_load_elf`, `rv_init` and `rv_reset`: benchmarks after the first that exits execute nothing.

Memory and loading:

- `rv_load_elf` ignores `memory_base`, and returns the entry point of a file none of whose segments was loaded; what RAM held is then run under
  the new name.
- LHU and LBU of MMIO are not zero-extended. In the HTIF window words go to the simulator, bytes and halfwords to RAM,
  and nothing of RAM there is read back; a fetch there reads 0.
- `addr - memory_base + width` wraps: an access up to the last address with RAM at 0 leaves `memory[]`, and `base + size` wraps for a
  program at the top, whose segments are passed over or, if one ends at 2^32, copied past the allocation.
- A high program larger than 2 MB, loaded with `ram_size` 0, loses the segments that do not fit, without an error.
- A failed `malloc` leaves `memory_base` as it was.

Compressed instructions (`Misread`, `Unreserved`, `Misjumps` in `RvcTable` are the exact list):

- The immediates of C.LW, C.SW, C.LWSP, C.ADDI16SP, C.SWSP, C.BEQZ and C.BNEZ take bits from the wrong places; C.SWSP also stores the wrong
  register. `debug_rvc_test30.md:129-136` lists C.SWSP as verified.
- C.JALR through `ra` jumps to its own link; C.JR and C.JALR keep bit 0; a compressed jump to itself falls through.
- Reserved encodings are executed, shifts by 32 or more among them, which C leaves undefined.

Soft float:

- The quotient of `__divdf3` is computed in 106 steps in a 64-bit word; 0 divided by a number is infinite.
- `__floatunsidf` starts its exponent at `EXP_BIAS + 31` for a mantissa it shifts to bit 52 (`softfloat.c:401`): the double of 1 is 2^-21. No
  part of `ErrorsBounded` is about it, nor about `__divdf3`.
- `normalize` tests bit 53 for the carry of its rounding, and of the mantissa alone (`softfloat.c:102-108`): a product that rounds up to the next
  power of two comes out as half of it. When the product of the mantissas reaches 2^105 it is cut off instead of rounded.
- `__adddf3` keeps what alignment shifts out in the lowest bit of the mantissa itself (`softfloat.c:147-154`), so that 1 + 2^-60 is 1 + 2^-52, and
  1 - (1 - 2^-53) is twice what it should be; after a carry it rounds a tie up, where the comment (`softfloat.c:171`) says to even.
  `test_softfloat.c:270-300` compares every bit with the host, on numbers none of this happens to. Subnormal results become 0.
- `__fixdfsi` shifts by 64 or more for small numbers, and finds an overflow only from 2^53 on.
- The comparison functions return truth values; the libgcc functions of their names return an ordering.

Benches and runners:

- `GPIO_OUT` reads as 0, so `firmware_timer.S:67` writes 1 each time it "toggles".
- `GPIO_IE` gates nothing (`ahb_gpio.sv:10`, `tb_top_ahb.sv:53`); reading `GPIO_STATUS` acknowledges nothing
  (`firmware_ahb.S:85`); phases 3 and 4 of the AHB test do other things than they print, and `-n` below 8 fails it.
- `rv32_dpi.c:1554` says `execute_instruction` already records: MRET is not recorded. An interrupt right after a call instruction is recorded as
  a call (`herve_profiler.c:239`); a return from an interrupt into another function counts as a call of it; a recursive call is not counted.
- The stale-`pc` test takes a counting loop whose length divides the batch for an endless one.
- `herve_main` exits with 0 when its program could not be loaded or ran out of cycles.

## 7. Plan

Done, in this order: `Rv32Core`, `PeriodicTick` and `TimerSystem`, `RegisterPort`, `AhbBus` and `AhbSystem`, `Runners`,
`Profiler`, `FlatMemory` and `Rv32Memory`, `Rv32Insn` with `RvcTable`, and `SoftFloat`, each with its proofs. Left:

1. `rv_timer` against `PeriodicTick`, with its registered interrupt.
2. The immediate forms of the CSR instructions in `Rv32Core`, and instruction fetch over `Rv32Memory`.
