------------------------------ MODULE Profiler -------------------------------
(***************************************************************************)
(* The profiler of herve_profiler.c with the symbol table of rv32_dpi.c,   *)
(* on top of the simulator of Rv32Core, as the programs that profile use   *)
(* them: herve_main.c and rv32_dpi_zephyr_standalone.c switch it on and    *)
(* load an ELF file, rv32_dpi_zephyr_boot_tb.cpp does it the other way     *)
(* round and also drives an interrupt line.                                *)
(*                                                                         *)
(* A function is entered where the symbol of one recorded instruction is   *)
(* not that of the one before; whether it was called is judged by the      *)
(* kind of the instruction before.  Costs in cycles and the breakdown by   *)
(* instruction type are left out.                                          *)
(***************************************************************************)
EXTENDS Rv32Core, Sequences, FiniteSetsExt

CONSTANTS
  Names,       (* the names of functions                                *)
  Listing,     (* the symbols of each image, and its jumps by their kind *)
  MaxInsns     (* bound: no call of rv_step is made at this mcycle      *)

\* CF_NONE is every instruction but a jump; "cjump" and "jump" differ in rd, rs1.
Kind == {"CF_NONE", "CF_CALL", "CF_RET", "CF_JUMP"}
Symbol == [addr: Addr, size: Addr, name: Names]

ASSUME ListingAssumption ==
  /\ Listing \in [Firmware -> [symbols: Seq(Symbol), kind: [Ram -> Kind]]]
  /\ \A image \in Firmware, a \in Ram :
       image[a].op \in {"jump", "cjump"} <=> Listing[image].kind[a] # "CF_NONE"
\* The symbol tables of finitely many files.
ASSUME NamesAssumption == IsFiniteSet(Names)
ASSUME InsnsAssumption == MaxInsns \in Nat /\ MaxInsns + MaxBatch < CycleMod

Edge == Names \X Names       \* caller, callee

VARIABLES
  phase,                          (* of the program: load, reset, run     *)
  symbols,                        (* an ELF file's functions              *)
  profiling_enabled,
  total_instructions,
  last_func, last_cf,             (* of the last recorded instruction     *)
  calls, call_pairs,              (* by function, by caller and callee    *)
  taken,                          (* history: the calls made since the
                                     profiler was enabled                 *)
  disturbances                    (* history: the traps and MRETs since   *)

graph == <<calls, call_pairs>>
profile == <<total_instructions, last_func, last_cf, graph>>
truth == <<taken, disturbances>>
profvars == <<vars, phase, symbols, profiling_enabled, profile, truth>>

-----------------------------------------------------------------------------
None == 0      \* NULL, for a symbol

Covers(sym, a) == sym.addr <= a /\ a < Plus(sym.addr, sym.size, SlotMod)

\* herve_get_symbol_at, which returns the first symbol that covers the address: its
\* place in the table stands for the pointer the profiler compares.
SymbolAt(a) ==
  LET hits == {n \in 1 .. Len(symbols) : Covers(symbols[n], a)}
  IN  IF hits = {} THEN None ELSE CHOOSE n \in hits : \A m \in hits : n <= m

Name(n) == symbols[n].name

Cleared ==
  /\ total_instructions' = 0 /\ last_func' = None /\ last_cf' = "CF_NONE"
  /\ calls' = [f \in Names |-> 0] /\ call_pairs' = [e \in Edge |-> 0]

ClearedTruth == taken' = [e \in Edge |-> 0] /\ disturbances' = 0

ProfInit ==
  /\ Init
  /\ phase = "load" /\ symbols = <<>> /\ profiling_enabled = FALSE
  /\ total_instructions = 0 /\ last_func = None /\ last_cf = "CF_NONE"
  /\ calls = [f \in Names |-> 0] /\ call_pairs = [e \in Edge |-> 0]
  /\ taken = [e \in Edge |-> 0] /\ disturbances = 0

\* herve_profiler_enable.
Enable(enable) ==
  /\ ~busy
  /\ profiling_enabled' = enable
  /\ IF enable THEN Cleared /\ ClearedTruth ELSE UNCHANGED <<profile, truth>>
  /\ UNCHANGED <<vars, phase, symbols>>

\* rv_init_elf, which no program calls twice; a file without symbols is one of the
\* listings.
LoadElf ==
  /\ phase = "load" /\ phase' = "reset"
  /\ RvInitElf
  /\ symbols' = IF initialized' THEN Listing[ram'].symbols ELSE symbols
  /\ UNCHANGED <<profiling_enabled, profile, truth>>

\* rv_reset(rv_get_pc()).
Reset ==
  /\ phase = "reset" /\ phase' = "run"
  /\ \/ initialized /\ RvReset(pc)
     \/ ~initialized /\ UNCHANGED vars
  /\ UNCHANGED <<symbols, profiling_enabled, profile, truth>>

SetIrq ==
  /\ phase = "run"
  /\ \E mask \in SUBSET Lines : RvSetIrq(mask)
  /\ UNCHANGED <<phase, symbols, profiling_enabled, profile, truth>>

\* A call of rv_step begins, is refused, or takes an interrupt, of which the profiler
\* is told nothing; StepEnd is its end.
CallStep ==
  /\ phase = "run"
  /\ (mcycle < MaxInsns /\ RvStep) \/ StepEnd
  /\ disturbances' = IF profiling_enabled /\ StepTrap THEN disturbances + 1
                                                     ELSE disturbances
  /\ UNCHANGED <<phase, symbols, profiling_enabled, profile, taken>>

-----------------------------------------------------------------------------
(* herve_profiler_record_insn.                                             *)

Classify == Listing[ram].kind[pc]
Func == SymbolAt(pc)
Enters == Func \notin {None, last_func}
Linked == {"CF_CALL", "CF_JUMP"}

Bump(count, x) == [count EXCEPT ![x] = @ + 1]

\* Mutants of CountEntry: a return counts as a call on the pair alone; a return
\* takes a call back; the pair is judged by the instruction being recorded.
CountEntryReturns ==
  /\ calls' = IF last_cf = "CF_RET" THEN calls ELSE Bump(calls, Name(Func))
  /\ call_pairs' = IF last_func # None
                   THEN Bump(call_pairs, <<Name(last_func), Name(Func)>>) ELSE call_pairs

CountEntryUndone ==
  /\ calls' = IF last_cf = "CF_RET" THEN [calls EXCEPT ![Name(Func)] = @ - 1]
                                    ELSE Bump(calls, Name(Func))
  /\ call_pairs' = IF last_cf \in Linked /\ last_func # None
                   THEN Bump(call_pairs, <<Name(last_func), Name(Func)>>) ELSE call_pairs

CountEntryLate ==
  /\ calls' = IF Classify = "CF_RET" THEN calls ELSE Bump(calls, Name(Func))
  /\ call_pairs' = IF Classify \in Linked /\ last_func # None
                   THEN Bump(call_pairs, <<Name(last_func), Name(Func)>>) ELSE call_pairs

\* The switch on last_cf, and record_call_edge.
CountEntry ==
  /\ calls' = IF last_cf = "CF_RET" THEN calls ELSE Bump(calls, Name(Func))
  /\ call_pairs' = IF last_cf \in Linked /\ last_func # None
                   THEN Bump(call_pairs, <<Name(last_func), Name(Func)>>) ELSE call_pairs

RecordInsn ==
  /\ total_instructions' = total_instructions + 1
  /\ IF Enters THEN CountEntry ELSE UNCHANGED graph
  /\ last_func' = Func
  /\ last_cf' = Classify

\* execute_instruction records the instruction on its way out, in two places, and
\* rv_step one that is compressed: of the three sites each instruction gets to one, but
\* execute_instruction returns from MRET before it gets to either of its own.
Recorded == ram[pc].op # "mret"

\* What the program's control flow really was.
Observe ==
  /\ taken' = IF Classify \in Linked /\ None \notin {Func, SymbolAt(pc')} /\ SymbolAt(pc') # Func
              THEN Bump(taken, <<Name(Func), Name(SymbolAt(pc'))>>) ELSE taken
  /\ disturbances' = IF ram[pc].op = "mret" THEN disturbances + 1 ELSE disturbances

\* One instruction; one that puts the hart to sleep ends the call and is not
\* recorded.  rv_step has one loop for the profiled and one for the plain run: they do
\* the same to the hart, and are one here.
Execute ==
  /\ phase = "run"
  /\ Exec
  /\ IF profiling_enabled /\ busy'
     THEN /\ Observe
          /\ IF Recorded THEN RecordInsn ELSE UNCHANGED profile
     ELSE UNCHANGED <<profile, truth>>
  /\ UNCHANGED <<phase, symbols, profiling_enabled>>

ProfNext ==
  \/ \E enable \in BOOLEAN : Enable(enable)
  \/ LoadElf \/ Reset \/ SetIrq \/ CallStep \/ Execute

ProfSpec == ProfInit /\ [][ProfNext]_profvars

-----------------------------------------------------------------------------
(* Properties.                                                             *)

ProfTypeOK ==
  /\ TypeOK
  /\ phase \in {"load", "reset", "run"}
  /\ symbols \in {<<>>} \union {Listing[image].symbols : image \in Firmware}
  /\ profiling_enabled \in BOOLEAN
  /\ total_instructions \in Nat /\ disturbances \in Nat
  /\ last_func \in 0 .. Len(symbols) /\ last_cf \in Kind
  /\ calls \in [Names -> Nat] /\ call_pairs \in [Edge -> Nat] /\ taken \in [Edge -> Nat]

\* The call recorded only when the callee's first instruction is.
Pending(e) ==
  IF /\ last_cf \in Linked /\ last_func # None
     /\ Func \notin {None, last_func}
     /\ e = <<Name(last_func), Name(Func)>>
  THEN 1 ELSE 0

\* The edges of the call graph are the calls and tail calls the program made from one
\* function to another, each counted once, though every edge is deduced an instruction
\* later from what is left in last_cf and last_func; and where a trap or an MRET leaves
\* stale what is deduced from, no more than one call of a pair is lost or invented for
\* each of them: nothing stale outlives the next instruction recorded
\* (herve_profiler_record_insn).
EdgesExact ==
  profiling_enabled =>
    \A e \in Edge : taken[e] - (call_pairs[e] + Pending(e)) \in -disturbances .. disturbances

\* What the edges to f count.
EdgesTo(pairs, f) == MapThenSumSet(LAMBDA c : pairs[<<c, f>>], Names)

\* A function has at least as many calls as edges lead to it, however it is
\* entered: the report's two accounts agree (switch on last_cf).
CallsCoverEdges == \A f \in Names : EdgesTo(call_pairs, f) <= calls[f]

=============================================================================
