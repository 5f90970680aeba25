--------------------------- MODULE ProfilerProofs ---------------------------
(***************************************************************************)
(* Proofs about Profiler, for every set of images, symbols and names: the  *)
(* call graph is the one the program ran but for the traps and MRETs, each *)
(* of which costs one call of a pair at most, and it never shows more      *)
(* calls of a function than the function's own count.                      *)
(***************************************************************************)
EXTENDS Profiler, Rv32CoreProofs, FiniteSetTheorems

-----------------------------------------------------------------------------
(* The simulator under the profiler.                                       *)

\* Each step is a step of the simulator's specification or leaves it alone.
LEMMA ProfStepMapped ==
  ASSUME TypeOK, [ProfNext]_profvars  PROVE [Next]_vars
<1>1. CASE \E enable \in BOOLEAN : Enable(enable)
  BY <1>1 DEF Enable
<1>2. CASE LoadElf
  BY <1>2 DEF LoadElf, Next, Setup
<1>3. CASE Reset
  <2>1. pc \in Addr
    BY DEF TypeOK
  <2>2. QED
    BY <1>3, <2>1 DEF Reset, Next, Setup
<1>4. CASE SetIrq
  BY <1>4 DEF SetIrq, Next
<1>5. CASE CallStep
  BY <1>5 DEF CallStep, Next
<1>6. CASE Execute
  BY <1>6 DEF Execute, Next
<1>7. CASE UNCHANGED profvars
  BY <1>7 DEF profvars
<1>8. QED
  BY <1>1, <1>2, <1>3, <1>4, <1>5, <1>6, <1>7 DEF ProfNext

LEMMA HartInvariant == ProfSpec => [](TypeOK /\ CallInv)
<1>1. ProfInit => TypeOK /\ CallInv
  BY HartTypeInit DEF ProfInit
<1>2. TypeOK /\ CallInv /\ [ProfNext]_profvars => (TypeOK /\ CallInv)'
  BY ProfStepMapped, HartTypeStep
<1>3. QED
  BY <1>1, <1>2, PTL DEF ProfSpec

-----------------------------------------------------------------------------
(* The call graph.                                                         *)

\* Counting one more.
LEMMA BumpAt ==
  ASSUME NEW S, NEW f \in [S -> Nat], NEW x \in S, NEW e \in S
  PROVE  /\ Bump(f, x) \in [S -> Nat]
         /\ Bump(f, x)[e] = f[e] + (IF e = x THEN 1 ELSE 0)
BY DEF Bump

\* herve_get_symbol_at returns NULL or a symbol of the table.
LEMMA SymbolAtType ==
  ASSUME symbols \in Seq(Symbol), NEW a
  PROVE  SymbolAt(a) \in 0 .. Len(symbols)
<1> DEFINE hits == {n \in 1 .. Len(symbols) : Covers(symbols[n], a)}
<1>1. CASE hits = {}
  BY <1>1 DEF SymbolAt, None
<1>2. CASE hits # {}
  <2>1. hits \subseteq Nat
    OBVIOUS
  <2>2. PICK c \in hits : \A d \in hits : <<d, c>> \notin OpToRel(<, Nat)
    BY <1>2, <2>1, NatLessThanWellFounded, WFMin
  <2>3. ASSUME NEW d \in hits  PROVE c <= d
    <3>1. c \in Nat /\ d \in Nat
      BY <2>1
    <3>2. <<d, c>> \in OpToRel(<, Nat) <=> d < c
      BY <3>1, Zenon DEF OpToRel
    <3>3. ~ (d < c)
      BY <2>2, <3>2, Zenon
    <3>4. QED
      BY <3>1, <3>3
  <2>4. SymbolAt(a) \in hits
    BY <1>2, <2>3 DEF SymbolAt
  <2>5. QED
    BY <2>4
<1>3. QED
  BY <1>1, <1>2

\* And has a name, if it is a symbol.
LEMMA NameType ==
  ASSUME symbols \in Seq(Symbol), NEW n \in 0 .. Len(symbols), n # None
  PROVE  Name(n) \in Names
<1>1. n \in 1 .. Len(symbols)
  BY DEF None
<1>2. symbols[n] \in Symbol
  BY <1>1
<1>3. QED
  BY <1>2 DEF Name, Symbol

Counters == total_instructions \in Nat /\ disturbances \in Nat

GraphTypeOK ==
  /\ symbols \in Seq(Symbol)
  /\ last_func \in 0 .. Len(symbols)
  /\ phase # "run" => last_func = None /\ last_cf = "CF_NONE"
  /\ call_pairs \in [Edge -> Nat] /\ taken \in [Edge -> Nat]

LEMMA SymbolsKept ==
  ASSUME GraphTypeOK, Execute
  PROVE  UNCHANGED symbols /\ SymbolAt(pc') = SymbolAt(pc)' /\ phase = "run" /\ phase' = "run"
BY DEF Execute, SymbolAt, Covers

\* An instruction that is recorded adds the pending call to its pair.
LEMMA RecordsPending ==
  ASSUME GraphTypeOK, RecordInsn
  PROVE  /\ last_func' = Func /\ Func \in 0 .. Len(symbols)
         /\ call_pairs' \in [Edge -> Nat]
         /\ \A e \in Edge : call_pairs'[e] = call_pairs[e] + Pending(e)
<1> DEFINE pair == <<Name(last_func), Name(Func)>>
<1>1. last_func' = Func /\ Func \in 0 .. Len(symbols)
  BY SymbolAtType DEF RecordInsn, Func, GraphTypeOK
<1>2. CASE Enters /\ last_cf \in Linked /\ last_func # None
  <2>0. call_pairs \in [Edge -> Nat]
    BY DEF GraphTypeOK
  <2>1. pair \in Edge
    BY <1>1, <1>2, NameType DEF Enters, GraphTypeOK, Edge
  <2>2. call_pairs' = Bump(call_pairs, pair)
    BY <1>2 DEF RecordInsn, CountEntry
  <2>3. call_pairs' \in [Edge -> Nat]
    BY <2>1, <2>2, <2>0, BumpAt
  <2>4. ASSUME NEW e \in Edge  PROVE call_pairs'[e] = call_pairs[e] + Pending(e)
    <3>1. call_pairs'[e] = call_pairs[e] + (IF e = pair THEN 1 ELSE 0)
      <4>1. Bump(call_pairs, pair)[e] = call_pairs[e] + (IF e = pair THEN 1 ELSE 0)
        BY <2>0, <2>1, BumpAt
      <4>2. QED
        BY <2>2, <4>1
    <3>2. Pending(e) = IF e = pair THEN 1 ELSE 0
      BY <1>2 DEF Pending, Enters
    <3>3. QED
      BY <3>1, <3>2
  <2>5. QED
    BY <1>1, <2>3, <2>4
<1>3. CASE ~(Enters /\ last_cf \in Linked /\ last_func # None)
  <2>1. call_pairs' = call_pairs
    BY <1>3 DEF RecordInsn, CountEntry, graph
  <2>2. \A e \in Edge : Pending(e) = 0
    BY <1>3 DEF Pending, Enters
  <2>3. \A e \in Edge : call_pairs[e] \in Nat
    BY DEF GraphTypeOK
  <2>4. QED
    BY <1>1, <2>1, <2>2, <2>3 DEF GraphTypeOK
<1>4. QED
  BY <1>2, <1>3

\* What the instruction does to the program's own account is then pending.
LEMMA ObservesPending ==
  ASSUME GraphTypeOK, Execute, Observe, last_func' = Func, last_cf' = Classify
  PROVE  /\ taken' \in [Edge -> Nat]
         /\ \A e \in Edge : taken'[e] = taken[e] + Pending(e)'
<1> DEFINE next == SymbolAt(pc')
           pair == <<Name(Func), Name(next)>>
<1>1. /\ Func \in 0 .. Len(symbols) /\ next \in 0 .. Len(symbols)
      /\ symbols' = symbols /\ next = Func'
  BY SymbolAtType, SymbolsKept DEF Func, GraphTypeOK
<1>2. CASE Classify \in Linked /\ None \notin {Func, next} /\ next # Func
  <2>0. taken \in [Edge -> Nat]
    BY DEF GraphTypeOK
  <2>1. pair \in Edge
    BY <1>1, <1>2, NameType DEF GraphTypeOK, Edge
  <2>2. taken' = Bump(taken, pair)
    BY <1>2 DEF Observe
  <2>3. taken' \in [Edge -> Nat]
    BY <2>1, <2>2, <2>0, BumpAt
  <2>4. ASSUME NEW e \in Edge  PROVE taken'[e] = taken[e] + Pending(e)'
    <3>1. taken'[e] = taken[e] + (IF e = pair THEN 1 ELSE 0)
      <4>1. Bump(taken, pair)[e] = taken[e] + (IF e = pair THEN 1 ELSE 0)
        BY <2>0, <2>1, BumpAt
      <4>2. QED
        BY <2>2, <4>1
    <3>2. pair = <<Name(last_func)', Name(Func)'>>
      BY <1>1 DEF Name
    <3>3. Pending(e)' = IF e = pair THEN 1 ELSE 0
      BY <1>1, <1>2, <3>2 DEF Pending
    <3>4. QED
      BY <3>1, <3>3
  <2>5. QED
    BY <2>3, <2>4
<1>3. CASE ~(Classify \in Linked /\ None \notin {Func, next} /\ next # Func)
  <2>1. taken' = taken
    BY <1>3 DEF Observe
  <2>2. \A e \in Edge : Pending(e)' = 0
    BY <1>1, <1>3 DEF Pending
  <2>3. \A e \in Edge : taken[e] \in Nat
    BY DEF GraphTypeOK
  <2>4. QED
    BY <2>1, <2>2, <2>3 DEF GraphTypeOK
<1>4. QED
  BY <1>2, <1>3

LEMMA GraphTyped ==
  ASSUME TypeOK, CallInv, GraphTypeOK, [ProfNext]_profvars
  PROVE  GraphTypeOK'
<1>1. CASE \E enable \in BOOLEAN : Enable(enable)
  BY <1>1 DEF Enable, Cleared, ClearedTruth, profile, graph, truth, GraphTypeOK, None
<1>2. CASE LoadElf
  <2>1. ram' \in Firmware => Listing[ram'].symbols \in Seq(Symbol)
    BY ListingAssumption
  <2>2. TypeOK' /\ CallInv'
    BY ProfStepMapped, HartTypeStep
  <2>3. initialized' => ram' \in Firmware
    BY <2>2 DEF TypeOK, CallInv
  <2>4. QED
    BY <1>2, <2>1, <2>3 DEF LoadElf, GraphTypeOK, profile, graph, truth, None
<1>3. CASE Execute
  <2>1. UNCHANGED symbols /\ phase' = "run"
    BY <1>3, SymbolsKept
  <2>2. last_func' \in 0 .. Len(symbols) /\ call_pairs' \in [Edge -> Nat]
    BY <1>3, RecordsPending DEF Execute, profile, graph, GraphTypeOK
  <2>3. taken' \in [Edge -> Nat]
    <3>1. CASE taken' = taken
      BY <3>1 DEF GraphTypeOK
    <3>2. CASE Observe /\ taken' # taken
      <4>1. /\ Func \in 0 .. Len(symbols) \ {None}
            /\ SymbolAt(pc') \in 0 .. Len(symbols) \ {None}
            /\ taken' = Bump(taken, <<Name(Func), Name(SymbolAt(pc'))>>)
        BY <3>2, SymbolAtType DEF Observe, GraphTypeOK, Func
      <4>2. taken \in [Edge -> Nat]
        BY DEF GraphTypeOK
      <4>3. <<Name(Func), Name(SymbolAt(pc'))>> \in Edge
        BY <4>1, NameType DEF GraphTypeOK, Edge
      <4>4. QED
        BY <4>1, <4>2, <4>3, BumpAt
    <3>3. QED
      BY <1>3, <3>1, <3>2 DEF Execute, truth
  <2>4. QED
    BY <2>1, <2>2, <2>3 DEF GraphTypeOK
<1>4. CASE Reset \/ SetIrq \/ CallStep \/ UNCHANGED profvars
  BY <1>4 DEF Reset, SetIrq, CallStep, profvars, profile, graph, truth, GraphTypeOK
<1>5. QED
  BY <1>1, <1>2, <1>3, <1>4 DEF ProfNext

\* One call is pending at most.
LEMMA PendingType ==
  ASSUME NEW e  PROVE Pending(e) \in 0 .. 1 /\ Pending(e)' \in 0 .. 1
BY DEF Pending

\* A disturbance moves pc, and with it which call is pending, and no more.
LEMMA DisturbedStep ==
  ASSUME Counters, GraphTypeOK, EdgesExact,
         UNCHANGED <<profiling_enabled, call_pairs, taken>>,
         profiling_enabled => disturbances' = disturbances + 1
  PROVE  EdgesExact'
<1> SUFFICES ASSUME profiling_enabled, NEW e \in Edge
             PROVE  taken'[e] - (call_pairs'[e] + Pending(e)')
                      \in -disturbances' .. disturbances'
  BY DEF EdgesExact
<1>1. taken[e] - (call_pairs[e] + Pending(e)) \in -disturbances .. disturbances
  BY DEF EdgesExact
<1>2. Pending(e) \in 0 .. 1 /\ Pending(e)' \in 0 .. 1
  BY PendingType
<1>3. taken[e] \in Nat /\ call_pairs[e] \in Nat /\ disturbances \in Nat
  BY DEF GraphTypeOK, Counters
<1>4. taken'[e] = taken[e] /\ call_pairs'[e] = call_pairs[e]
      /\ disturbances' = disturbances + 1
  OBVIOUS
<1>5. QED
  BY <1>1, <1>2, <1>3, <1>4

LEMMA EdgeStep ==
  ASSUME TypeOK, CallInv, Counters, GraphTypeOK, EdgesExact, [ProfNext]_profvars
  PROVE  EdgesExact'
<1>1. CASE \E enable \in BOOLEAN : Enable(enable)
  <2>1. CASE Cleared /\ ClearedTruth
    <3>1. \A e \in Edge : Pending(e)' = 0
      BY <2>1 DEF Cleared, Pending, None
    <3>2. QED
      BY <2>1, <3>1 DEF Cleared, ClearedTruth, EdgesExact
  <2>2. CASE ~profiling_enabled'
    BY <2>2 DEF EdgesExact
  <2>3. QED
    BY <1>1, <2>1, <2>2 DEF Enable
<1>2. CASE phase # "run" /\ (LoadElf \/ Reset)
  <2>1. \A e \in Edge : Pending(e) = 0 /\ Pending(e)' = 0
    BY <1>2 DEF LoadElf, Reset, profile, GraphTypeOK, Pending, None
  <2>2. QED
    BY <1>2, <2>1 DEF LoadElf, Reset, profile, graph, truth, EdgesExact
<1>3. CASE UNCHANGED <<pc, symbols, profiling_enabled, profile, truth>>
  <2>1. \A e \in Edge : Pending(e)' = Pending(e)
    BY <1>3 DEF profile, Pending, Func, SymbolAt, Covers, Name
  <2>2. QED
    BY <1>3, <2>1 DEF profile, graph, truth, EdgesExact
<1>4. CASE SetIrq \/ CallStep \/ UNCHANGED profvars
  <2>1. CASE CallStep /\ StepTrap
    BY <2>1, DisturbedStep DEF CallStep, profile, graph
  <2>2. CASE CallStep /\ ~StepTrap
    <3>1. UNCHANGED pc
      BY <2>2 DEF CallStep, RvStep, StepNone, StepRefused, StepStart, StepEnd, vars
    <3>2. QED
      BY <1>3, <2>2, <3>1 DEF CallStep, truth
  <2>3. CASE SetIrq \/ UNCHANGED profvars
    BY <1>3, <2>3 DEF SetIrq, RvSetIrq, profvars, vars, truth
  <2>4. QED
    BY <1>4, <2>1, <2>2, <2>3
<1>5. CASE Execute
  <2>1. CASE profiling_enabled /\ busy' /\ Recorded
    <3>1. RecordInsn /\ Observe /\ last_func' = Func /\ last_cf' = Classify
      BY <1>5, <2>1 DEF Execute, RecordInsn
    <3>2. \A e \in Edge : call_pairs'[e] = call_pairs[e] + Pending(e)
      BY <3>1, RecordsPending
    <3>3. \A e \in Edge : taken'[e] = taken[e] + Pending(e)'
      BY <1>5, <3>1, ObservesPending
    <3>4. \A e \in Edge : taken[e] \in Nat /\ call_pairs[e] \in Nat
      BY DEF GraphTypeOK
    <3>5. disturbances' = disturbances /\ profiling_enabled' = profiling_enabled
      BY <1>5, <2>1, <3>1 DEF Execute, Observe, Recorded
    <3>6. ASSUME NEW e \in Edge
          PROVE  taken'[e] - (call_pairs'[e] + Pending(e)')
                   = taken[e] - (call_pairs[e] + Pending(e))
      <4>1. Pending(e) \in 0 .. 1 /\ Pending(e)' \in 0 .. 1
        BY PendingType
      <4>2. call_pairs'[e] = call_pairs[e] + Pending(e)
        BY <3>2
      <4>3. taken'[e] = taken[e] + Pending(e)'
        BY <3>3
      <4>4. QED
        BY <3>4, <4>1, <4>2, <4>3
    <3>7. QED
      BY <3>5, <3>6 DEF EdgesExact
  <2>2. CASE profiling_enabled /\ busy' /\ ~Recorded
    <3>1. Running /\ ram[pc].op = "mret" /\ Observe /\ UNCHANGED <<profiling_enabled, profile>>
      BY <1>5, <2>2 DEF Execute, Recorded, Exec, ExecPlain, ExecMmio, ExecExit, ExecMret,
         ExecWfi, ExecCsr, Insns
    <3>2. Classify = "CF_NONE"
      BY <3>1, FetchedInsn, ListingAssumption DEF Classify
    <3>3. taken' = taken /\ disturbances' = disturbances + 1
      BY <3>1, <3>2 DEF Observe, Linked
    <3>4. QED
      BY <3>1, <3>3, DisturbedStep DEF profile, graph
  <2>3. CASE ~profiling_enabled
    BY <1>5, <2>3 DEF Execute, EdgesExact
  <2>4. CASE profiling_enabled /\ ~busy'
    <3>1. UNCHANGED pc
      BY <1>5, <2>4 DEF Execute, Exec, ExecPlain, ExecMmio, ExecExit, ExecMret, ExecWfi,
         ExecCsr, Retire, Insns, Running
    <3>2. QED
      BY <1>3, <1>5, <2>4, <3>1 DEF Execute
  <2>5. QED
    BY <2>1, <2>2, <2>3, <2>4
<1>6. QED
  BY <1>1, <1>2, <1>4, <1>5 DEF ProfNext, LoadElf, Reset

LEMMA CountersStep ==
  ASSUME Counters, [ProfNext]_profvars  PROVE Counters'
<1> USE DEF Counters
<1>1. CASE \E enable \in BOOLEAN : Enable(enable)
  BY <1>1 DEF Enable, Cleared, ClearedTruth, profile, truth
<1>2. CASE Execute
  BY <1>2 DEF Execute, Observe, RecordInsn, profile, truth
<1>3. CASE LoadElf \/ Reset \/ SetIrq \/ CallStep \/ UNCHANGED profvars
  BY <1>3 DEF LoadElf, Reset, SetIrq, CallStep, profvars, profile, truth
<1>4. QED
  BY <1>1, <1>2, <1>3 DEF ProfNext

\* The recorded edges are the calls that were made, but for one of a pair, lost or
\* invented, for each trap and each MRET.
THEOREM EdgesAreExact == ProfSpec => []EdgesExact
<1>1. ProfInit => Counters /\ GraphTypeOK /\ EdgesExact
  BY DEF ProfInit, Counters, GraphTypeOK, EdgesExact, None
<1>2. /\ TypeOK /\ CallInv /\ Counters /\ GraphTypeOK /\ EdgesExact /\ [ProfNext]_profvars
      => (Counters /\ GraphTypeOK /\ EdgesExact)'
  BY CountersStep, GraphTyped, EdgeStep
<1>3. QED
  BY <1>1, <1>2, HartInvariant, PTL DEF ProfSpec
-----------------------------------------------------------------------------
(* What the profiler's variables hold.                                     *)

ProfTypes ==
  /\ phase \in {"load", "reset", "run"}
  /\ symbols \in {<<>>} \union {Listing[image].symbols : image \in Firmware}
  /\ profiling_enabled \in BOOLEAN
  /\ last_cf \in Kind /\ calls \in [Names -> Nat]

LEMMA ProfTypesInit == ProfInit => Counters /\ GraphTypeOK /\ ProfTypes
<1>1. ProfInit => GraphTypeOK
  BY DEF ProfInit, GraphTypeOK, None
<1>2. ProfInit => Counters
  BY DEF ProfInit, Counters
<1>3. ASSUME ProfInit
      PROVE  ProfTypes
  <2>1. symbols \in {<<>>} \union {Listing[image].symbols : image \in Firmware}
    BY <1>3, Zenon DEF ProfInit
  <2>2. phase = "load" /\ profiling_enabled = FALSE
    BY <1>3 DEF ProfInit
  <2>3. last_cf \in Kind
    BY <1>3 DEF ProfInit, Kind
  <2>4. calls \in [Names -> Nat]
    <3>1. calls = [f \in Names |-> 0]
      BY <1>3 DEF ProfInit
    <3>2. QED
      BY <3>1
  <2>5. profiling_enabled \in BOOLEAN
    BY <2>2
  <2>6. QED
    BY <2>1, <2>2, <2>3, <2>4, <2>5 DEF ProfTypes
<1>4. QED
  BY <1>1, <1>2, <1>3

\* A recorded instruction is fetched from the image, so its kind is listed; the
\* function it enters has a name.
LEMMA ProfTypesStep ==
  ASSUME TypeOK, CallInv, GraphTypeOK, ProfTypes, [ProfNext]_profvars
  PROVE  ProfTypes'
<1> USE DEF ProfTypes
<1>1. CASE \E enable \in BOOLEAN : Enable(enable)
  <2>1. PICK enable \in BOOLEAN : Enable(enable)
    BY <1>1
  <2>2. UNCHANGED <<phase, symbols>> /\ profiling_enabled' \in BOOLEAN
    BY <2>1 DEF Enable
  <2>3. CASE enable
    BY <2>1, <2>2, <2>3 DEF Enable, Cleared, ClearedTruth, Kind
  <2>4. CASE ~enable
    BY <2>1, <2>2, <2>4 DEF Enable, profile, graph
  <2>5. QED
    BY <2>3, <2>4
<1>2. CASE LoadElf
  <2>1. TypeOK' /\ CallInv'
    BY ProfStepMapped, HartTypeStep
  <2>2. initialized' => ram' \in Firmware
    BY <2>1 DEF TypeOK, CallInv
  <2>3. QED
    BY <1>2, <2>2 DEF LoadElf, profile, graph, truth
<1>3. CASE Execute
  <2>1. CASE profiling_enabled /\ busy' /\ Recorded
    <3>1. RecordInsn /\ Observe
      BY <1>3, <2>1 DEF Execute
    <3>2. Running
      BY <1>3 DEF Execute, Exec, ExecPlain, ExecMmio, ExecExit, ExecMret, ExecWfi,
                  ExecCsr, Insns
    <3>3. ram \in Firmware /\ pc \in Ram
      BY <3>2, FetchedInsn
    <3>4. Listing[ram].kind \in [Ram -> Kind]
      BY <3>3, ListingAssumption
    <3>5. last_cf' \in Kind
      BY <3>1, <3>3, <3>4 DEF RecordInsn, Classify
    <3>6. calls' \in [Names -> Nat]
      <4>1. CASE calls' = calls
        BY <4>1
      <4>2. CASE calls' = Bump(calls, Name(Func)) /\ Enters
        <5>1. Func \in 0 .. Len(symbols) /\ Func # None
          BY <4>2, SymbolAtType DEF Func, GraphTypeOK, Enters
        <5>2. Name(Func) \in Names
          BY <5>1, NameType DEF GraphTypeOK
        <5>3. QED
          BY <4>2, <5>2, BumpAt
      <4>3. QED
        BY <3>1, <4>1, <4>2 DEF RecordInsn, CountEntry, graph
    <3>7. QED
      BY <1>3, <3>1, <3>5, <3>6 DEF Execute, Observe
  <2>2. CASE ~(profiling_enabled /\ busy' /\ Recorded)
    BY <1>3, <2>2 DEF Execute, Observe, profile, graph
  <2>3. QED
    BY <2>1, <2>2
<1>4. CASE Reset \/ SetIrq \/ CallStep \/ UNCHANGED profvars
  BY <1>4 DEF Reset, SetIrq, CallStep, profvars, profile, graph, truth
<1>5. QED
  BY <1>1, <1>2, <1>3, <1>4 DEF ProfNext

\* Every variable of the profiler and of the simulator keeps its type: what it
\* remembers is a symbol of the table it has, and its counts are of known names.
THEOREM ProfTypesCorrect == ProfSpec => []ProfTypeOK
<1>1. Counters /\ [ProfNext]_profvars => Counters'
  BY CountersStep
<1>2. TypeOK /\ CallInv /\ GraphTypeOK /\ ProfTypes /\ [ProfNext]_profvars
      => (GraphTypeOK /\ ProfTypes)'
  BY GraphTyped, ProfTypesStep
<1>3. TypeOK /\ Counters /\ GraphTypeOK /\ ProfTypes => ProfTypeOK
  BY DEF Counters, GraphTypeOK, ProfTypes, ProfTypeOK
<1>4. QED
  BY <1>1, <1>2, <1>3, ProfTypesInit, HartInvariant, PTL DEF ProfSpec

-----------------------------------------------------------------------------
(* The report's two accounts.  What leads to a function is a sum over its  *)
(* callers, of which the proofs use the equation it satisfies.  Induction  *)
(* is stated of the set of what has the property, not of the property.     *)

\* Induction over the subsets of a finite set, the last element CHOOSE picks first.
LEMMA SubsetInduction ==
  ASSUME NEW S, IsFiniteSet(S), NEW P \in SUBSET SUBSET S, {} \in P,
         \A T \in SUBSET S : T # {} /\ T \ {CHOOSE x \in T : TRUE} \in P => T \in P
  PROVE  P = SUBSET S
<1> DEFINE Bad == (SUBSET S) \ P
<1>1. SUFFICES ASSUME Bad # {}  PROVE FALSE
  OBVIOUS
<1>2. IsWellFoundedOn(StrictSubsetOrdering(S), SUBSET S)
  BY FS_StrictSubsetOrderingWellFounded, FS_FiniteSubsetsOfFinite
<1>3. Bad \subseteq SUBSET S
  OBVIOUS
<1> HIDE DEF Bad
<1>4. PICK T \in Bad : \A U \in Bad : ~(<<U, T>> \in StrictSubsetOrdering(S))
  BY <1>1, <1>2, <1>3, WFMin
<1> USE DEF Bad
<1>5. T # {} /\ T \in SUBSET S
  OBVIOUS
<1> DEFINE U == T \ {CHOOSE x \in T : TRUE}
<1>6. U \subseteq T /\ U # T
  BY <1>5
<1>7. <<U, T>> \in StrictSubsetOrdering(S)
  BY <1>5, <1>6 DEF StrictSubsetOrdering
<1>8. U \in P
  BY <1>4, <1>5, <1>7
<1>9. QED
  BY <1>3, <1>5, <1>8

Rest(T) == T \ {CHOOSE x \in T : TRUE}

LEMMA RestSmaller ==
  ASSUME NEW T, T # {}
  PROVE  /\ (CHOOSE x \in T : TRUE) \in T
         /\ \A x \in T : x \in Rest(T) <=> x # (CHOOSE y \in T : TRUE)
BY DEF Rest


\* A set of naturals that holds 0 and the successor of each of its members.
LEMMA NatSetInduction ==
  ASSUME NEW T \in SUBSET Nat, 0 \in T, \A n \in T : n + 1 \in T
  PROVE  T = Nat
<1>1. SUFFICES ASSUME Nat \ T # {}  PROVE FALSE
  OBVIOUS
<1>2. IsWellFoundedOn(OpToRel(<, Nat), Nat)
  BY NatLessThanWellFounded
<1>3. PICK n \in Nat \ T : \A m \in Nat \ T : ~(<<m, n>> \in OpToRel(<, Nat))
  BY <1>1, <1>2, WFMin
<1>4. \A m \in Nat \ T : ~(m < n)
  BY <1>3, Zenon DEF OpToRel
<1>5. QED
  BY <1>4, n - 1 \in Nat

\* The equation the sum over the callers in T satisfies.
SumAt(h, f, g, T) ==
  IF T = {} THEN 0 ELSE h[<<CHOOSE x \in T : TRUE, f>>] + g[Rest(T)]

LEMMA SumAtType ==
  ASSUME NEW h \in [Edge -> Nat], NEW f \in Names, NEW g \in [SUBSET Names -> Nat],
         NEW T \in SUBSET Names
  PROVE  SumAt(h, f, g, T) \in Nat
<1>1. CASE T = {}
  BY <1>1 DEF SumAt
<1>2. CASE T # {}
  <2>1. <<CHOOSE x \in T : TRUE, f>> \in Edge
    BY <1>2 DEF Edge
  <2>2. Rest(T) \in SUBSET Names
    BY DEF Rest
  <2>3. QED
    BY <1>2, <2>1, <2>2 DEF SumAt
<1>3. QED
  BY <1>1, <1>2

LEMMA SumExists ==
  ASSUME IsFiniteSet(Names), NEW h \in [Edge -> Nat], NEW f \in Names
  PROVE  \E g \in [SUBSET Names -> Nat] : \A T \in SUBSET Names : g[T] = SumAt(h, f, g, T)
<1> DEFINE Up(n) == {T \in SUBSET Names : Cardinality(T) <= n}
           Good == {n \in Nat : \E g \in [SUBSET Names -> Nat] :
                                  \A T \in Up(n) : g[T] = SumAt(h, f, g, T)}
<1>1. \A T \in SUBSET Names : IsFiniteSet(T) /\ Cardinality(T) \in Nat
                              /\ Cardinality(T) <= Cardinality(Names)
  BY FS_Subset, FS_CardinalityType
<1>2. 0 \in Good
  <2> DEFINE g == [T \in SUBSET Names |-> 0]
  <2>1. g \in [SUBSET Names -> Nat]
    OBVIOUS
  <2>2. ASSUME NEW T \in Up(0)  PROVE g[T] = SumAt(h, f, g, T)
    <3>1. T = {}
      BY <1>1, FS_EmptySet
    <3>2. QED
      BY <3>1 DEF SumAt
  <2>3. QED
    BY <2>1, <2>2
<1>3. ASSUME NEW n \in Good  PROVE n + 1 \in Good
  <2>1. PICK g \in [SUBSET Names -> Nat] : \A T \in Up(n) : g[T] = SumAt(h, f, g, T)
    OBVIOUS
  <2> DEFINE k == [T \in SUBSET Names |-> SumAt(h, f, g, T)]
  <2>2. k \in [SUBSET Names -> Nat]
    BY SumAtType
  <2>3. ASSUME NEW T \in Up(n + 1)  PROVE k[T] = SumAt(h, f, k, T)
    <3>1. CASE T = {}
      BY <3>1 DEF SumAt
    <3>2. CASE T # {}
      <4>1. (CHOOSE x \in T : TRUE) \in T /\ Rest(T) \in SUBSET Names
        BY <3>2 DEF Rest
      <4>2. Cardinality(Rest(T)) = Cardinality(T) - 1
        BY <1>1, <4>1, FS_RemoveElement DEF Rest
      <4>3. Cardinality(T) <= n + 1
        OBVIOUS
      <4>4. Rest(T) \in Up(n)
        BY <1>1, <4>1, <4>2, <4>3
      <4>5. k[Rest(T)] = g[Rest(T)]
        BY <2>1, <4>1, <4>4
      <4>6. k[T] = SumAt(h, f, g, T)
        OBVIOUS
      <4>7. QED
        BY <3>2, <4>5, <4>6 DEF SumAt
    <3>3. QED
      BY <3>1, <3>2
  <2> HIDE DEF k, Up
  <2>4. \E j \in [SUBSET Names -> Nat] : \A T \in Up(n + 1) : j[T] = SumAt(h, f, j, T)
    BY <2>2, <2>3
  <2>5. n + 1 \in Nat
    OBVIOUS
  <2>6. QED
    BY <2>4, <2>5
<1>4. Cardinality(Names) \in Good
  <2>1. Good \in SUBSET Nat
    OBVIOUS
  <2> HIDE DEF Good
  <2>2. Good = Nat
    BY <1>2, <1>3, <2>1, NatSetInduction
  <2>3. QED
    BY <1>1, <2>2
<1>5. Up(Cardinality(Names)) = SUBSET Names
  BY <1>1
<1>6. QED
  BY <1>4, <1>5

LEMMA SumEquation ==
  ASSUME IsFiniteSet(Names), NEW h \in [Edge -> Nat], NEW f \in Names
  PROVE  \E g : /\ g = [T \in SUBSET Names |-> SumAt(h, f, g, T)]
                /\ EdgesTo(h, f) = g[Names]
                /\ g = (CHOOSE k : k = [T \in SUBSET Names |-> SumAt(h, f, k, T)])
<1> DEFINE g == CHOOSE k : k = [T \in SUBSET Names |-> SumAt(h, f, k, T)]
<1>1. PICK k \in [SUBSET Names -> Nat] : \A T \in SUBSET Names : k[T] = SumAt(h, f, k, T)
  BY SumExists
<1>2. k = [T \in SUBSET Names |-> SumAt(h, f, k, T)]
  BY <1>1
<1>3. g = [T \in SUBSET Names |-> SumAt(h, f, g, T)]
  BY <1>2
<1>4. EdgesTo(h, f) = g[Names]
  BY DEF EdgesTo, MapThenSumSet, MapThenFoldSet, SumAt, Rest
<1>5. QED
  BY <1>3, <1>4

\* Calling e once more adds one to what leads to the callee.
LEMMA SumBump ==
  ASSUME IsFiniteSet(Names), NEW h \in [Edge -> Nat], NEW e \in Edge, NEW f \in Names
  PROVE  /\ EdgesTo(h, f) \in Nat
         /\ EdgesTo(Bump(h, e), f) = EdgesTo(h, f) + (IF e[2] = f THEN 1 ELSE 0)
<1> DEFINE b == Bump(h, e)
<1>1. b \in [Edge -> Nat] /\ \A x \in Edge : b[x] = h[x] + (IF x = e THEN 1 ELSE 0)
  BY DEF Bump
<1> HIDE DEF b
<1>2. PICK g : g = [T \in SUBSET Names |-> SumAt(h, f, g, T)] /\ EdgesTo(h, f) = g[Names]
  BY SumEquation
<1>3. PICK k : k = [T \in SUBSET Names |-> SumAt(b, f, k, T)] /\ EdgesTo(b, f) = k[Names]
  BY <1>1, SumEquation
<1> DEFINE More(T) == IF e[1] \in T /\ e[2] = f THEN 1 ELSE 0
           P == {T \in SUBSET Names : g[T] \in Nat /\ k[T] = g[T] + More(T)}
<1>4. {} \in P
  <2>1. g[{}] = 0 /\ k[{}] = 0
    BY <1>2, <1>3 DEF SumAt
  <2>2. QED
    BY <2>1
<1>5. ASSUME NEW T \in SUBSET Names, T # {}, Rest(T) \in P  PROVE T \in P
  <2> DEFINE c == CHOOSE x \in T : TRUE
  <2>1. c \in T /\ Rest(T) = T \ {c}
    BY <1>5 DEF Rest
  <2>2. g[T] = h[<<c, f>>] + g[Rest(T)] /\ k[T] = b[<<c, f>>] + k[Rest(T)]
    BY <1>2, <1>3, <1>5 DEF SumAt
  <2> HIDE DEF c
  <2>3. <<c, f>> \in Edge /\ (<<c, f>> = e <=> c = e[1] /\ f = e[2])
    BY <2>1 DEF Edge
  <2>4. h[<<c, f>>] \in Nat /\ b[<<c, f>>] = h[<<c, f>>] + (IF <<c, f>> = e THEN 1 ELSE 0)
    BY <1>1, <2>3
  <2>5. g[Rest(T)] \in Nat /\ k[Rest(T)] = g[Rest(T)] + More(Rest(T))
    BY <1>5
  <2>6. More(T) = More(Rest(T)) + (IF <<c, f>> = e THEN 1 ELSE 0)
    BY <2>1, <2>3
  <2>7. More(Rest(T)) \in Nat
    OBVIOUS
  <2> HIDE DEF More
  <2>8. g[T] \in Nat /\ k[T] = g[T] + More(T)
    BY <2>2, <2>4, <2>5, <2>6, <2>7
  <2>9. QED
    BY <2>8
<1>6. P = SUBSET Names
  <2>1. P \in SUBSET SUBSET Names
    OBVIOUS
  <2> HIDE DEF P
  <2>2. QED
    BY <1>4, <1>5, <2>1, SubsetInduction DEF Rest
<1>7. e[1] \in Names
  BY DEF Edge
<1>8. g[Names] \in Nat /\ k[Names] = g[Names] + (IF e[2] = f THEN 1 ELSE 0)
  BY <1>6, <1>7
<1>9. QED
  BY <1>2, <1>3, <1>8 DEF b

LEMMA SumType ==
  ASSUME IsFiniteSet(Names), NEW h \in [Edge -> Nat], NEW f \in Names
  PROVE  EdgesTo(h, f) \in Nat
<1>1. <<f, f>> \in Edge
  BY DEF Edge
<1>2. QED
  BY <1>1, SumBump

\* A call graph without calls.
LEMMA SumZero ==
  ASSUME IsFiniteSet(Names), NEW f \in Names
  PROVE  EdgesTo([x \in Edge |-> 0], f) = 0
<1> DEFINE h == [x \in Edge |-> 0]
<1>1. h \in [Edge -> Nat]
  OBVIOUS
<1>2. \A x \in Names : h[<<x, f>>] = 0
  BY DEF Edge
<1> HIDE DEF h
<1>3. PICK g : g = [T \in SUBSET Names |-> SumAt(h, f, g, T)] /\ EdgesTo(h, f) = g[Names]
  BY <1>1, SumEquation
<1> DEFINE P == {T \in SUBSET Names : g[T] = 0}
<1>4. {} \in P
  BY <1>3 DEF SumAt
<1>5. ASSUME NEW T \in SUBSET Names, T # {}, Rest(T) \in P  PROVE T \in P
  <2>1. (CHOOSE x \in T : TRUE) \in Names
    BY <1>5
  <2>2. g[T] = h[<<CHOOSE x \in T : TRUE, f>>] + g[Rest(T)]
    BY <1>3, <1>5 DEF SumAt
  <2>3. QED
    BY <1>2, <1>5, <2>1, <2>2
<1>6. P = SUBSET Names
  <2>1. P \in SUBSET SUBSET Names
    OBVIOUS
  <2> HIDE DEF P
  <2>2. QED
    BY <1>4, <1>5, <2>1, SubsetInduction DEF Rest
<1>7. QED
  BY <1>3, <1>6 DEF h

\* An entry adds to a function's calls what it adds to the edges that lead to it.
LEMMA EntryCovered ==
  ASSUME GraphTypeOK, calls \in [Names -> Nat], CallsCoverEdges, Enters, CountEntry
  PROVE  CallsCoverEdges'
<1> DEFINE pair == <<Name(last_func), Name(Func)>>
<1>0. IsFiniteSet(Names) /\ call_pairs \in [Edge -> Nat]
  BY NamesAssumption DEF GraphTypeOK
<1>1. Func \in 0 .. Len(symbols) /\ Name(Func) \in Names
  BY SymbolAtType, NameType DEF GraphTypeOK, Func, Enters
<1>2. CASE last_cf \in Linked /\ last_func # None
  <2>1. pair \in Edge
    BY <1>1, <1>2, NameType DEF GraphTypeOK, Edge
  <2>2. call_pairs' = Bump(call_pairs, pair) /\ calls' = Bump(calls, Name(Func))
    BY <1>2 DEF CountEntry, Linked
  <2>3. ASSUME NEW f \in Names  PROVE EdgesTo(call_pairs', f) <= calls'[f]
    <3>1. /\ EdgesTo(call_pairs, f) \in Nat
          /\ EdgesTo(Bump(call_pairs, pair), f)
             = EdgesTo(call_pairs, f) + (IF pair[2] = f THEN 1 ELSE 0)
      BY <1>0, <2>1, SumBump
    <3>2. calls'[f] = calls[f] + (IF f = Name(Func) THEN 1 ELSE 0)
      BY <1>1, <2>2, BumpAt
    <3>3. EdgesTo(call_pairs, f) <= calls[f] /\ calls[f] \in Nat
      BY DEF CallsCoverEdges
    <3>4. pair[2] = Name(Func)
      OBVIOUS
    <3> HIDE DEF pair
    <3>5. QED
      BY <2>2, <3>1, <3>2, <3>3, <3>4
  <2>4. QED
    BY <2>3 DEF CallsCoverEdges
<1>3. CASE ~(last_cf \in Linked /\ last_func # None)
  <2>1. call_pairs' = call_pairs /\ \A f \in Names : calls[f] <= calls'[f]
    BY <1>1, <1>3 DEF CountEntry, Bump
  <2>2. ASSUME NEW f \in Names  PROVE EdgesTo(call_pairs', f) <= calls'[f]
    <3>1. EdgesTo(call_pairs, f) \in Nat
      BY <1>0, <1>1, SumType
    <3>2. EdgesTo(call_pairs, f) <= calls[f] /\ calls[f] <= calls'[f]
      BY <2>1 DEF CallsCoverEdges
    <3>3. calls[f] \in Nat /\ calls'[f] \in Nat
      BY <1>1 DEF CountEntry, Bump
    <3>4. QED
      BY <2>1, <3>1, <3>2, <3>3
  <2>3. QED
    BY <2>2 DEF CallsCoverEdges
<1>4. QED
  BY <1>2, <1>3

LEMMA CoverStep ==
  ASSUME GraphTypeOK, calls \in [Names -> Nat], CallsCoverEdges, [ProfNext]_profvars
  PROVE  CallsCoverEdges'
<1>1. CASE UNCHANGED graph
  BY <1>1 DEF graph, CallsCoverEdges
<1>2. CASE Cleared
  BY <1>2, SumZero, NamesAssumption DEF Cleared, CallsCoverEdges
<1>3. CASE RecordInsn
  BY <1>1, <1>3, EntryCovered DEF RecordInsn
<1>4. QED
  BY <1>1, <1>2, <1>3 DEF ProfNext, profvars, profile, Enable, LoadElf, Reset, SetIrq,
     CallStep, Execute

\* A function's calls cover its incoming edges, for any number of functions.
THEOREM CallsCover == ProfSpec => []CallsCoverEdges
<1>1. ProfInit => CallsCoverEdges
  BY SumZero, NamesAssumption DEF ProfInit, CallsCoverEdges
<1>2. ProfTypeOK => calls \in [Names -> Nat]
  BY DEF ProfTypeOK
<1>3. GraphTypeOK /\ calls \in [Names -> Nat] /\ CallsCoverEdges /\ [ProfNext]_profvars
      => CallsCoverEdges'
  BY CoverStep
<1>4. TypeOK /\ CallInv /\ GraphTypeOK /\ [ProfNext]_profvars => GraphTypeOK'
  BY GraphTyped
<1>5. QED
  BY <1>1, <1>2, <1>3, <1>4, ProfTypesInit, ProfTypesCorrect, HartInvariant, PTL
     DEF ProfSpec
=============================================================================
