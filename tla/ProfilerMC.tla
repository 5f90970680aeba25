----------------------------- MODULE ProfilerMC -----------------------------
(***************************************************************************)
(* Small images for Profiler, of eight slots, with one interrupt line.     *)
(***************************************************************************)
EXTENDS Profiler

Op(op, to) == [op |-> op, csr |-> "readonly", f3 |-> "write", val |-> {}, to |-> to]
Csr(csr, f3, val, to) == [op |-> "csr", csr |-> csr, f3 |-> f3, val |-> val, to |-> to]
Image(insns) == [s \in Ram |-> insns[s + 1]]
Sym(addr, size, name) == [addr |-> addr, size |-> size, name |-> name]
Kinds(jumps) == [s \in Ram |-> IF s \in DOMAIN jumps THEN jumps[s] ELSE "CF_NONE"]

\* main calls f in a loop; the handler, which has a symbol of its own.
LoopImage == Image(<<Csr("mtvec", "write", {}, 6), Csr("mstatus", "set", {MIE}, 0),
                     Op("jump", 4), Op("jump", 2), Op("wfi", 0), Op("jump", 3),
                     Op("plain", 0), Op("mret", 0)>>)
LoopListing ==
  [symbols |-> <<Sym(0, 4, "main"), Sym(4, 2, "f"), Sym(6, 2, "isr")>>,
   kind |-> Kinds([s \in {2, 3, 5} |->
              CASE s = 2 -> "CF_CALL" [] s = 3 -> "CF_JUMP" [] s = 5 -> "CF_RET"])]

\* A tail call, a branch out of a function, code without a symbol, two static
\* functions of one name, a symbol inside another, and MRET used as a jump.
TailImage == Image(<<Op("jump", 2), Op("branch", 6), Op("plain", 0), Op("jump", 5),
                     Op("cjump", 4), Op("jump", 1), Csr("mepc", "write", {}, 2),
                     Op("mret", 0)>>)
TailListing ==
  [symbols |-> <<Sym(0, 2, "main"), Sym(2, 3, "f"), Sym(4, 1, "main"), Sym(5, 1, "f")>>,
   kind |-> Kinds([s \in {0, 3, 4, 5} |->
              CASE s = 0 -> "CF_CALL" [] s = 3 -> "CF_JUMP" [] s = 4 -> "CF_JUMP"
                [] s = 5 -> "CF_RET"])]

Images == {LoopImage, TailImage}
Listings == [image \in Images |-> IF image = LoopImage THEN LoopListing ELSE TailListing]
ProfBits == {0, MIE}
OneLine == {0}
ThreeNames == {"main", "f", "isr"}
=============================================================================
