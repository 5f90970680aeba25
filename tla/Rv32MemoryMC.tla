---------------------------- MODULE Rv32MemoryMC ----------------------------
(***************************************************************************)
(* A small instance of Rv32Memory: bytes of four values and 256 addresses, *)
(* one device register in a window of twelve bytes, and RAM that lies at   *)
(* 0, around the host window, or at the top of the address space.          *)
(***************************************************************************)
EXTENDS Rv32Memory

W(b0, b1, b2, b3) ==
  [i \in Lane |-> CASE i = 0 -> b0 [] i = 1 -> b1 [] i = 2 -> b2 [] OTHER -> b3]

\* An odd word, and the addresses of a request in low and in high RAM.
ExitWord == W(3, 2, 1, 2)
LowRequest == W(0, 1, 0, 0)
HighRequest == W(0, 3, 3, 1)
Magic == LowRequest

\* A segment at a of n bytes, the first four of them in the file.
Segment(a, w, n) == [vaddr |-> a, memsz |-> n, filesz |-> 4, data |-> w]

LowProgram == {Segment(0, W(1, 2, 3, 0), 6), Segment(8, W(2, 1, 0, 3), 4)}
HighProgram == {Segment(120, W(1, 3, 2, 3), 4), Segment(124, Magic, 6)}
NearTopProgram == {Segment(244, W(3, 0, 1, 2), 4)}
TopProgram == {Segment(248, W(1, 1, 1, 1), 8)}
SomePrograms == {LowProgram, HighProgram, NearTopProgram, TopProgram}

SomeImages == {[o \in 0 .. MaxRam - 1 |-> IF o \in 4 .. 7 THEN Magic[o - 4] ELSE 3]}
SomeSizes == {0, 12}
SomeAddrs == {0, 5, 7, 65, 66, 70, 126, 128, 131, 136, 246, 254}
SomeWords == {ExitWord, LowRequest, HighRequest}
=============================================================================
