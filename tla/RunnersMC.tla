----------------------------- MODULE RunnersMC ------------------------------
(***************************************************************************)
(* Suites of small programs for Runners: batches of 3 instructions for     *)
(* 1000, and a limit of 7.                                                 *)
(***************************************************************************)
EXTENDS Runners

Op(op, to) == [op |-> op, csr |-> "readonly", f3 |-> "write", val |-> {}, to |-> to]
SetMie == [op |-> "csr", csr |-> "mstatus", f3 |-> "set", val |-> {MIE}, to |-> 0]
Image(insns) == [s \in Ram |-> insns[s + 1]]
Marks(marks) == [s \in Ram |-> marks[s + 1]]
Prog(insns, entry, marks, half) ==
  [image |-> Image(insns), entry |-> entry, linked |-> Ram, left_out |-> {},
   mark |-> Marks(marks), half |-> half]

Stop == Op("stop", 0)
Plain == Op("plain", 0)
Silent == <<"none", "none", "none", "none">>

\* A test of riscv-tests: it may fail, and then stops at once.
IsaTest == Prog(<<Stop, Plain, Op("branch", 0), Plain>>, 1,
                <<"none", "fail", "none", "pass">>, {})
\* One of two instructions, in its own segment.
Short == [Prog(<<Stop, Plain, Stop, Stop>>, 1, <<"none", "pass", "none", "none">>, {})
            EXCEPT !.linked = {1, 2}]
\* A benchmark, which leaves through tohost_exit.
Exits == Prog(<<Stop, Op("mmio", 0), Op("exit", 0), Op("jump", 3)>>, 1,
              <<"none", "none", "pass", "none">>, {})
ExitsBad == Prog(<<Stop, Op("exit", 0), Op("jump", 2), Stop>>, 1,
                 <<"none", "fail", "none", "none">>, {})
\* One whose stores to tohost are halfwords: a request, then an exit.
ExitsHalf == Prog(<<Stop, Plain, Plain, Op("branch", 1)>>, 1,
                  <<"none", "request", "pass", "none">>, {1, 2})
\* And one whose request may be a wild pointer.
ExitsHalfBad == Prog(<<Plain, Op("branch", 0), Plain, Stop>>, 1,
                     <<"wild", "none", "fail", "none">>, {0, 2})
\* It enables interrupts and sleeps.
Sleeps == Prog(<<Stop, SetMie, Plain, Op("wfi", 0)>>, 1, <<"none", "none", "fail", "none">>, {})
\* A loop of one batch's length, and one of another.
Spins == [Prog(<<Stop, Plain, Plain, Op("jump", 1)>>, 1, Silent, {}) EXCEPT !.linked = 1 .. 3]
Loops == Prog(<<Stop, Plain, Op("jump", 1), Stop>>, 1, Silent, {})
\* Its entry is address 0, which rv_load_elf also returns for a failure.
AtZero == Prog(<<Plain, Plain, Stop, Stop>>, 0, <<"pass", "none", "none", "none">>, {})

\* A test that reports its failure; the segment with its last two slots, or every
\* segment, may be left out.
Failing == Prog(<<Stop, Plain, Op("branch", 0), Plain>>, 1,
                <<"none", "fail", "none", "fail">>, {})
Truncated == [Failing EXCEPT !.left_out = {2, 3}]
Nothing == [Failing EXCEPT !.left_out = Ram]

AllPrograms == {IsaTest, Short, Exits, ExitsBad, ExitsHalf, ExitsHalfBad,
                Sleeps, Spins, Loops, AtZero, Truncated, Nothing}
OnlyExits == {Exits}
Tests == {IsaTest, Failing, Nothing}
\* Whatever RAM may come to hold: in each slot, of some program or of none.
Images ==
  LET insns(s) == {p.image[s] : p \in AllPrograms \union {NoProgram, Failing}}
  IN  {Image(<<w, x, y, z>>) : w \in insns(0), x \in insns(1), y \in insns(2), z \in insns(3)}
RunBits == {0, MIE}
OneLine == {0}
=============================================================================
