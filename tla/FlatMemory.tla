----------------------------- MODULE FlatMemory -----------------------------
(***************************************************************************)
(* What a byte-addressed store promises to the program that uses it.       *)
(* Accesses in "plain" are served by the cells: a store changes the bytes  *)
(* it addresses and no others, a load returns the bytes it addresses,      *)
(* extended to a word.  Any other access leaves the cells alone.  Memory   *)
(* is replaced as a whole, by somebody else, between accesses.             *)
(***************************************************************************)
EXTENDS Integers

CONSTANT BYTE              \* the number of values of a byte (256)

VARIABLES cells,           \* the bytes, by address
          plain,           \* the accesses <<op, addr>> the cells serve
          at,              \* the last access
          rd               \* the word the last load returned

flatVars == <<cells, plain, at, rd>>

Loads == {"LB", "LH", "LW", "LBU", "LHU"}
Stores == {"SB", "SH", "SW"}
Width(op) == IF op \in {"LB", "LBU", "SB"} THEN 1
             ELSE IF op \in {"LH", "LHU", "SH"} THEN 2 ELSE 4

Lanes == 0 .. 3
SignByte(b) == IF b >= BYTE \div 2 THEN BYTE - 1 ELSE 0

\* The word of n bytes at a, extended as the instruction says.
Loaded(op, a) ==
  [i \in Lanes |-> IF i < Width(op) THEN cells[a + i]
                   ELSE IF op \in {"LB", "LH"}
                          THEN SignByte(cells[a + Width(op) - 1]) ELSE 0]

Stored(op, a, w) ==
  [x \in DOMAIN cells |-> IF a <= x /\ x < a + Width(op) THEN w[x - a] ELSE cells[x]]

Access ==
  /\ at'.op \in Loads \cup Stores
  /\ IF <<at'.op, at'.addr>> \notin plain THEN UNCHANGED cells
     ELSE IF at'.op \in Stores
            THEN cells' = Stored(at'.op, at'.addr, at'.data) /\ UNCHANGED rd
            ELSE rd' = Loaded(at'.op, at'.addr) /\ UNCHANGED cells

Replace == at'.op = "none" /\ UNCHANGED rd

FlatInit == at.op = "none"
FlatNext == Access \/ Replace
FlatSpec == FlatInit /\ [][FlatNext]_flatVars
=============================================================================
