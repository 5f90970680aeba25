----------------------------- MODULE SoftFloatMC ----------------------------
(***************************************************************************)
(* An instance of SoftFloat: doubles of six mantissa and four exponent     *)
(* bits, every exponent with the mantissas at the edges.                   *)
(***************************************************************************)
EXTENDS SoftFloat

EdgeOperands == {x \in Double : x.m \in {0, 1, 2, 27, 62, 63}}
Some == [a |-> Float(1, 7, 62), b |-> Float(0, 9, 27), c |-> Inf(0), f |-> Zero(0), n |-> 0]
Pairs == {[Some EXCEPT !.a = x, !.b = y] : x \in EdgeOperands, y \in EdgeOperands}
Others == {[Some EXCEPT !.c = x] : x \in Double}
            \union {[Some EXCEPT !.f = x] : x \in Single}
            \union {[Some EXCEPT !.n = n] : n \in IntMin + 1 .. -IntMin - 1}
AllArguments == Pairs \union Others
=============================================================================
