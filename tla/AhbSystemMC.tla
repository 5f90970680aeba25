---------------------------- MODULE AhbSystemMC -----------------------------
(***************************************************************************)
(* Instances of AhbSystem: every batch size from the eight instructions    *)
(* the test needs to several rounds of the polling loop.                   *)
(***************************************************************************)
EXTENDS AhbSystem

AhbBits == {0, MIE}
AhbLines == {0}
OnlyAhb == {AhbFirmware}
OneBit == {0, 1}
EnoughBatches == 8 .. 24
=============================================================================
