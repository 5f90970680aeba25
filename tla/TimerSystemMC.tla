--------------------------- MODULE TimerSystemMC ----------------------------
(***************************************************************************)
(* Instances of TimerSystem: a period of 6 cycles for the firmware's       *)
(* 50000, four of which fit in the bound on the clock.                     *)
(***************************************************************************)
EXTENDS TimerSystem

TimerBits == {MIE, MTI}
TimerLines == {MTI}
OnlyTimer == {TimerFirmware}
\* Handlers that span clock edges, handlers that fit between two, and batches
\* that hold all the firmware does in a cycle, for either main loop.
AllBenches == {"zephyr_tb", "boot_tb"} \X (1 .. 30)
=============================================================================
