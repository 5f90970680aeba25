------------------------------ MODULE AhbBusMC ------------------------------
(***************************************************************************)
(* AhbBus with any sequence of accesses: three register values, so that    *)
(* bit 0 and the rest differ, and a timeout just above the bridge's six    *)
(* half-periods.                                                           *)
(***************************************************************************)
EXTENDS AhbBus

Words == 0 .. 2
=============================================================================
