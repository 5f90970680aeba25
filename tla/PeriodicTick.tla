---------------------------- MODULE PeriodicTick ----------------------------
(***************************************************************************)
(* What a machine timer and the handler that re-arms it promise together:  *)
(* an interrupt is served only when the clock has reached the deadline,    *)
(* once per deadline, and the next deadline is a period after a moment of  *)
(* the handler's own run.  TimerSystem implements it.                      *)
(***************************************************************************)
EXTENDS Integers

CONSTANTS
  Period,     (* clock ticks from one interrupt to the next *)
  Last        (* bound: the clock stops here                *)

VARIABLES
  now,      (* the clock                                           *)
  due,      (* the deadline, Never before the first is programmed  *)
  armed,    (* no handler still has to set the next deadline       *)
  served    (* when the last interrupt was served                  *)

vars == <<now, due, armed, served>>

Never == -1

Init == now = 0 /\ due = Never /\ armed = TRUE /\ served = 0

Advance == now < Last /\ now' = now + 1 /\ UNCHANGED <<due, armed, served>>

\* The firmware's first deadline.
Program == due = Never /\ due' = Period /\ UNCHANGED <<now, armed, served>>

Expired == due # Never /\ now >= due

Fire ==
  /\ armed /\ Expired
  /\ armed' = FALSE /\ served' = now
  /\ UNCHANGED <<now, due>>

\* The handler adds the period to a clock value it read since it was entered.
Rearm ==
  /\ ~armed
  /\ \E seen \in served .. now : due' = seen + Period
  /\ armed' = TRUE
  /\ UNCHANGED <<now, served>>

Next == Advance \/ Program \/ Fire \/ Rearm

Spec == Init /\ [][Next]_vars

-----------------------------------------------------------------------------
\* Between two interrupts at least a period passes, however long a handler
\* takes and wherever in it the clock is read (firmware_timer.S, "for periodic
\* tick").
Spaced == [][Fire => now >= served + Period]_vars

\* Every deadline, once set, is a period past the last interrupt.
DueAhead ==
  /\ now \in Nat /\ served \in 0 .. now /\ due \in Int
  /\ due = Never => armed /\ served = 0
  /\ due # Never => due >= Period /\ (armed => due >= served + Period)
=============================================================================
