---------------------------- MODULE RegisterPort ----------------------------
(***************************************************************************)
(* What a bus access to the GPIO promises the program that makes it: the   *)
(* access takes effect at one moment between the call and its return, a    *)
(* write takes effect once, and on its return the interrupt line the hart  *)
(* has been told of is the one the registers ask for.  AhbBus implements   *)
(* it.                                                                     *)
(***************************************************************************)
EXTENDS Integers

CONSTANT Word     (* values of a register *)

Reg == {"GPIO_OUT", "GPIO_IE", "GPIO_STATUS", "reserved", "outside"}

VARIABLES
  out, ie,      (* the two registers                                 *)
  line,         (* the interrupt line as the hart was last told      *)
  access,       (* the access in progress, or NoAccess               *)
  done,         (* it has taken effect                               *)
  result        (* what the last read returned                       *)

vars == <<out, ie, line, access, done, result>>

NoAccess == [reg |-> "none"]
Access == [reg: Reg, write: BOOLEAN, data: Word]

Init ==
  /\ out = 0 /\ ie = 0 /\ line = 0
  /\ access = NoAccess /\ done = FALSE /\ result = 0

Call ==
  /\ access = NoAccess
  /\ access' \in Access
  /\ UNCHANGED <<out, ie, line, done, result>>

Value(reg) ==
  CASE reg = "GPIO_OUT" -> out
    [] reg = "GPIO_IE" -> ie
    [] reg = "GPIO_STATUS" -> out % 2
    [] OTHER -> 0

Effect ==
  /\ access # NoAccess /\ ~done
  /\ done' = TRUE
  /\ IF access.write
     THEN /\ out' = IF access.reg = "GPIO_OUT" THEN access.data ELSE out
          /\ ie' = IF access.reg = "GPIO_IE" THEN access.data ELSE ie
          /\ result' = result
     ELSE result' = Value(access.reg) /\ UNCHANGED <<out, ie>>
  /\ UNCHANGED <<line, access>>

Sample == line' = out % 2 /\ UNCHANGED <<out, ie, access, done, result>>

Return ==
  /\ access # NoAccess /\ done /\ line = out % 2
  /\ access' = NoAccess /\ done' = FALSE
  /\ UNCHANGED <<out, ie, line, result>>

Next == Call \/ Effect \/ Sample \/ Return

Spec == Init /\ [][Next]_vars
=============================================================================
