------------------------------- MODULE AhbBus -------------------------------
(***************************************************************************)
(* The bus of the AHB test bench: the bridge ahb_lite_bfm.sv, the slave    *)
(* ahb_gpio.sv, the address decoding and interrupt wiring of               *)
(* tb_top_ahb.sv, and the function ahb_transaction of rv32_dpi_ahb_tb.cpp  *)
(* that drives them half a clock period at a time.                         *)
(*                                                                         *)
(* A register address is named by its register: "reserved" stands for the  *)
(* offsets of the slave that decode to nothing, "outside" for every        *)
(* address the slave is not selected at.  The slave is always ready.       *)
(***************************************************************************)
EXTENDS Integers

CONSTANTS
  Word,       (* values of a 32-bit register that are told apart     *)
  Timeout     (* half-periods ahb_transaction waits: 100 in the code *)

ASSUME WordAssumption == Word \subseteq Nat /\ 0 \in Word
ASSUME TimeoutAssumption == Timeout \in Nat /\ Timeout >= 6

Reg == {"GPIO_OUT", "GPIO_IE", "GPIO_STATUS", "reserved", "outside"}
Request == [reg: Reg, write: BOOLEAN, data: Word]

VARIABLES
  clk,
  state, haddr, htrans, hwrite, hwdata,   (* ahb_lite_bfm             *)
  ahb_req_valid, request,                 (* its request port         *)
  ahb_req_ready, ahb_req_rdata,           (* and its answer           *)
  gpio_out, gpio_ie,                      (* ahb_gpio                 *)
  irq,                                    (* the last rv_set_irq call *)
  trans, half                             (* ahb_transaction: its loop, and the
                                             half-periods left in it  *)

bfm == <<state, haddr, htrans, hwrite, hwdata, ahb_req_ready, ahb_req_rdata>>
gpio == <<gpio_out, gpio_ie>>
caller == <<ahb_req_valid, request>>
busvars == <<clk, bfm, gpio, irq, caller, trans, half>>

\* After the harness held rstn low for four half-periods.
BusInit ==
  /\ clk = 0
  /\ state = "BFM_IDLE" /\ haddr = "outside" /\ htrans = "IDLE"
  /\ hwrite = FALSE /\ hwdata = 0
  /\ ahb_req_ready = FALSE /\ ahb_req_rdata = 0
  /\ ahb_req_valid = FALSE
  /\ request = [reg |-> "outside", write |-> FALSE, data |-> 0]
  /\ gpio_out = 0 /\ gpio_ie = 0
  /\ irq = 0
  /\ trans = "none" /\ half = 0

-----------------------------------------------------------------------------
(* What the clocked blocks do at a rising edge; each reads the values from *)
(* before the edge.                                                        *)

Selected == haddr # "outside" /\ htrans = "NONSEQ"

HRDATA ==
  CASE ~Selected \/ hwrite -> 0
    [] haddr = "GPIO_OUT" -> gpio_out
    [] haddr = "GPIO_IE" -> gpio_ie
    [] haddr = "GPIO_STATUS" -> gpio_out % 2
    [] OTHER -> 0

\* Mutant of AddressPhase: the data of a write is driven a phase late.
AddressPhaseLate ==
  /\ state' = "BFM_ADDR" /\ htrans' = "NONSEQ"
  /\ haddr' = request.reg /\ hwrite' = request.write
  /\ hwdata' = hwdata

AddressPhase ==
  /\ state' = "BFM_ADDR" /\ htrans' = "NONSEQ"
  /\ haddr' = request.reg /\ hwrite' = request.write
  /\ hwdata' = IF request.write THEN request.data ELSE hwdata

\* ahb_lite_bfm.
BridgeEdge ==
  \/ /\ state = "BFM_IDLE"
     /\ IF ahb_req_valid THEN AddressPhase
        ELSE state' = state /\ htrans' = "IDLE" /\ UNCHANGED <<haddr, hwrite, hwdata>>
     /\ ahb_req_ready' = FALSE /\ UNCHANGED ahb_req_rdata
  \/ /\ state = "BFM_ADDR" /\ state' = "BFM_DATA"
     /\ UNCHANGED <<haddr, htrans, hwrite, hwdata, ahb_req_ready, ahb_req_rdata>>
  \/ /\ state = "BFM_DATA" /\ state' = "BFM_DONE"
     /\ ahb_req_rdata' = IF hwrite THEN ahb_req_rdata ELSE HRDATA
     /\ ahb_req_ready' = TRUE
     /\ UNCHANGED <<haddr, htrans, hwrite, hwdata>>
  \/ /\ state = "BFM_DONE"
     /\ state' = IF ahb_req_valid THEN state ELSE "BFM_IDLE"
     /\ ahb_req_ready' = FALSE
     /\ UNCHANGED <<haddr, htrans, hwrite, hwdata, ahb_req_rdata>>

\* ahb_gpio: the bridge leaves the address phase on the bus until it is idle, so
\* a write is repeated at every edge up to then.
GpioEdge ==
  /\ gpio_out' = IF Selected /\ hwrite /\ haddr = "GPIO_OUT" THEN hwdata ELSE gpio_out
  /\ gpio_ie' = IF Selected /\ hwrite /\ haddr = "GPIO_IE" THEN hwdata ELSE gpio_ie

\* Mutants of IrqEdge: the line is not lowered; the whole register is passed.
IrqEdgeRaise == irq' = IF gpio_out % 2 = 1 THEN 1 ELSE irq
IrqEdgeWord == irq' = gpio_out

\* tb_top_ahb: rv_set_irq(ext_irq).
IrqEdge == irq' = gpio_out % 2

-----------------------------------------------------------------------------
(* ahb_transaction.                                                        *)

Drive(req) ==
  /\ trans = "none" /\ trans' = "request" /\ half' = Timeout
  /\ ahb_req_valid' = TRUE /\ request' = req
  /\ UNCHANGED <<clk, bfm, gpio, irq>>

\* The harness's own clock cycles between two calls of rv_step.
Settle(n) ==
  /\ trans = "none" /\ trans' = "settle" /\ half' = n
  /\ UNCHANGED <<clk, bfm, gpio, irq, caller>>

\* Mutants of DrainTicks: the loop is half as long, or one iteration.
DrainTicksTwo == 2
DrainTicksOne == 1
DrainTicks == 4

\* tick(), and the loop it is called from.
Tick ==
  /\ trans \in {"request", "drain", "settle"}
  /\ clk' = 1 - clk
  /\ IF clk = 0 THEN BridgeEdge /\ GpioEdge /\ IrqEdge ELSE UNCHANGED <<bfm, gpio, irq>>
  /\ \/ /\ trans = "request" /\ (ahb_req_ready' \/ half = 1)
        /\ trans' = "drain" /\ half' = DrainTicks /\ ahb_req_valid' = FALSE
     \/ /\ trans = "request" /\ ~ahb_req_ready' /\ half > 1
        /\ half' = half - 1 /\ UNCHANGED <<trans, ahb_req_valid>>
     \/ /\ trans \in {"drain", "settle"} /\ half > 1
        /\ half' = half - 1 /\ UNCHANGED <<trans, ahb_req_valid>>
     \/ /\ trans \in {"drain", "settle"} /\ half = 1
        /\ half' = 0 /\ UNCHANGED ahb_req_valid
        /\ trans' = IF trans = "drain" THEN "reply" ELSE "none"
  /\ UNCHANGED request

\* ahb_transaction returns to the simulator.
Reply ==
  /\ trans = "reply" /\ trans' = "none"
  /\ UNCHANGED <<clk, bfm, gpio, irq, caller, half>>

BusNext ==
  \/ \E req \in Request : Drive(req)
  \/ \E n \in {2, 4} : Settle(n)
  \/ Tick
  \/ Reply

BusSpec == BusInit /\ [][BusNext]_busvars

-----------------------------------------------------------------------------
(* Properties.                                                             *)

BusTypeOK ==
  /\ clk \in {0, 1}
  /\ state \in {"BFM_IDLE", "BFM_ADDR", "BFM_DATA", "BFM_DONE"}
  /\ haddr \in Reg /\ htrans \in {"IDLE", "NONSEQ"} /\ hwrite \in BOOLEAN
  /\ hwdata \in Word /\ ahb_req_rdata \in Word \union {0, 1}
  /\ ahb_req_valid \in BOOLEAN /\ request \in Request /\ ahb_req_ready \in BOOLEAN
  /\ gpio_out \in Word /\ gpio_ie \in Word /\ irq \in {0, 1}
  /\ trans \in {"none", "request", "drain", "reply", "settle"} /\ half \in 0 .. Timeout

Accessing == trans \in {"request", "drain", "reply"}
Finished == trans \in {"drain", "reply"} \/ (request.write /\ state = "BFM_DATA")

Port == INSTANCE RegisterPort
  WITH out <- gpio_out, ie <- gpio_ie, line <- irq,
       access <- IF Accessing THEN request ELSE [reg |-> "none"],
       done <- Accessing /\ Finished,
       result <- ahb_req_rdata

\* For all that a write is repeated at several edges and the bridge answers in
\* the middle of the caller's loop, an access is atomic, and once it has returned
\* the hart knows the line its write asked for (ahb_transaction).
AtomicAccess == Port!Spec

\* The bridge answers within six half-periods, whatever phase the clock is in
\* when the request is made: the loop of ahb_transaction never runs out.
Answered == trans = "request" => half > Timeout - 6

\* rv32_dpi_ahb_tb.cpp: "Tick until BFM returns to IDLE state (deterministic: 2
\* cycles max)".  Between accesses the bridge is idle and off the bus.
QuietBetween ==
  trans \in {"none", "reply"} =>
    state = "BFM_IDLE" /\ htrans = "IDLE" /\ ~ahb_req_ready /\ ~ahb_req_valid
=============================================================================
