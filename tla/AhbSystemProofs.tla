--------------------------- MODULE AhbSystemProofs --------------------------
(***************************************************************************)
(* First the bus: AhbBus implements RegisterPort, for every set of         *)
(* register values and every timeout of at least six half-periods.  The    *)
(* inductive invariant BusInv ties the loop of ahb_transaction to the      *)
(* state of the bridge and the phase of the clock.  Then what the AHB      *)
(* bench inherits from its parts, that no call of rv_step sees an          *)
(* interrupt line from before a store that had returned, and that the      *)
(* self-test passes.                                                       *)
(***************************************************************************)
EXTENDS AhbSystem, Rv32CoreProofs

-----------------------------------------------------------------------------
(* The bus.                                                                *)

\* How far the bridge is when the loop has made Timeout - half ticks.
RequestInv ==
  trans = "request" =>
    /\ ahb_req_valid /\ ~ahb_req_ready
    /\ \/ /\ state = "BFM_IDLE" /\ htrans = "IDLE"
          /\ half = Timeout \/ (half = Timeout - 1 /\ clk = 0)
       \/ /\ state = "BFM_ADDR"
          /\ half \in (IF clk = 1 THEN {Timeout - 1, Timeout - 2}
                                  ELSE {Timeout - 2, Timeout - 3})
       \/ /\ state = "BFM_DATA"
          /\ half \in (IF clk = 1 THEN {Timeout - 3, Timeout - 4}
                                  ELSE {Timeout - 4, Timeout - 5})

DrainInv ==
  trans = "drain" =>
    /\ ~ahb_req_valid
    /\ \/ half = 4 /\ clk = 1 /\ state = "BFM_DONE"
       \/ half = 3 /\ clk = 0 /\ state = "BFM_DONE"
       \/ half = 2 /\ clk = 1 /\ state = "BFM_IDLE" /\ ~ahb_req_ready
       \/ half = 1 /\ clk = 0 /\ state = "BFM_IDLE" /\ ~ahb_req_ready

SettleInv ==
  trans = "settle" =>
    /\ state = "BFM_IDLE" /\ htrans = "IDLE" /\ ~ahb_req_ready /\ ~ahb_req_valid
    /\ half \in 1 .. 4

\* While the access is on the bus it is the one requested.
OnBus == trans = "drain" \/ (trans = "request" /\ state # "BFM_IDLE")
BusHolds ==
  OnBus =>
    /\ htrans = "NONSEQ" /\ haddr = request.reg /\ hwrite = request.write
    /\ request.write => hwdata = request.data

\* A write that has taken effect is in its register, so repeating it is harmless.
WriteHolds ==
  (OnBus /\ state # "BFM_ADDR" /\ request.write) =>
    /\ request.reg = "GPIO_OUT" => gpio_out = request.data
    /\ request.reg = "GPIO_IE" => gpio_ie = request.data

\* The line follows the register, but for the edge after a write took effect.
LineHolds ==
  irq = gpio_out % 2 \/ (trans = "request" /\ state = "BFM_DATA" /\ request.write)

BusInv ==
  /\ RequestInv /\ DrainInv /\ SettleInv /\ QuietBetween
  /\ BusHolds /\ WriteHolds /\ LineHolds

LEMMA Bit == ASSUME NEW w \in Word PROVE w % 2 \in {0, 1}
  BY WordAssumption



\* The loops of ahb_transaction, whatever the edge does.
LEMMA LoopStep ==
  ASSUME BusTypeOK, Tick
  PROVE  /\ trans' \in {"none", "request", "drain", "reply", "settle"}
         /\ half' \in 0 .. Timeout /\ ahb_req_valid' \in BOOLEAN
<1>1. /\ half \in 0 .. Timeout /\ ahb_req_valid \in BOOLEAN
      /\ trans \in {"none", "request", "drain", "reply", "settle"}
  BY DEF BusTypeOK
<1>2. DrainTicks \in 0 .. Timeout
  BY TimeoutAssumption DEF DrainTicks
<1>3. \/ trans' = "drain" /\ half' = DrainTicks /\ ahb_req_valid' = FALSE
      \/ half > 1 /\ half' = half - 1 /\ UNCHANGED <<trans, ahb_req_valid>>
      \/ half' = 0 /\ trans' \in {"reply", "none"} /\ UNCHANGED ahb_req_valid
  BY DEF Tick
<1>4. half' \in 0 .. Timeout
  BY <1>1, <1>2, <1>3, TimeoutAssumption
<1>5. trans' \in {"none", "request", "drain", "reply", "settle"}
  BY <1>1, <1>3
<1>6. ahb_req_valid' \in BOOLEAN
  BY <1>1, <1>3, Zenon
<1> QED
  BY <1>4, <1>5, <1>6

LEMMA TypeStep == BusTypeOK /\ [BusNext]_busvars => BusTypeOK'
<1> SUFFICES ASSUME BusTypeOK, [BusNext]_busvars PROVE BusTypeOK'
  OBVIOUS
<1>1. ASSUME NEW req \in Request, Drive(req) PROVE BusTypeOK'
  BY <1>1, TimeoutAssumption DEF Drive, BusTypeOK, bfm, gpio
<1>2. ASSUME NEW n \in {2, 4}, Settle(n) PROVE BusTypeOK'
  BY <1>2, TimeoutAssumption DEF Settle, BusTypeOK, bfm, gpio, caller
<1>3. CASE Tick
  <2>1. CASE clk = 0
    <3>1. clk' = 1 /\ BridgeEdge /\ GpioEdge /\ IrqEdge /\ request' = request
      BY <1>3, <2>1 DEF Tick
    <3>2. HRDATA \in Word \union {0, 1}
      BY Bit DEF HRDATA, BusTypeOK
    <3>3. state' \in {"BFM_IDLE", "BFM_ADDR", "BFM_DATA", "BFM_DONE"}
           /\ haddr' \in Reg /\ htrans' \in {"IDLE", "NONSEQ"} /\ hwrite' \in BOOLEAN
           /\ hwdata' \in Word /\ ahb_req_ready' \in BOOLEAN
      BY <3>1 DEF BridgeEdge, AddressPhase, BusTypeOK, Request
    <3>4. ahb_req_rdata' \in Word \union {0, 1}
      BY <3>1, <3>2 DEF BridgeEdge, BusTypeOK
    <3>5. gpio_out' \in Word /\ gpio_ie' \in Word
      BY <3>1 DEF GpioEdge, BusTypeOK
    <3>6. irq' \in {0, 1}
      BY <3>1, Bit DEF IrqEdge, BusTypeOK
    <3>7. trans' \in {"none", "request", "drain", "reply", "settle"} /\ half' \in 0 .. Timeout
           /\ ahb_req_valid' \in BOOLEAN
      BY <1>3, LoopStep
    <3> QED
      BY <3>1, <3>3, <3>4, <3>5, <3>6, <3>7 DEF BusTypeOK
  <2>2. CASE clk # 0
    <3>1. clk' = 0 /\ UNCHANGED <<bfm, gpio, irq, request>>
      BY <1>3, <2>2 DEF Tick, BusTypeOK
    <3>2. trans' \in {"none", "request", "drain", "reply", "settle"} /\ half' \in 0 .. Timeout
           /\ ahb_req_valid' \in BOOLEAN
      BY <1>3, LoopStep
    <3> QED
      BY <3>1, <3>2 DEF BusTypeOK, bfm, gpio
  <2> QED
    BY <2>1, <2>2
<1>4. CASE Reply
  BY <1>4 DEF Reply, BusTypeOK, bfm, gpio, caller
<1>5. CASE UNCHANGED busvars
  BY <1>5 DEF busvars, BusTypeOK, bfm, gpio, caller
<1> QED
  BY <1>1, <1>2, <1>3, <1>4, <1>5 DEF BusNext

LEMMA BusTypeInit == BusInit => BusTypeOK
<1> SUFFICES ASSUME BusInit PROVE BusTypeOK
  OBVIOUS
<1>1. request \in Request
  BY WordAssumption DEF BusInit, Request, Reg
<1>2. hwrite \in BOOLEAN /\ ahb_req_valid \in BOOLEAN /\ ahb_req_ready \in BOOLEAN
  BY Zenon DEF BusInit
<1> QED
  BY <1>1, <1>2, WordAssumption, TimeoutAssumption DEF BusInit, BusTypeOK, Reg

\* Every reachable state of the bus has its types (ahb_lite_bfm.sv, ahb_gpio.sv).
THEOREM BusTypeCorrect == BusSpec => []BusTypeOK
BY BusTypeInit, TypeStep, PTL DEF BusSpec

LEMMA InvInit == BusInit => BusInv
  BY DEF BusInit, BusInv, RequestInv, DrainInv, SettleInv, QuietBetween, BusHolds,
         WriteHolds, LineHolds, OnBus

\* A tick in each of the three loops, by the phase of the clock.
LEMMA RequestTick ==
  ASSUME BusTypeOK, BusInv, Tick, trans = "request" PROVE BusInv'
<1> USE DEF BusInv
<1>0. request' = request /\ ahb_req_valid /\ ~ahb_req_ready /\ half \in Nat
  BY DEF Tick, BusTypeOK, RequestInv
<1>1. CASE clk = 1
  <2>1. clk' = 0 /\ UNCHANGED <<bfm, gpio, irq>>
    BY <1>1 DEF Tick
  <2>2. UNCHANGED <<state, haddr, htrans, hwrite, hwdata, ahb_req_ready, ahb_req_rdata,
                    gpio_out, gpio_ie, irq>>
    BY <2>1 DEF bfm, gpio
  <2>3. half > 1 /\ half # 1
    BY <1>1, TimeoutAssumption DEF RequestInv
  <2>4. trans' = "request" /\ half' = half - 1 /\ ahb_req_valid'
    BY <1>0, <2>2, <2>3, Zenon DEF Tick
  <2>5. RequestInv'
    BY <1>0, <1>1, <2>1, <2>2, <2>4, TimeoutAssumption DEF RequestInv
  <2>6. (DrainInv /\ SettleInv /\ QuietBetween)'
    BY <2>4 DEF DrainInv, SettleInv, QuietBetween
  <2>7. (BusHolds /\ WriteHolds /\ LineHolds)'
    BY <1>0, <2>2, <2>4 DEF BusHolds, WriteHolds, LineHolds, OnBus
  <2> QED
    BY <2>5, <2>6, <2>7
<1>2. CASE clk = 0
  <2>1. clk' = 1 /\ BridgeEdge /\ GpioEdge /\ IrqEdge
    BY <1>2 DEF Tick
  <2>2. CASE state = "BFM_IDLE"
    <3>1. state' = "BFM_ADDR" /\ htrans' = "NONSEQ" /\ haddr' = request.reg
           /\ hwrite' = request.write /\ (request.write => hwdata' = request.data)
           /\ ~ahb_req_ready'
      BY <1>0, <2>1, <2>2 DEF BridgeEdge, AddressPhase
    <3>2. half \in {Timeout, Timeout - 1}
      BY <2>2 DEF RequestInv
    <3>2a. half > 1 /\ half # 1
      BY <3>2, TimeoutAssumption
    <3>3. trans' = "request" /\ half' = half - 1 /\ ahb_req_valid'
      BY <1>0, <3>1, <3>2a, Zenon DEF Tick
    <3>4. htrans = "IDLE"
      BY <2>2 DEF RequestInv
    <3>5. gpio_out' = gpio_out /\ irq' = gpio_out' % 2
      BY <2>1, <3>4 DEF GpioEdge, IrqEdge, Selected
    <3> QED
      BY TimeoutAssumption, <1>0, <2>1, <3>1, <3>2, <3>3, <3>5
      DEF RequestInv, DrainInv, SettleInv, QuietBetween, BusHolds, WriteHolds, LineHolds,
          OnBus
  <2>3. CASE state = "BFM_ADDR"
    <3>1. state' = "BFM_DATA" /\ UNCHANGED <<haddr, htrans, hwrite, hwdata, ahb_req_ready>>
      BY <2>1, <2>3 DEF BridgeEdge
    <3>2. half \in {Timeout - 2, Timeout - 3}
      BY <1>2, <2>3 DEF RequestInv
    <3>2a. half > 1 /\ half # 1
      BY <3>2, TimeoutAssumption
    <3>3. trans' = "request" /\ half' = half - 1 /\ ahb_req_valid'
      BY <1>0, <3>1, <3>2a, Zenon DEF Tick
    <3>4. htrans = "NONSEQ" /\ haddr = request.reg /\ hwrite = request.write
           /\ (request.write => hwdata = request.data)
      BY <2>3 DEF BusHolds, OnBus
    <3>5. WriteHolds'
      BY <1>0, <2>1, <3>4 DEF WriteHolds, GpioEdge, Selected
    <3>6. LineHolds'
      BY <1>0, <2>1, <3>1, <3>3, <3>4 DEF LineHolds, GpioEdge, IrqEdge
    <3> QED
      BY TimeoutAssumption, <1>0, <2>1, <3>1, <3>2, <3>3, <3>4, <3>5, <3>6
      DEF RequestInv, DrainInv, SettleInv, QuietBetween, BusHolds, OnBus
  <2>4. CASE state = "BFM_DATA"
    <3>1. state' = "BFM_DONE" /\ ahb_req_ready' /\ UNCHANGED <<haddr, htrans, hwrite, hwdata>>
      BY <2>1, <2>4 DEF BridgeEdge
    <3>2. trans' = "drain" /\ half' = 4 /\ ~ahb_req_valid'
      BY <3>1 DEF Tick, DrainTicks
    <3>3. htrans = "NONSEQ" /\ haddr = request.reg /\ hwrite = request.write
           /\ (request.write => hwdata = request.data)
      BY <2>4 DEF BusHolds, OnBus
    <3>4. UNCHANGED gpio
      BY <2>1, <2>4, <3>3 DEF GpioEdge, Selected, WriteHolds, OnBus, gpio
    <3>5. (WriteHolds /\ LineHolds)'
      BY <1>0, <2>1, <2>4, <3>4 DEF WriteHolds, LineHolds, OnBus, IrqEdge, gpio
    <3> QED
      BY TimeoutAssumption, <1>0, <2>1, <3>1, <3>2, <3>3, <3>5
      DEF RequestInv, DrainInv, SettleInv, QuietBetween, BusHolds, OnBus
  <2> QED
    BY <2>2, <2>3, <2>4 DEF RequestInv
<1> QED
  BY <1>1, <1>2 DEF BusTypeOK

\* Once the access is on the bus and has taken effect, an edge repeats it in vain.
LEMMA DrainEdge ==
  ASSUME BusInv, Tick, trans = "drain" PROVE UNCHANGED <<gpio, irq>>
<1>1. CASE clk = 0
  <2>1. GpioEdge /\ IrqEdge
    BY <1>1 DEF Tick
  <2>2. haddr = request.reg /\ hwrite = request.write /\ (request.write => hwdata = request.data)
         /\ state # "BFM_ADDR"
    BY DEF BusInv, BusHolds, OnBus, DrainInv
  <2> QED
    BY <2>1, <2>2 DEF BusInv, GpioEdge, IrqEdge, WriteHolds, LineHolds, OnBus, gpio
<1>2. CASE clk # 0
  BY <1>2 DEF Tick
<1> QED
  BY <1>1, <1>2

LEMMA DrainTick ==
  ASSUME BusTypeOK, BusInv, Tick, trans = "drain" PROVE BusInv'
<1> USE DEF BusInv
<1>0. request' = request /\ ~ahb_req_valid /\ ~ahb_req_valid' /\ UNCHANGED <<gpio, irq>>
  BY DrainEdge DEF Tick, DrainInv
<1>1. UNCHANGED <<gpio_out, gpio_ie, irq>>
  BY <1>0 DEF gpio
<1>2. htrans = "NONSEQ" /\ haddr = request.reg /\ hwrite = request.write
       /\ (request.write => hwdata = request.data)
  BY DEF BusHolds, OnBus
<1>3. state # "BFM_ADDR"
  BY DEF DrainInv
<1>4. CASE clk = 1
  <2>1. UNCHANGED <<state, haddr, htrans, hwrite, hwdata, ahb_req_ready>> /\ clk' = 0
    BY <1>4 DEF Tick, bfm
  <2>2. half \in {4, 2} /\ trans' = "drain" /\ half' = half - 1
    BY <1>4 DEF Tick, DrainInv
  <2> QED
    BY <1>0, <1>1, <1>2, <1>3, <1>4, <2>1, <2>2
    DEF RequestInv, DrainInv, SettleInv, QuietBetween, BusHolds, WriteHolds, LineHolds, OnBus
<1>5. CASE clk = 0 /\ state = "BFM_DONE"
  <2>1. state' = "BFM_IDLE" /\ ~ahb_req_ready' /\ UNCHANGED <<haddr, htrans, hwrite, hwdata>>
         /\ clk' = 1
    BY <1>0, <1>5 DEF Tick, BridgeEdge
  <2>2. half = 3 /\ trans' = "drain" /\ half' = 2
    BY <1>5 DEF Tick, DrainInv
  <2> QED
    BY <1>0, <1>1, <1>2, <1>3, <2>1, <2>2
    DEF RequestInv, DrainInv, SettleInv, QuietBetween, BusHolds, WriteHolds, LineHolds, OnBus
<1>6. CASE clk = 0 /\ state = "BFM_IDLE"
  <2>1. state' = "BFM_IDLE" /\ ~ahb_req_ready' /\ htrans' = "IDLE"
    BY <1>0, <1>6 DEF Tick, BridgeEdge
  <2>2. trans' = "reply"
    BY <1>6 DEF Tick, DrainInv
  <2> QED
    BY <1>0, <1>1, <2>1, <2>2
    DEF RequestInv, DrainInv, SettleInv, QuietBetween, BusHolds, WriteHolds, LineHolds, OnBus
<1> QED
  BY <1>4, <1>5, <1>6 DEF DrainInv

LEMMA SettleTicks ==
  ASSUME BusTypeOK, BusInv, Tick, trans = "settle" PROVE BusInv'
<1> USE DEF BusInv
<1>0. state = "BFM_IDLE" /\ htrans = "IDLE" /\ ~ahb_req_ready /\ ~ahb_req_valid
       /\ half \in 1 .. 4
  BY DEF SettleInv
<1>1. irq = gpio_out % 2
  BY DEF LineHolds
<1>2. state' = "BFM_IDLE" /\ htrans' = "IDLE" /\ ~ahb_req_ready' /\ ~ahb_req_valid'
       /\ gpio_out' = gpio_out /\ irq' = gpio_out % 2
  BY <1>0, <1>1 DEF Tick, BridgeEdge, GpioEdge, IrqEdge, Selected, bfm, gpio
<1>3. (trans' = "settle" /\ half' \in 1 .. 4) \/ trans' = "none"
  BY <1>0 DEF Tick
<1> QED
  BY <1>2, <1>3
  DEF RequestInv, DrainInv, SettleInv, QuietBetween, BusHolds, WriteHolds, LineHolds, OnBus

LEMMA InvStep == BusTypeOK /\ BusInv /\ [BusNext]_busvars => BusInv'
<1> SUFFICES ASSUME BusTypeOK, BusInv, [BusNext]_busvars PROVE BusInv'
  OBVIOUS
<1> USE DEF BusInv
<1>1. ASSUME NEW req \in Request, Drive(req) PROVE BusInv'
  BY <1>1 DEF Drive, RequestInv, DrainInv, SettleInv, QuietBetween, BusHolds, WriteHolds,
              LineHolds, OnBus, bfm, gpio
<1>2. ASSUME NEW n \in {2, 4}, Settle(n) PROVE BusInv'
  BY <1>2 DEF Settle, RequestInv, DrainInv, SettleInv, QuietBetween, BusHolds, WriteHolds,
              LineHolds, OnBus, bfm, gpio, caller
<1>3. CASE Tick
  BY <1>3, RequestTick, DrainTick, SettleTicks DEF Tick
<1>4. CASE Reply
  BY <1>4 DEF Reply, RequestInv, DrainInv, SettleInv, QuietBetween, BusHolds, WriteHolds,
              LineHolds, OnBus, bfm, gpio, caller
<1>5. CASE UNCHANGED busvars
  BY <1>5 DEF busvars, RequestInv, DrainInv, SettleInv, QuietBetween, BusHolds, WriteHolds,
              LineHolds, OnBus, bfm, gpio, caller
<1> QED
  BY <1>1, <1>2, <1>3, <1>4, <1>5 DEF BusNext

LEMMA BusInvariant == BusSpec => [](BusTypeOK /\ BusInv)
<1>1. BusTypeOK /\ BusInv /\ [BusNext]_busvars => (BusTypeOK /\ BusInv)'
  BY TypeStep, InvStep
<1> QED
  BY <1>1, InvInit, BusTypeCorrect, PTL DEF BusSpec

\* The loop of ahb_transaction is answered within six half-periods.
THEOREM BridgeAnswers == BusSpec => []Answered
<1>1. BusTypeOK /\ BusInv => Answered
  BY TimeoutAssumption DEF BusInv, BusTypeOK, RequestInv, Answered
<1> QED
  BY <1>1, BusInvariant, PTL

\* Between accesses the bridge is idle and off the bus (ahb_transaction).
THEOREM BridgeIsQuiet == BusSpec => []QuietBetween
<1>1. BusInv => QuietBetween
  BY DEF BusInv
<1> QED
  BY <1>1, BusInvariant, PTL

-----------------------------------------------------------------------------
(* The refinement: the write takes effect at the edge that leaves the      *)
(* address phase, the read at the edge that leaves the data phase.         *)

LEMMA RequestIsAccess == BusTypeOK => request # Port!NoAccess /\ request \in Port!Access
<1> SUFFICES ASSUME BusTypeOK PROVE request # Port!NoAccess /\ request \in Port!Access
  OBVIOUS
<1>1. request \in Request
  BY DEF BusTypeOK
<1>2. request.reg \in Reg
  BY <1>1 DEF Request
<1>3. request # Port!NoAccess
  BY <1>2 DEF Reg, Port!NoAccess
<1>4. request \in Port!Access
  BY <1>1 DEF Request, Reg, Port!Access, Port!Reg
<1> QED
  BY <1>3, <1>4

LEMMA RequestTickMapped ==
  ASSUME BusTypeOK, BusInv, BusInv', Tick, trans = "request"
  PROVE  [Port!Next]_(Port!vars)
<1> USE DEF BusInv
<1>0. request' = request /\ Accessing /\ Accessing' /\ request # Port!NoAccess
  BY RequestIsAccess, Zenon DEF Tick, Accessing
<1>1. CASE clk # 0
  <2>1. UNCHANGED <<state, ahb_req_ready, ahb_req_rdata, gpio_out, gpio_ie, irq>>
    BY <1>1 DEF Tick, bfm, gpio
  <2>2. half # 1 /\ ~ahb_req_ready
    BY <1>1, TimeoutAssumption DEF RequestInv, BusTypeOK
  <2>3. trans' = "request"
    BY <2>1, <2>2, Zenon DEF Tick
  <2> QED
    BY <1>0, <2>1, <2>3 DEF Port!vars, Accessing, Finished
<1>2. CASE clk = 0
  <2>1. BridgeEdge /\ GpioEdge /\ irq' = gpio_out % 2
    BY <1>2 DEF Tick, IrqEdge
  <2>2. CASE state = "BFM_IDLE"
    <3>1. state' = "BFM_ADDR" /\ UNCHANGED ahb_req_rdata /\ ~ahb_req_ready'
      BY <2>1, <2>2 DEF BridgeEdge, AddressPhase, RequestInv
    <3>2. half \in {Timeout, Timeout - 1} /\ htrans = "IDLE"
      BY <2>2 DEF RequestInv
    <3>3. half # 1
      BY <3>2, TimeoutAssumption
    <3>4. trans' = "request"
      BY <3>1, <3>3, Zenon DEF Tick
    <3>5. UNCHANGED <<gpio_out, gpio_ie, irq>>
      BY <2>1, <2>2, <3>2 DEF GpioEdge, Selected, LineHolds
    <3> QED
      BY <1>0, <2>2, <3>1, <3>4, <3>5 DEF Port!vars, Accessing, Finished
  <2>3. CASE state = "BFM_ADDR"
    <3>1. state' = "BFM_DATA" /\ UNCHANGED <<ahb_req_rdata, ahb_req_ready>>
      BY <2>1, <2>3 DEF BridgeEdge
    <3>2. half # 1 /\ ~ahb_req_ready
      BY <1>2, <2>3, TimeoutAssumption DEF RequestInv
    <3>3. trans' = "request"
      BY <3>1, <3>2, Zenon DEF Tick
    <3>4. htrans = "NONSEQ" /\ haddr = request.reg /\ hwrite = request.write
           /\ (request.write => hwdata = request.data)
      BY <2>3 DEF BusHolds, OnBus
    <3>5. irq' = irq
      BY <2>1, <2>3 DEF LineHolds
    <3>6. CASE request.write
      <4>1. /\ gpio_out' = IF request.reg = "GPIO_OUT" THEN request.data ELSE gpio_out
            /\ gpio_ie' = IF request.reg = "GPIO_IE" THEN request.data ELSE gpio_ie
        BY <2>1, <3>4, <3>6 DEF GpioEdge, Selected
      <4>2. (Accessing /\ Finished) = FALSE /\ (Accessing /\ Finished)' = TRUE
        BY <1>0, <2>3, <3>1, <3>3, <3>6 DEF Finished
      <4>3. Port!Effect
        BY <1>0, <3>1, <3>5, <3>6, <4>1, <4>2 DEF Port!Effect
      <4> QED
        BY <4>3 DEF Port!Next
    <3>7. CASE ~request.write
      <4>1. UNCHANGED <<gpio_out, gpio_ie>>
        BY <2>1, <3>4, <3>7 DEF GpioEdge
      <4>2. (Accessing /\ Finished) = FALSE /\ (Accessing /\ Finished)' = FALSE
        BY <1>0, <2>3, <3>1, <3>3, <3>7 DEF Finished
      <4> QED
        BY <1>0, <3>1, <3>5, <4>1, <4>2 DEF Port!vars
    <3> QED
      BY <3>6, <3>7
  <2>4. CASE state = "BFM_DATA"
    <3>1. ahb_req_ready' /\ ahb_req_rdata' = IF hwrite THEN ahb_req_rdata ELSE HRDATA
      BY <2>1, <2>4 DEF BridgeEdge
    <3>2. trans' = "drain"
      BY <3>1 DEF Tick
    <3>3. htrans = "NONSEQ" /\ haddr = request.reg /\ hwrite = request.write
           /\ (request.write => hwdata = request.data)
      BY <2>4 DEF BusHolds, OnBus
    <3>4. UNCHANGED <<gpio_out, gpio_ie>>
      BY <2>1, <2>4, <3>3 DEF GpioEdge, Selected, WriteHolds, OnBus
    <3>5. CASE request.write
      <4>1. (Accessing /\ Finished) = TRUE /\ (Accessing /\ Finished)' = TRUE
        BY <1>0, <2>4, <3>2, <3>5 DEF Finished
      <4>2. Port!Sample
        BY <1>0, <2>1, <3>1, <3>3, <3>4, <3>5, <4>1 DEF Port!Sample
      <4> QED
        BY <4>2 DEF Port!Next
    <3>6. CASE ~request.write
      <4>1. (Accessing /\ Finished) = FALSE /\ (Accessing /\ Finished)' = TRUE
        BY <1>0, <2>4, <3>2, <3>6 DEF Finished
      <4>2. irq' = irq
        BY <2>1, <3>6 DEF LineHolds
      <4>3. HRDATA = Port!Value(request.reg)
        BY <3>3, <3>6 DEF HRDATA, Selected, Port!Value
      <4>4. Port!Effect
        BY <1>0, <3>1, <3>3, <3>4, <3>6, <4>1, <4>2, <4>3 DEF Port!Effect
      <4> QED
        BY <4>4 DEF Port!Next
    <3> QED
      BY <3>5, <3>6
  <2> QED
    BY <2>2, <2>3, <2>4 DEF RequestInv
<1> QED
  BY <1>1, <1>2

LEMMA OtherTickMapped ==
  ASSUME BusTypeOK, BusInv, BusInv', Tick, trans # "request"
  PROVE  [Port!Next]_(Port!vars)
<1> USE DEF BusInv
<1>0. request' = request
  BY DEF Tick
<1>1. CASE trans = "drain"
  <2>1. UNCHANGED <<gpio_out, gpio_ie, irq>>
    BY <1>1, DrainEdge DEF gpio
  <2>2. ahb_req_rdata' = ahb_req_rdata
    BY <1>1 DEF Tick, BridgeEdge, DrainInv, bfm
  <2>3. trans' \in {"drain", "reply"}
    BY <1>1 DEF Tick
  <2> QED
    BY <1>0, <1>1, <2>1, <2>2, <2>3 DEF Port!vars, Accessing, Finished
<1>2. CASE trans = "settle"
  <2>1. UNCHANGED <<gpio_out, gpio_ie, irq>>
    BY <1>2 DEF Tick, SettleInv, GpioEdge, IrqEdge, Selected, LineHolds, gpio
  <2>2. ahb_req_rdata' = ahb_req_rdata
    BY <1>2 DEF Tick, BridgeEdge, SettleInv, bfm
  <2>3. trans' \in {"settle", "none"}
    BY <1>2 DEF Tick
  <2> QED
    BY <1>0, <1>2, <2>1, <2>2, <2>3 DEF Port!vars, Accessing, Finished
<1> QED
  BY <1>1, <1>2 DEF Tick

LEMMA StepMapped ==
  ASSUME BusTypeOK, BusTypeOK', BusInv, BusInv', [BusNext]_busvars
  PROVE  [Port!Next]_(Port!vars)
<1>1. ASSUME NEW req \in Request, Drive(req) PROVE [Port!Next]_(Port!vars)
  <2>1. trans = "none" /\ trans' = "request" /\ request' = req
         /\ UNCHANGED <<state, gpio_out, gpio_ie, irq, ahb_req_rdata>>
    BY <1>1 DEF Drive, bfm, gpio
  <2>2. state = "BFM_IDLE"
    BY <2>1 DEF BusInv, QuietBetween
  <2>3. ~Accessing /\ Accessing'
    BY <2>1 DEF Accessing
  <2>4. (Accessing /\ Finished) = FALSE /\ (Accessing /\ Finished)' = FALSE
    BY <2>1, <2>2, <2>3 DEF Finished
  <2>5. request' \in Port!Access
    BY <2>1, <1>1 DEF Request, Reg, Port!Access, Port!Reg
  <2>6. Port!Call
    BY <2>1, <2>3, <2>4, <2>5 DEF Port!Call, Port!NoAccess
  <2> QED
    BY <2>6 DEF Port!Next
<1>2. ASSUME NEW n \in {2, 4}, Settle(n) PROVE [Port!Next]_(Port!vars)
  BY <1>2 DEF Settle, Port!vars, Accessing, Finished, bfm, gpio, caller
<1>3. CASE Tick
  BY <1>3, RequestTickMapped, OtherTickMapped
<1>4. CASE Reply
  <2>1. trans = "reply" /\ trans' = "none"
         /\ UNCHANGED <<request, gpio_out, gpio_ie, irq, ahb_req_rdata>>
    BY <1>4 DEF Reply, bfm, gpio, caller
  <2>2. Accessing /\ ~Accessing' /\ Finished
    BY <2>1 DEF Accessing, Finished
  <2>3. irq = gpio_out % 2
    BY <2>1 DEF BusInv, LineHolds
  <2>4. request # Port!NoAccess
    BY RequestIsAccess
  <2>5. (Accessing /\ Finished) = TRUE /\ (Accessing /\ Finished)' = FALSE
    BY <2>2
  <2>6. Port!Return
    BY <2>1, <2>2, <2>3, <2>4, <2>5 DEF Port!Return, Port!NoAccess
  <2> QED
    BY <2>6 DEF Port!Next
<1>5. CASE UNCHANGED busvars
  BY <1>5 DEF busvars, Port!vars, Accessing, Finished, bfm, gpio, caller
<1> QED
  BY <1>1, <1>2, <1>3, <1>4, <1>5 DEF BusNext

LEMMA InitMapped == BusInit => Port!Init
  BY DEF BusInit, Port!Init, Port!NoAccess, Accessing

\* An access to a register is atomic, for all the edges that repeat it and all
\* the ticks of its caller, and the hart knows the line it left (ahb_transaction,
\* ahb_lite_bfm.sv, ahb_gpio.sv).
THEOREM AccessIsAtomic == BusSpec => AtomicAccess
<1>1. BusTypeOK /\ BusInv /\ (BusTypeOK /\ BusInv)' /\ [BusNext]_busvars
        => [Port!Next]_(Port!vars)
  BY StepMapped
<1> QED
  BY <1>1, InitMapped, BusInvariant, PTL DEF BusSpec, AtomicAccess, Port!Spec

-----------------------------------------------------------------------------
(* The bench.                                                              *)


LEMMA BatchFixed == SysSpec => [](step_batch \in 1 .. MaxBatch)
<1>1. SysInit => step_batch \in 1 .. MaxBatch
  BY AhbAssumption DEF SysInit
<1>2. step_batch \in 1 .. MaxBatch /\ [SysNext]_sysvars => (step_batch \in 1 .. MaxBatch)'
  BY DEF SysNext, LoadFirmware, ResetHart, CallStep, Execute, SettleTick, BeginAccess,
         AccessTick, EndAccess, AfterCall, main, sysvars
<1> QED
  BY <1>1, <1>2, PTL DEF SysSpec

\* Each step of the bench is a step of the simulator or leaves it alone.
LEMMA HartStep ==
  ASSUME step_batch \in 1 .. MaxBatch, [SysNext]_sysvars PROVE [Next]_vars
<1>1. CASE LoadFirmware
  BY <1>1 DEF LoadFirmware, Next, Setup
<1>2. CASE ResetHart
  <2>1. 0 \in Addr
    BY RamAssumption, SlotAssumption DEF Addr
  <2> QED
    BY <1>2, <2>1 DEF ResetHart, Next, Setup
<1>3. CASE CallStep
  BY <1>3 DEF CallStep, Next, RvStep
<1>4. CASE Execute
  BY <1>4 DEF Execute, Next, Exec
<1>5. CASE SettleTick
  <2>1. IrqMask(irq') \in SUBSET Lines
    BY AhbAssumption DEF IrqMask
  <2> QED
    BY <1>5, <2>1 DEF SettleTick, Next
<1>6. CASE BeginAccess
  BY <1>6 DEF BeginAccess
<1>7. CASE AccessTick
  BY <1>7 DEF AccessTick
<1>8. CASE EndAccess
  BY <1>8 DEF EndAccess, Next, Exec
<1>9. CASE UNCHANGED sysvars
  BY <1>9 DEF sysvars
<1> QED
  BY <1>1, <1>2, <1>3, <1>4, <1>5, <1>6, <1>7, <1>8, <1>9 DEF SysNext

\* Each step of the bench is built from steps of the simulator: an access is one
\* instruction (rv32_dpi_ahb_tb.cpp, dpi_mmio_read and dpi_mmio_write).
LEMMA AhbIsHart == SysSpec => Spec
<1>1. SysInit => Init
  BY DEF SysInit
<1> QED
  BY <1>1, BatchFixed, HartStep, PTL DEF SysSpec, Spec

-----------------------------------------------------------------------------
\* The firmware stores register values only.
LEMMA FirmwareAccesses ==
  ASSUME NEW slot \in Ram, AhbFirmware[slot].op = "mmio"
  PROVE  slot \in {StoreEnable, StoreOut, LoadOut, StorePass, LoadStatus, ClearOut}
<1>1. slot \in 0 .. 16
  BY AhbAssumption DEF Ram, ClearOut, Handler
<1>2. /\ Plain.op = "plain" /\ Do("stop").op = "stop" /\ Do("mret").op = "mret"
      /\ [Plain EXCEPT !.op = "branch", !.to = LoadOut].op = "branch"
      /\ Csr("mtvec", "write", {}, Handler).op = "csr"
      /\ Csr("mstatus", "set", {MIE}, 0).op = "csr"
  BY DEF Plain, Do, Csr
<1>3. AhbFirmware[slot].op = Instructions[slot + 1].op
  BY DEF AhbFirmware
<1>3a. /\ Instructions[1] = Plain /\ Instructions[2] = Plain
       /\ Instructions[3] = Csr("mtvec", "write", {}, Handler) /\ Instructions[4] = Plain
       /\ Instructions[5] = Csr("mstatus", "set", {MIE}, 0) /\ Instructions[6] = Plain
       /\ Instructions[8] = Plain
       /\ Instructions[11] = [Plain EXCEPT !.op = "branch", !.to = LoadOut]
       /\ Instructions[12] = Plain /\ Instructions[14] = Do("stop")
       /\ Instructions[17] = Do("mret")
  BY DEF Instructions
<1>4. slot + 1 \in {1, 2, 3, 4, 5, 6, 8, 11, 12, 14, 17} => Instructions[slot + 1].op # "mmio"
  BY <1>2, <1>3a
<1>5. slot + 1 \notin {1, 2, 3, 4, 5, 6, 8, 11, 12, 14, 17}
  BY <1>3, <1>4
<1> QED
  BY <1>1, <1>5 DEF StoreEnable, StoreOut, LoadOut, StorePass, LoadStatus, ClearOut, Handler

LEMMA RequestIsFirmwares ==
  ASSUME TypeOK, CallInv, t1 \in Word, Insns("mmio")
  PROVE  RequestAt(pc) \in Request /\ RequestAt(pc).data \in {0, t1}
<1>1. pc \in Ram /\ ram[pc].op = "mmio" /\ busy
  BY DEF Insns, Running, Fetchable
<1>2. ram = AhbFirmware
  BY <1>1, AhbAssumption DEF TypeOK, CallInv
<1>3. pc \in {StoreEnable, StoreOut, LoadOut, StorePass, LoadStatus, ClearOut}
  BY <1>1, <1>2, FirmwareAccesses
<1> QED
  BY <1>3, WordAssumption
  DEF RequestAt, Request, Reg, StoreEnable, StoreOut, LoadOut, StorePass, LoadStatus,
      ClearOut, Handler

\* The simulator uses the bus as ahb_transaction allows.
LEMMA BusStep ==
  ASSUME TypeOK, CallInv, t1 \in Word, [SysNext]_sysvars PROVE [BusNext]_busvars
<1>1. CASE LoadFirmware
  BY <1>1 DEF LoadFirmware
<1>2. CASE ResetHart
  BY <1>2 DEF ResetHart, BusNext
<1>3. AfterCall => [BusNext]_busvars
  BY DEF AfterCall, BusNext
<1>4. CASE CallStep
  BY <1>3, <1>4 DEF CallStep
<1>5. CASE Execute
  BY <1>3, <1>5 DEF Execute
<1>6. CASE SettleTick
  BY <1>6 DEF SettleTick, BusNext
<1>7. CASE BeginAccess
  BY <1>7, RequestIsFirmwares DEF BeginAccess, BusNext
<1>8. CASE AccessTick
  BY <1>8 DEF AccessTick, BusNext
<1>9. CASE EndAccess
  BY <1>9 DEF EndAccess, BusNext
<1>10. CASE UNCHANGED sysvars
  BY <1>10 DEF sysvars
<1> QED
  BY <1>1, <1>2, <1>4, <1>5, <1>6, <1>7, <1>8, <1>9, <1>10 DEF SysNext

\* An access is made within a call of rv_step; outside one, the hart has no line
\* but the one the bench last reported.
AccessInv == Accessing => busy
LineInv == ~Accessing => irq_mask = {} \/ irq = 1

SysInv ==
  /\ BusTypeOK /\ BusInv
  /\ t1 \in Word /\ AccessInv /\ LineInv

LEMMA SysInvInit == SysInit => SysInv
<1> SUFFICES ASSUME SysInit PROVE SysInv
  OBVIOUS
<1>1. BusInit /\ t1 = 0 /\ irq_mask = {}
  BY DEF SysInit, Init
<1>2. ~Accessing
  BY <1>1 DEF BusInit, Accessing
<1> QED
  BY <1>1, <1>2, BusTypeInit, InvInit, WordAssumption DEF SysInv, AccessInv, LineInv

LEMMA RegisterStep ==
  ASSUME SysInv, [SysNext]_sysvars PROVE t1' \in Word
<1>1. 1 \in Word
  BY AhbAssumption
<1>2. ahb_req_rdata \in Word
  BY <1>1, WordAssumption DEF SysInv, BusTypeOK
<1>3. t1' \in {t1, 1, ahb_req_rdata}
  BY DEF SysNext, LoadFirmware, ResetHart, CallStep, Execute, SettleTick, BeginAccess,
         AccessTick, EndAccess, registers, sysvars
<1> QED
  BY <1>1, <1>2, <1>3 DEF SysInv

\* What the calls of the harness and of the clock leave behind.
LEMMA LineStep ==
  ASSUME TypeOK, SysInv, [SysNext]_sysvars PROVE (AccessInv /\ LineInv)'
<1> USE DEF SysInv, AccessInv, LineInv
<1>1. CASE LoadFirmware
  <2>1. ~busy /\ busy' = busy /\ irq_mask' = {}
    BY <1>1 DEF LoadFirmware, RvInit, FreshHart, LosesRam, call
  <2>2. UNCHANGED trans
    BY <1>1 DEF LoadFirmware, busvars
  <2> QED
    BY <2>1, <2>2 DEF Accessing
<1>2. CASE ResetHart
  <2>1. irq_mask' = {} /\ trans' = "settle"
    BY <1>2 DEF ResetHart, RvReset, Settle
  <2> QED
    BY <2>1 DEF Accessing
<1>3. AfterCall /\ trans = "none" => ~Accessing /\ ~Accessing' /\ irq' = irq
  BY DEF AfterCall, Settle, Accessing, busvars
<1>4. CASE CallStep
  <2>1. irq_mask' \subseteq irq_mask
    BY <1>4 DEF CallStep, StepRefused, StepTrap, TakeTrap, StepStart
  <2> QED
    BY <1>3, <1>4, <2>1 DEF CallStep
<1>5. CASE Execute
  <2>1. irq_mask' = irq_mask
    BY <1>5 DEF Execute, ExecPlain, ExecMret, ExecCsr, StepEnd
  <2> QED
    BY <1>3, <1>5, <2>1 DEF Execute
<1>6. CASE SettleTick
  <2>1. ~Accessing /\ trans' \in {"settle", "none"}
    BY <1>6 DEF SettleTick, Tick, Accessing
  <2>2. CASE clk = 0
    BY <1>6, <2>1, <2>2 DEF SettleTick, RvSetIrq, IrqMask, Accessing
  <2>3. CASE clk # 0
    BY <1>6, <2>1, <2>3 DEF SettleTick, Tick, vars, Accessing
  <2> QED
    BY <2>2, <2>3
<1>7. CASE BeginAccess
  BY <1>7 DEF BeginAccess, Drive, Insns, Running, vars, call, Accessing
<1>8. CASE AccessTick
  <2>1. Accessing /\ Accessing'
    BY <1>8 DEF AccessTick, Tick, Accessing
  <2> QED
    BY <1>8, <2>1 DEF AccessTick, vars, call
<1>9. CASE EndAccess
  BY <1>9 DEF EndAccess, Reply, IrqMask, Accessing
<1>10. CASE UNCHANGED sysvars
  BY <1>10 DEF sysvars, busvars, vars, call, Accessing
<1> QED
  BY <1>1, <1>2, <1>4, <1>5, <1>6, <1>7, <1>8, <1>9, <1>10 DEF SysNext

LEMMA SysInvariant == SysSpec => [](TypeOK /\ CoreInv /\ SysInv)
<1>1. SysSpec => [](TypeOK /\ CoreInv)
  BY AhbIsHart, TypeCorrect, CoreInvariant, PTL
<1>2. TypeOK /\ CoreInv /\ SysInv /\ [SysNext]_sysvars => SysInv'
  <2> SUFFICES ASSUME TypeOK, CoreInv, SysInv, [SysNext]_sysvars PROVE SysInv'
    OBVIOUS
  <2>1. [BusNext]_busvars
    BY BusStep DEF CoreInv, SysInv
  <2>2. BusTypeOK' /\ BusInv'
    BY <2>1, TypeStep, InvStep DEF SysInv
  <2> QED
    BY <2>2, RegisterStep, LineStep DEF SysInv
<1> QED
  BY <1>1, <1>2, SysInvInit, PTL DEF SysSpec

\* And from steps of the bus: a request is made only when the one before has been
\* replied to (ahb_transaction).
LEMMA AhbIsBus == SysSpec => BusSpec
<1>1. SysInit => BusInit
  BY DEF SysInit
<1>2. TypeOK /\ CoreInv /\ SysInv /\ [SysNext]_sysvars => [BusNext]_busvars
  BY BusStep DEF CoreInv, SysInv
<1> QED
  BY <1>1, <1>2, SysInvariant, PTL DEF SysSpec, BusSpec

\* On the bench the firmware's loads and stores are atomic, and its handler is not
\* interrupted, though the clock runs inside its instructions.
THEOREM AhbAccessIsAtomic == SysSpec => AtomicAccess
  BY AhbIsBus, AccessIsAtomic

\* On the bench the handler is not interrupted and MRET goes back to the polling
\* loop, for all the calls of rv_set_irq made inside its stores.
THEOREM AhbHandlerAtomic == SysSpec => HandlerAtomic
  BY AhbIsHart, HandlersAreAtomic

\* No trap is taken on a line from before a store that had returned
\* (tb_top_ahb.sv, rv_step).
THEOREM NoTrapIsStale == SysSpec => NoStaleTrap
<1>1. BusInv /\ LineInv /\ AccessInv => (StepTrap => gpio_out % 2 = 1)
  <2> SUFFICES ASSUME BusInv, LineInv, AccessInv, StepTrap PROVE gpio_out % 2 = 1
    OBVIOUS
  <2>1. ~busy /\ irq_mask # {}
    BY DEF StepTrap, TakeTrap, TakesIrq, Enabled
  <2>2. ~Accessing /\ irq = 1
    BY <2>1 DEF AccessInv, LineInv
  <2> QED
    BY <2>2 DEF BusInv, LineHolds, Accessing
<1>2. SysInv => (StepTrap => gpio_out % 2 = 1)
  BY <1>1 DEF SysInv
<1> QED
  BY <1>2, SysInvariant, PTL DEF NoStaleTrap
-----------------------------------------------------------------------------
(* What the bench's variables hold.  Every register value starts as 0 or as *)
(* the 1 the firmware loads, and the bus only moves them about.             *)

MovedBits ==
  /\ hwdata \in {0, 1} /\ ahb_req_rdata \in {0, 1} /\ request.data \in {0, 1}
  /\ gpio_out \in {0, 1} /\ gpio_ie \in {0, 1}
  /\ t1 \in {0, 1} /\ t2 \in {0, 1} /\ indicator \in {0, 1}

\* A call is under way only in the phase that makes the calls.
MainInv ==
  /\ phase \in {"load", "reset", "call", "done"}
  /\ calls \in 0 .. 4 /\ step_batch \in Batches
  /\ busy => phase = "call"
  /\ phase = "call" => calls < 4
  /\ phase \in {"load", "reset"} => calls = 0

LEMMA BitsTick ==
  ASSUME MovedBits, Tick, UNCHANGED <<registers, indicator>> PROVE MovedBits'
<1> USE DEF MovedBits
<1>1. UNCHANGED <<t1, t2, indicator>>
  BY DEF registers
<1>2. CASE clk = 0
  <2>1. BridgeEdge /\ GpioEdge /\ request' = request
    BY <1>2 DEF Tick
  <2>2. gpio_out % 2 \in {0, 1}
    OBVIOUS
  <2>3. HRDATA \in {0, 1}
    BY <2>2 DEF HRDATA
  <2>4. hwdata' \in {hwdata, request.data} /\ ahb_req_rdata' \in {ahb_req_rdata, HRDATA}
    BY <2>1 DEF BridgeEdge, AddressPhase
  <2>5. gpio_out' \in {gpio_out, hwdata} /\ gpio_ie' \in {gpio_ie, hwdata}
    BY <2>1 DEF GpioEdge
  <2> QED
    BY <1>1, <2>1, <2>3, <2>4, <2>5
<1>3. CASE clk # 0
  BY <1>1, <1>3 DEF Tick, bfm, gpio
<1> QED
  BY <1>2, <1>3

LEMMA BitsStep ==
  ASSUME TypeOK, CoreInv, SysInv, MovedBits, [SysNext]_sysvars PROVE MovedBits'
<1> USE DEF MovedBits
<1>1. CASE LoadFirmware
  BY <1>1 DEF LoadFirmware, busvars, bfm, gpio, caller, registers
<1>2. CASE ResetHart
  BY <1>2 DEF ResetHart, Settle, bfm, gpio, caller, registers
<1>3. AfterCall => UNCHANGED <<hwdata, ahb_req_rdata, request, gpio_out, gpio_ie>>
  BY DEF AfterCall, Settle, busvars, bfm, gpio, caller
<1>4. CASE CallStep
  BY <1>3, <1>4 DEF CallStep, registers
<1>5. CASE Execute
  BY <1>3, <1>5 DEF Execute
<1>6. CASE SettleTick \/ AccessTick
  BY <1>6, BitsTick DEF SettleTick, AccessTick
<1>7. CASE BeginAccess
  <2>1. RequestAt(pc).data \in {0, t1}
    BY <1>7, RequestIsFirmwares DEF BeginAccess, CoreInv, SysInv
  <2> QED
    BY <1>7, <2>1 DEF BeginAccess, Drive, bfm, gpio, registers
<1>8. CASE EndAccess
  BY <1>8 DEF EndAccess, Reply, bfm, gpio, caller
<1>9. CASE UNCHANGED sysvars
  BY <1>9 DEF sysvars, busvars, bfm, gpio, caller, registers
<1> QED
  BY <1>1, <1>2, <1>4, <1>5, <1>6, <1>7, <1>8, <1>9 DEF SysNext

LEMMA MainStep == ASSUME TypeOK, MainInv, [SysNext]_sysvars PROVE MainInv'
<1> USE DEF MainInv
<1>1. CASE LoadFirmware
  BY <1>1 DEF LoadFirmware, RvInit, LosesRam, FreshHart, call
<1>2. CASE ResetHart
  BY <1>2 DEF ResetHart, RvReset
<1>3. phase = "call" /\ AfterCall => MainInv'
  BY DEF AfterCall, main, Calls
<1>4. CASE CallStep
  BY <1>3, <1>4 DEF CallStep
<1>5. CASE Execute
  <2>1. busy
    BY <1>5 DEF Execute, ExecPlain, ExecMret, ExecCsr, StepEnd, Insns, Running
  <2> QED
    BY <1>3, <1>5, <2>1 DEF Execute
<1>6. CASE SettleTick \/ AccessTick \/ BeginAccess
  <2>1. busy' = busy
    BY <1>6 DEF SettleTick, AccessTick, BeginAccess, RvSetIrq, vars, call
  <2> QED
    BY <1>6, <2>1 DEF SettleTick, AccessTick, BeginAccess, main
<1>7. CASE EndAccess
  BY <1>7 DEF EndAccess, ExecMmio, Retire, main
<1>8. CASE UNCHANGED sysvars
  BY <1>8 DEF sysvars, vars, call, main
<1> QED
  BY <1>1, <1>2, <1>4, <1>5, <1>6, <1>7, <1>8 DEF SysNext

\* The registers, the bus and main hold what they are declared to, and the bus
\* carries nothing but the bits the firmware stores (firmware_ahb.S, main).
THEOREM SysTypesCorrect == SysSpec => []SysTypeOK
<1>1. SysInit => MovedBits /\ MainInv
  BY DEF SysInit, Init, BusInit, MovedBits, MainInv
<1>2. TypeOK /\ CoreInv /\ SysInv /\ MovedBits /\ MainInv /\ [SysNext]_sysvars
        => (MovedBits /\ MainInv)'
  BY BitsStep, MainStep
<1>3. TypeOK /\ SysInv /\ MovedBits /\ MainInv => SysTypeOK
  BY DEF SysInv, MovedBits, MainInv, SysTypeOK
<1> QED
  BY <1>1, <1>2, <1>3, SysInvariant, PTL DEF SysSpec

-----------------------------------------------------------------------------
(* The self-test's own invariant: where the firmware is in each call of    *)
(* rv_step, before and after its one trap.                                 *)

\* The hart runs the firmware with the line enabled, and never sleeps or halts.
HartInv ==
  /\ ~wfi_sleep /\ ~htif_halted /\ mie = Bits /\ traps \in {0, 1}
  /\ phase # "load" => initialized /\ ram = AhbFirmware
  /\ traps = 1 => phase \in {"call", "done"}
  /\ phase = "done" => calls = Calls
  /\ pc > 2 => mtvec = [base |-> Handler, vectored |-> FALSE]
  /\ traps = 0 /\ pc > 4 => MIE \in mstatus
  /\ pc >= Handler => MIE \notin mstatus
  /\ pc \in {StoreEnable, StoreOut, StorePass} => t1 = 1

\* The first calls run to the polling loop: the first passes the store to GPIO_OUT,
\* or ends just before it.
BeforeTrap ==
  traps = 0 =>
    /\ pc \in 0 .. Branch /\ (pc = Branch => t2 = 1)
    /\ busy => \/ calls = 0 /\ (pc > StoreOut \/ pc + left >= StoreOut)
               \/ calls = 1 /\ (pc > StoreOut \/ (pc = StoreOut /\ left > 0))
    /\ ~busy => \/ calls = 0 /\ pc = 0
                \/ calls = 1 /\ pc >= StoreOut
                \/ calls = 2 /\ pc > StoreOut

\* What a call after the trap must still execute to reach the end of the program.
ToGo ==
  CASE pc = LoadStatus -> 8 [] pc = ClearOut -> 7 [] pc = ClearOut + 1 -> 6
    [] pc = LoadOut -> 4 [] pc = Branch -> IF t2 = 0 THEN 3 ELSE 5
    [] pc = Branch + 1 -> 2 [] pc = StorePass -> 1 [] OTHER -> 0

\* The trap is taken in the second or third call, and the next call runs to the end.
AfterTrap ==
  traps = 1 =>
    /\ pc \in LoadOut .. ClearOut + 1 /\ mepc \in {LoadOut, Branch}
    /\ busy => left >= ToGo
    /\ ~busy => pc = StorePass + 1 \/ (pc = Handler /\ calls < Calls)

\* What the registers hold where the firmware is; an access changes them once the
\* bus has applied it.
Applied == trans \in {"drain", "reply"}
Raised == (traps = 0 /\ pc > StoreOut) \/ pc \in {LoadStatus, ClearOut}

RegistersInv ==
  /\ Accessing => pc \in Ram /\ ram[pc].op = "mmio" /\ request = RequestAt(pc)
  /\ Applied /\ pc \in {StoreOut, ClearOut} => gpio_out = request.data
  /\ ~(Accessing /\ pc \in {StoreOut, ClearOut})
       => gpio_out = IF Raised THEN 1 ELSE 0
  /\ pc > StoreEnable \/ (Applied /\ pc = StoreEnable) => gpio_ie = 1
  /\ Applied /\ pc = LoadOut => ahb_req_rdata = gpio_out
  /\ pc = StorePass + 1 \/ (Accessing /\ pc = StorePass) => indicator = 1
  /\ traps = 0 /\ ~Accessing => irq_mask = IrqMask(irq)

SelfInv == HartInv /\ BeforeTrap /\ AfterTrap /\ RegistersInv

\* Everything the steps of the self-test are proved from.
SelfPre == TypeOK /\ CoreInv /\ SysInv /\ MovedBits /\ MainInv /\ SelfInv

LEMMA SelfInit == SysInit => SelfInv
<1> SUFFICES ASSUME SysInit PROVE SelfInv
  OBVIOUS
<1>1. /\ pc = 0 /\ traps = 0 /\ ~busy /\ calls = 0 /\ phase = "load" /\ trans = "none"
      /\ gpio_out = 0 /\ irq_mask = {} /\ irq = 0 /\ ~wfi_sleep /\ ~htif_halted /\ mie = Bits
  BY DEF SysInit, Init, BusInit
<1>2. ~Accessing /\ ~Applied /\ ~Raised
  BY <1>1 DEF Accessing, Applied, Raised, StoreOut, LoadStatus, ClearOut, Handler
<1> QED
  BY <1>1, <1>2 DEF SelfInv, HartInv, BeforeTrap, AfterTrap, RegistersInv, IrqMask,
     StoreEnable, StoreOut, LoadOut, StorePass, LoadStatus, ClearOut, Handler, Branch

\* The instructions of the firmware, by the slot they are in.
LEMMA Program ==
  /\ Ram = 0 .. 16
  /\ \A slot \in 0 .. 15 : NextSlot(slot) = slot + 1
  /\ \A slot \in {0, 1, 3, 5, 7, 11} : AhbFirmware[slot].op = "plain"
  /\ \A slot \in {6, 8, 9, 12, 14, 15} : AhbFirmware[slot].op = "mmio"
  /\ AhbFirmware[2] = Csr("mtvec", "write", {}, Handler)
  /\ AhbFirmware[4] = Csr("mstatus", "set", {MIE}, 0)
  /\ AhbFirmware[10].op = "branch" /\ AhbFirmware[10].to = LoadOut
  /\ AhbFirmware[13].op = "stop" /\ AhbFirmware[16].op = "mret"
<1>1. Ram = 0 .. 16
  BY AhbAssumption DEF Ram, ClearOut, Handler
<1>2. SlotMod \in Nat /\ 17 <= SlotMod
  BY AhbAssumption, SlotAssumption, RamAssumption DEF ClearOut, Handler
<1>3. \A slot \in 0 .. 15 : NextSlot(slot) = slot + 1
  BY <1>2 DEF NextSlot, Plus
<1>4. \A slot \in 0 .. 16 : AhbFirmware[slot] = Instructions[slot + 1]
  BY <1>1 DEF AhbFirmware
<1>5. /\ Instructions[1] = Plain /\ Instructions[2] = Plain
      /\ Instructions[3] = Csr("mtvec", "write", {}, Handler) /\ Instructions[4] = Plain
      /\ Instructions[5] = Csr("mstatus", "set", {MIE}, 0) /\ Instructions[6] = Plain
      /\ Instructions[7] = Do("mmio") /\ Instructions[8] = Plain
      /\ Instructions[9] = Do("mmio") /\ Instructions[10] = Do("mmio")
      /\ Instructions[11] = [Plain EXCEPT !.op = "branch", !.to = LoadOut]
      /\ Instructions[12] = Plain /\ Instructions[13] = Do("mmio")
      /\ Instructions[14] = Do("stop") /\ Instructions[15] = Do("mmio")
      /\ Instructions[16] = Do("mmio") /\ Instructions[17] = Do("mret")
  BY DEF Instructions
<1>6. /\ Plain.op = "plain" /\ Do("stop").op = "stop" /\ Do("mret").op = "mret"
      /\ Do("mmio").op = "mmio"
      /\ [Plain EXCEPT !.op = "branch", !.to = LoadOut].op = "branch"
      /\ [Plain EXCEPT !.op = "branch", !.to = LoadOut].to = LoadOut
  BY DEF Plain, Do
<1> HIDE DEF Instructions, AhbFirmware
<1>7. \A slot \in {0, 1, 3, 5, 7, 11} : AhbFirmware[slot].op = "plain"
  BY <1>4, <1>5, <1>6
<1>8. \A slot \in {6, 8, 9, 12, 14, 15} : AhbFirmware[slot].op = "mmio"
  BY <1>4, <1>5, <1>6
<1>9. /\ AhbFirmware[2] = Csr("mtvec", "write", {}, Handler)
      /\ AhbFirmware[4] = Csr("mstatus", "set", {MIE}, 0)
  BY <1>4, <1>5
<1>10. /\ AhbFirmware[10] = Instructions[11] /\ AhbFirmware[13] = Instructions[14]
       /\ AhbFirmware[16] = Instructions[17]
  BY <1>4
<1>11. /\ AhbFirmware[10].op = "branch" /\ AhbFirmware[10].to = LoadOut
       /\ AhbFirmware[13].op = "stop" /\ AhbFirmware[16].op = "mret"
  BY <1>5, <1>6, <1>10
<1> QED
  BY <1>1, <1>3, <1>7, <1>8, <1>9, <1>11

\* A request applies its write, or reads its result, on the edge that ends the first
\* loop of ahb_transaction; the second loop changes neither.
LEMMA AccessEdge ==
  ASSUME BusTypeOK, BusInv, Tick, trans \in {"request", "drain"}
  PROVE  /\ Accessing' /\ request' = request
         /\ gpio_out' # gpio_out => request.write /\ request.reg = "GPIO_OUT"
         /\ gpio_ie' # gpio_ie => request.write /\ request.reg = "GPIO_IE"
         /\ Applied => UNCHANGED <<gpio_out, gpio_ie, ahb_req_rdata>>
         /\ Applied' /\ ~Applied /\ request.write =>
              /\ request.reg = "GPIO_OUT" => gpio_out' = request.data
              /\ request.reg = "GPIO_IE" => gpio_ie' = request.data
         /\ Applied' /\ ~Applied /\ ~request.write /\ request.reg = "GPIO_OUT" =>
              ahb_req_rdata' = gpio_out'
<1>1. Accessing' /\ request' = request
  BY DEF Tick, Accessing
<1>2. CASE trans = "drain"
  <2>1. UNCHANGED <<gpio_out, gpio_ie>>
    BY <1>2, DrainEdge DEF gpio
  <2>2. ahb_req_rdata' = ahb_req_rdata
    BY <1>2 DEF Tick, BusInv, DrainInv, BridgeEdge, bfm
  <2> QED
    BY <1>1, <1>2, <2>1, <2>2 DEF Applied
<1>3. CASE trans = "request"
  <2>1. ~Applied
    BY <1>3 DEF Applied
  <2>2. CASE clk = 0
    <3>1. BridgeEdge /\ GpioEdge
      BY <2>2 DEF Tick
    <3>2. CASE state = "BFM_IDLE"
      <4>1. UNCHANGED <<gpio_out, gpio_ie>>
        BY <1>3, <3>1, <3>2 DEF GpioEdge, Selected, BusInv, RequestInv
      <4>2. half > 1 /\ half # 1
        BY <1>3, <3>2, TimeoutAssumption DEF BusInv, RequestInv
      <4>3. ~ahb_req_ready'
        BY <3>1, <3>2 DEF BridgeEdge
      <4>4. trans' = "request"
        BY <1>3, <4>2, <4>3, Zenon DEF Tick
      <4> QED
        BY <1>1, <2>1, <4>1, <4>4 DEF Applied
    <3>3. CASE state = "BFM_ADDR"
      <4>1. half > 1 /\ half # 1
        BY <1>3, <2>2, <3>3, TimeoutAssumption DEF BusInv, RequestInv
      <4>2. ~ahb_req_ready'
        BY <1>3, <3>1, <3>3 DEF BridgeEdge, BusInv, RequestInv
      <4>3. trans' = "request"
        BY <1>3, <4>1, <4>2, Zenon DEF Tick
      <4>4. haddr = request.reg /\ hwrite = request.write
        BY <1>3, <3>3 DEF BusInv, BusHolds, OnBus
      <4> QED
        BY <1>1, <2>1, <3>1, <4>3, <4>4 DEF Applied, GpioEdge
    <3>4. CASE state = "BFM_DATA"
      <4>1. /\ htrans = "NONSEQ" /\ haddr = request.reg /\ hwrite = request.write
            /\ request.write => hwdata = request.data
        BY <1>3, <3>4 DEF BusInv, BusHolds, OnBus
      <4>2. request.write =>
              /\ request.reg = "GPIO_OUT" => gpio_out = request.data
              /\ request.reg = "GPIO_IE" => gpio_ie = request.data
        BY <1>3, <3>4 DEF BusInv, WriteHolds, OnBus
      <4>3. UNCHANGED <<gpio_out, gpio_ie>>
        BY <3>1, <4>1, <4>2 DEF GpioEdge
      <4>4. ~request.write => ahb_req_rdata' = HRDATA
        BY <3>1, <3>4, <4>1 DEF BridgeEdge
      <4>5. ~request.write /\ request.reg = "GPIO_OUT" => HRDATA = gpio_out
        BY <4>1 DEF HRDATA, Selected
      <4> QED
        BY <1>1, <2>1, <4>2, <4>3, <4>4, <4>5
    <3> QED
      BY <1>3, <3>2, <3>3, <3>4 DEF BusInv, RequestInv
  <2>3. CASE clk # 0
    <3>1. clk = 1 /\ UNCHANGED <<gpio_out, gpio_ie, ahb_req_ready>>
      BY <2>3 DEF Tick, BusTypeOK, bfm, gpio
    <3>2. half > 1 /\ half # 1 /\ ~ahb_req_ready
      BY <1>3, <3>1, TimeoutAssumption DEF BusInv, RequestInv
    <3>3. trans' = "request"
      BY <1>3, <3>1, <3>2, Zenon DEF Tick
    <3> QED
      BY <1>1, <2>1, <3>1, <3>3 DEF Applied
  <2> QED
    BY <2>2, <2>3
<1> QED
  BY <1>2, <1>3

\* The slots whose instructions only go on to the next.
Straight == {0, 1, 2, 3, 4, 5, 7, 11}

\* What one iteration of rv_step's loop does to the self-test: the call ends, or an
\* instruction of the firmware retires.
CallEnds ==
  /\ left = 0 \/ pc = StorePass + 1
  /\ ~busy' /\ calls' = calls + 1 /\ UNCHANGED <<pc, mstatus, mtvec, t1>>
  /\ phase' = IF calls' = Calls THEN "done" ELSE phase

Retires ==
  /\ left > 0 /\ busy' /\ left' = left - 1 /\ UNCHANGED <<phase, calls>>
  /\ \/ pc \in Straight /\ pc' = pc + 1
     \/ pc = Branch /\ pc' = IF t2 # 0 THEN LoadOut ELSE Branch + 1
     \/ pc = ClearOut + 1 /\ pc' = mepc
  /\ mtvec' = IF pc = 2 THEN [base |-> Handler, vectored |-> FALSE] ELSE mtvec
  /\ mstatus' = IF pc \in {4, ClearOut + 1} THEN mstatus \union {MIE} ELSE mstatus
  /\ t1' = IF pc \in LoadsOne THEN 1 ELSE t1

LEMMA ExecuteIs ==
  ASSUME SelfPre, Execute
  PROVE  /\ busy /\ phase = "call" /\ left \in Nat /\ pc \in 0 .. 16
         /\ UNCHANGED <<initialized, ram, irq_mask, wfi_sleep, mie, htif_halted, traps,
                        t2, indicator, mepc, gpio_out, gpio_ie, irq>>
         /\ ~Accessing /\ ~Accessing' /\ ~Applied'
         /\ CallEnds \/ Retires
<1> USE DEF StoreEnable, StoreOut, LoadOut, Branch, StorePass, Handler, LoadStatus, ClearOut
<1>1. busy
  BY DEF Execute, ExecPlain, ExecMret, ExecCsr, StepEnd, Insns, Running
<1>2. phase = "call" /\ ram = AhbFirmware /\ ~htif_halted /\ left \in Nat
  BY <1>1 DEF SelfPre, MainInv, SelfInv, HartInv, TypeOK
<1>3. pc \in 0 .. 16 /\ traps \in {0, 1} /\ (traps = 0 => pc < 11)
       /\ (traps = 1 => mepc \in {9, 10} /\ pc >= 9)
  BY DEF SelfPre, SelfInv, HartInv, BeforeTrap, AfterTrap
<1>4. trans = "none"
  BY DEF Execute
<1>5. AfterCall /\ UNCHANGED <<t2, indicator>>
  BY DEF Execute
<1>6. trans' \in {"none", "settle"} /\ UNCHANGED <<gpio_out, gpio_ie, irq>>
  BY <1>4, <1>5 DEF AfterCall, Settle, busvars, gpio
<1>7. ~Accessing /\ ~Accessing' /\ ~Applied'
  BY <1>4, <1>6 DEF Accessing, Applied
<1>8. ~busy' => calls' = calls + 1 /\ phase' = IF calls' = Calls THEN "done" ELSE phase
  BY <1>5 DEF AfterCall
<1>9. busy' => UNCHANGED <<phase, calls>>
  BY <1>5 DEF AfterCall, main
<1>10. t1' = IF pc' # pc /\ pc \in LoadsOne THEN 1 ELSE t1
  BY DEF Execute
<1>11. Fetchable(pc)
  BY <1>3, Program DEF Fetchable
<1>12. CASE StepEnd
  <2>1. UNCHANGED <<initialized, ram, irq_mask, wfi_sleep, mie, htif_halted, traps, mepc,
                    pc, mstatus, mtvec>> /\ ~busy'
    BY <1>12 DEF StepEnd, Return, csrs
  <2>2. left = 0 \/ pc = 13
    <3>1. left # 0 => AhbFirmware[pc].op = "stop"
      BY <1>2, <1>11, <1>12 DEF StepEnd, Insns
    <3>2. left # 0 => pc \notin {0, 1, 3, 5, 7, 11, 6, 8, 9, 12, 14, 15, 10, 16}
      BY <3>1, Program
    <3>3. AhbFirmware[2].op = "csr" /\ AhbFirmware[4].op = "csr"
      BY Program DEF Csr
    <3> QED
      BY <1>3, <3>1, <3>2, <3>3
  <2>3. t1' = t1
    BY <1>10, <2>1
  <2>4. CallEnds
    BY <1>8, <2>1, <2>2, <2>3 DEF CallEnds
  <2> QED
    BY <1>1, <1>2, <1>3, <1>5, <1>6, <1>7, <2>1, <2>4
<1>13. CASE ExecPlain
  <2>1. /\ UNCHANGED <<initialized, ram, irq_mask, wfi_sleep, mie, htif_halted, traps, mepc,
                       mstatus, mtvec>>
        /\ busy' /\ left > 0 /\ left' = left - 1
    BY <1>1, <1>13 DEF ExecPlain, Retire, csrs, Insns, Running
  <2>2. AhbFirmware[pc].op \in {"plain", "jump", "cjump", "branch"}
    BY <1>2, <1>13 DEF ExecPlain, Insns
  <2>3. pc \in {0, 1, 3, 5, 7, 11} \/ pc = 10
    <3>1. pc \notin {6, 8, 9, 12, 14, 15, 13, 16}
      BY <2>2, Program
    <3>2. AhbFirmware[2].op = "csr" /\ AhbFirmware[4].op = "csr"
      BY Program DEF Csr
    <3> QED
      BY <1>3, <2>2, <3>1, <3>2
  <2>4. CASE pc \in {0, 1, 3, 5, 7, 11}
    <3>1. AhbFirmware[pc].op = "plain" /\ NextSlot(pc) = pc + 1
      BY <2>4, Program
    <3>2. pc' = pc + 1
      BY <1>2, <1>13, <3>1 DEF ExecPlain, Insns, Retire
    <3>3. pc' # pc /\ pc \in Straight
      BY <2>4, <3>2 DEF Straight
    <3>4. Retires
      BY <1>9, <1>10, <2>1, <2>4, <3>2, <3>3 DEF Retires
    <3> QED
      BY <1>1, <1>2, <1>3, <1>5, <1>6, <1>7, <2>1, <3>4
  <2>5. CASE pc = 10
    <3>1. AhbFirmware[pc].op = "branch" /\ AhbFirmware[pc].to = 9 /\ NextSlot(pc) = 11
      BY <2>5, Program
    <3>2. pc' \in {9, 11}
      BY <1>2, <1>13, <3>1 DEF ExecPlain, Insns, Retire
    <3>3. pc' = IF t2 # 0 THEN 9 ELSE 11
      BY <2>5, <3>2 DEF Execute
    <3>4. t1' = t1
      BY <1>10, <2>5 DEF LoadsOne
    <3>5. Retires
      BY <1>9, <2>1, <2>5, <3>3, <3>4 DEF Retires, LoadsOne
    <3> QED
      BY <1>1, <1>2, <1>3, <1>5, <1>6, <1>7, <2>1, <3>5
  <2> QED
    BY <2>3, <2>4, <2>5
<1>14. CASE ExecMret
  <2>1. /\ UNCHANGED <<initialized, ram, irq_mask, wfi_sleep, mie, htif_halted, traps, mepc,
                       mtvec>>
        /\ busy' /\ left > 0 /\ left' = left - 1 /\ pc' = mepc
        /\ mstatus' = mstatus \union {MIE}
    BY <1>1, <1>14 DEF ExecMret, Retire, Insns, Running
  <2>2. pc = 16
    <3>1. AhbFirmware[pc].op = "mret"
      BY <1>2, <1>14 DEF ExecMret, Insns
    <3>2. pc \notin {0, 1, 3, 5, 7, 11, 6, 8, 9, 12, 14, 15, 10, 13}
      BY <3>1, Program
    <3>3. AhbFirmware[2].op = "csr" /\ AhbFirmware[4].op = "csr"
      BY Program DEF Csr
    <3> QED
      BY <1>3, <3>1, <3>2, <3>3
  <2>3. t1' = t1
    BY <1>10, <2>2 DEF LoadsOne
  <2>4. Retires
    BY <1>9, <2>1, <2>2, <2>3 DEF Retires, LoadsOne
  <2> QED
    BY <1>1, <1>2, <1>3, <1>5, <1>6, <1>7, <2>1, <2>4
<1>15. CASE ExecCsr
  <2>1. /\ UNCHANGED <<initialized, ram, irq_mask, wfi_sleep, htif_halted, traps>>
        /\ busy' /\ left > 0 /\ left' = left - 1 /\ pc' = NextSlot(pc)
    BY <1>1, <1>15 DEF ExecCsr, Retire, Insns, Running
  <2>2. pc \in {2, 4}
    <3>1. AhbFirmware[pc].op = "csr"
      BY <1>2, <1>15 DEF ExecCsr, Insns
    <3>2. pc \notin {0, 1, 3, 5, 7, 11, 6, 8, 9, 12, 14, 15, 10, 13, 16}
      BY <3>1, Program
    <3> QED
      BY <1>3, <3>2
  <2>3. pc' = pc + 1 /\ t1' = t1
    BY <1>10, <2>1, <2>2, Program DEF LoadsOne
  <2>4. CASE pc = 2
    <3>1. ram[pc] = Csr("mtvec", "write", {}, Handler)
      BY <1>2, <2>4, Program
    <3>2. ram[pc].csr = "mtvec" /\ ram[pc].val = {} /\ ram[pc].to = Handler
      BY <3>1 DEF Csr
    <3>3. /\ UNCHANGED <<mstatus, mie, mepc>>
          /\ mtvec' = [base |-> Handler, vectored |-> FALSE]
      BY <1>15, <3>2 DEF ExecCsr
    <3>4. Retires
      BY <1>9, <2>1, <2>3, <2>4, <3>3 DEF Retires, LoadsOne, Straight
    <3> QED
      BY <1>1, <1>2, <1>3, <1>5, <1>6, <1>7, <2>1, <3>3, <3>4
  <2>5. CASE pc = 4
    <3>1. ram[pc] = Csr("mstatus", "set", {MIE}, 0)
      BY <1>2, <2>5, Program
    <3>2. ram[pc].csr = "mstatus" /\ ram[pc].val = {MIE} /\ ram[pc].f3 = "set"
      BY <3>1 DEF Csr
    <3>3. UNCHANGED <<mtvec, mie, mepc>> /\ mstatus' = mstatus \union {MIE}
      BY <1>15, <3>2 DEF ExecCsr, CsrBits
    <3>4. Retires
      BY <1>9, <2>1, <2>3, <2>5, <3>3 DEF Retires, LoadsOne, Straight
    <3> QED
      BY <1>1, <1>2, <1>3, <1>5, <1>6, <1>7, <2>1, <3>3, <3>4
  <2> QED
    BY <2>2, <2>4, <2>5
<1> QED
  BY <1>12, <1>13, <1>14, <1>15 DEF Execute

LEMMA ExecuteKeeps == ASSUME SelfPre, Execute PROVE SelfInv'
<1> USE DEF StoreEnable, StoreOut, LoadOut, Branch, StorePass, Handler, LoadStatus, ClearOut
<1>1. /\ busy /\ phase = "call" /\ left \in Nat /\ pc \in 0 .. 16
      /\ UNCHANGED <<initialized, ram, irq_mask, wfi_sleep, mie, htif_halted, traps,
                     t2, indicator, mepc, gpio_out, gpio_ie, irq>>
      /\ ~Accessing /\ ~Accessing' /\ ~Applied'
      /\ CallEnds \/ Retires
  BY ExecuteIs
<1>2. HartInv /\ BeforeTrap /\ AfterTrap /\ RegistersInv
  BY DEF SelfPre, SelfInv
<1>3. calls \in 0 .. 3
  BY <1>1 DEF SelfPre, MainInv
<1>4. traps \in {0, 1} /\ (traps = 1 => pc \in 9 .. 16 /\ mepc \in {9, 10})
       /\ (traps = 0 => pc \in 0 .. 10)
  BY <1>2 DEF HartInv, BeforeTrap, AfterTrap
<1>5. CASE CallEnds
  <2>1. phase' \in {"call", "done"} /\ (phase' = "done" => calls' = Calls)
    BY <1>1, <1>5 DEF CallEnds
  <2>2. HartInv'
    BY <1>1, <1>2, <1>5, <2>1 DEF HartInv, CallEnds
  <2>3. BeforeTrap'
    BY <1>1, <1>2, <1>3, <1>4, <1>5 DEF BeforeTrap, CallEnds
  <2>4. AfterTrap'
    <3>1. traps = 1 => left >= ToGo
      BY <1>1, <1>2 DEF AfterTrap
    <3>2. traps = 1 /\ left = 0 => pc = 13
      BY <1>4, <3>1 DEF ToGo
    <3> QED
      BY <1>1, <1>4, <1>5, <3>2 DEF AfterTrap, CallEnds
  <2>5. RegistersInv'
    BY <1>1, <1>2, <1>5 DEF RegistersInv, CallEnds, Raised
  <2> QED
    BY <2>2, <2>3, <2>4, <2>5 DEF SelfInv
<1>6. CASE Retires
  <2>1. \/ pc \in Straight /\ pc' = pc + 1
        \/ pc = 10 /\ pc' = IF t2 # 0 THEN 9 ELSE 11
        \/ pc = 16 /\ pc' = mepc
    BY <1>6 DEF Retires
  <2>2. (traps = 1 => pc' \in 9 .. 13) /\ (traps = 0 => pc \in 0 .. 10)
    BY <1>4, <2>1 DEF Straight
  <2>3. HartInv'
    <3>1. pc' > 2 => mtvec' = [base |-> Handler, vectored |-> FALSE]
      <4>1. pc' > 2 => pc = 2 \/ pc > 2
        BY <1>4, <2>1 DEF Straight
      <4>2. pc > 2 => mtvec = [base |-> Handler, vectored |-> FALSE]
        BY <1>2 DEF HartInv
      <4>3. mtvec' = IF pc = 2 THEN [base |-> Handler, vectored |-> FALSE] ELSE mtvec
        BY <1>6 DEF Retires
      <4> QED
        BY <4>1, <4>2, <4>3
    <3>2. traps = 0 /\ pc' > 4 => MIE \in mstatus'
      BY <1>1, <1>2, <1>4, <1>6, <2>1 DEF HartInv, Retires, Straight
    <3>3. pc' < 14
      BY <1>4, <2>1 DEF Straight
    <3>4. pc' \in {6, 8, 12} => t1' = 1
      BY <1>1, <1>4, <1>6, <2>1 DEF Retires, Straight, LoadsOne
    <3> QED
      BY <1>1, <1>2, <1>6, <2>2, <3>1, <3>2, <3>3, <3>4 DEF HartInv, Retires
  <2>4. BeforeTrap'
    <3> SUFFICES ASSUME traps = 0 PROVE BeforeTrap'
      BY <1>1 DEF BeforeTrap
    <3>1. pc' \in 0 .. 10 /\ (pc > 8 => pc' > 8) /\ (pc' # pc + 1 => pc > 8) /\ pc # 8
      <4>1. pc = 10 => t2 # 0
        BY <1>2 DEF BeforeTrap
      <4> QED
        BY <1>4, <2>1, <4>1 DEF Straight
    <3>2. pc' # 10
      BY <1>4, <2>1 DEF Straight
    <3>3. busy' /\ left' = left - 1 /\ left > 0 /\ UNCHANGED <<traps, calls, t2>>
      BY <1>1, <1>6 DEF Retires
    <3>4. \/ calls = 0 /\ (pc > 8 \/ pc + left >= 8)
          \/ calls = 1 /\ (pc > 8 \/ (pc = 8 /\ left > 0))
      BY <1>1, <1>2 DEF BeforeTrap
    <3>5. pc > 8 \/ pc' = pc + 1
      BY <1>4, <3>1
    <3>6. \/ calls = 0 /\ (pc' > 8 \/ pc' + left' >= 8)
          \/ calls = 1 /\ (pc' > 8 \/ (pc' = 8 /\ left' > 0))
      <4>1. left \in Nat /\ pc \in Nat /\ pc' \in Nat /\ left' = left - 1 /\ calls' = calls
        BY <1>1, <1>4, <3>1, <3>3
      <4>2. pc # 8 /\ (pc > 8 => pc' > 8)
        BY <3>1
      <4>3. pc' = pc + 1 => pc' + left' = pc + left
        BY <4>1
      <4> QED
        BY <4>1, <4>2, <4>3, <3>4, <3>5
    <3> QED
      BY <3>1, <3>2, <3>3, <3>6 DEF BeforeTrap
  <2>5. AfterTrap'
    <3> SUFFICES ASSUME traps = 1 PROVE AfterTrap'
      BY <1>1 DEF AfterTrap
    <3>1. left >= ToGo
      BY <1>1, <1>2 DEF AfterTrap
    <3>2. t2 \in {0, 1}
      BY DEF SelfPre, MovedBits
    <3>3. left' >= ToGo'
      BY <1>1, <1>4, <1>6, <2>1, <3>1, <3>2 DEF ToGo, Retires, Straight
    <3> QED
      BY <1>1, <1>4, <1>6, <2>2, <3>3 DEF AfterTrap, Retires
  <2>6. RegistersInv'
    <3>1. Raised' <=> Raised
      BY <1>1, <1>4, <2>1 DEF Raised, Straight
    <3>2. pc' > 6 => pc > 6
      BY <1>4, <2>1 DEF Straight
    <3>3. pc' # 13
      BY <1>4, <2>1 DEF Straight
    <3> QED
      BY <1>1, <1>2, <3>1, <3>2, <3>3 DEF RegistersInv
  <2> QED
    BY <2>3, <2>4, <2>5, <2>6 DEF SelfInv
<1> QED
  BY <1>1, <1>5, <1>6

\* Between accesses the line is the one GPIO_OUT asks for.
LEMMA IrqBetween ==
  ASSUME SelfPre, ~Accessing
  PROVE  /\ gpio_out \in {0, 1} /\ irq = gpio_out
         /\ gpio_out = IF Raised THEN 1 ELSE 0
         /\ irq_mask # {} => Raised
         /\ traps = 0 /\ Raised => irq_mask = {0}
<1>1. gpio_out \in {0, 1} /\ irq = gpio_out % 2
  BY DEF SelfPre, MovedBits, SysInv, BusInv, LineHolds, Accessing
<1>2. irq = gpio_out
  BY <1>1
<1>3. gpio_out = IF Raised THEN 1 ELSE 0
  BY DEF SelfPre, SelfInv, RegistersInv
<1>4. irq_mask # {} => irq = 1
  BY DEF SelfPre, SysInv, LineInv
<1>5. traps = 0 => irq_mask = IrqMask(irq)
  BY DEF SelfPre, SelfInv, RegistersInv
<1> QED
  BY <1>1, <1>2, <1>3, <1>4, <1>5 DEF IrqMask

LEMMA CallKeeps ==
  ASSUME SelfPre, CallStep, Batches \subseteq 8 .. MaxBatch PROVE SelfInv'
<1> USE DEF StoreEnable, StoreOut, LoadOut, Branch, StorePass, Handler, LoadStatus, ClearOut
<1>1. /\ phase = "call" /\ trans = "none" /\ AfterCall
      /\ UNCHANGED <<t1, t2, indicator>>
  BY DEF CallStep, registers
<1>2. HartInv /\ BeforeTrap /\ AfterTrap /\ RegistersInv
  BY DEF SelfPre, SelfInv
<1>3. ~Accessing /\ ~busy /\ initialized /\ ~wfi_sleep
  <2>1. ~Accessing
    BY <1>1 DEF Accessing
  <2>2. ~busy
    BY DEF CallStep, StepRefused, StepTrap, TakeTrap, StepStart
  <2> QED
    BY <1>1, <1>2, <2>1, <2>2 DEF HartInv
<1>4. ~StepRefused
  BY <1>3 DEF StepRefused
<1>5. calls \in 0 .. 3 /\ traps \in {0, 1}
  BY <1>1, <1>2 DEF SelfPre, MainInv, HartInv
<1>6. trans' \in {"none", "settle"} /\ UNCHANGED <<gpio_out, gpio_ie, irq>>
  BY <1>1 DEF AfterCall, Settle, busvars, gpio
<1>7. ~Accessing' /\ ~Applied'
  BY <1>6 DEF Accessing, Applied
<1>8. 0 \in Bits /\ MIE \in Bits
  BY AhbAssumption
<1>9. CASE StepTrap
  <2>1. /\ irq_mask # {} /\ MIE \in mstatus
        /\ UNCHANGED <<initialized, ram, mie, mtvec, htif_halted>>
        /\ mepc' = pc /\ mstatus' = mstatus \ {MIE} /\ wfi_sleep' = FALSE /\ ~busy'
        /\ pc' = TrapTarget(Lowest(Enabled)) /\ traps' = Plus(traps, 1, CycleMod)
    BY <1>9 DEF StepTrap, TakeTrap, TakesIrq, Enabled, Return
  <2>2. Raised
    BY <1>3, <2>1, IrqBetween
  <2>3. traps = 0 /\ pc \in {9, 10}
    <3>1. pc < 14
      BY <1>2, <2>1 DEF HartInv, BeforeTrap, AfterTrap
    <3> QED
      BY <1>2, <2>2, <3>1 DEF Raised, BeforeTrap
  <2>4. traps' = 1
    BY <2>1, <2>3, BatchAssumption DEF Plus
  <2>5. pc' = 14
    <3>1. mtvec = [base |-> Handler, vectored |-> FALSE]
      BY <1>2, <2>3 DEF HartInv
    <3> QED
      BY <2>1, <3>1 DEF TrapTarget
  <2>6. calls \in {1, 2}
    BY <1>2, <1>3, <2>3 DEF BeforeTrap
  <2>7. calls' = calls + 1 /\ calls' < Calls /\ phase' = "call"
    BY <1>1, <2>1, <2>6 DEF AfterCall, Calls
  <2>8. gpio_out' = 1 /\ gpio_ie' = 1
    BY <1>2, <1>3, <1>6, <2>2, <2>3 DEF RegistersInv
  <2>9. HartInv'
    <3>1. ~wfi_sleep' /\ ~htif_halted'
      BY <1>2, <2>1, Zenon DEF HartInv
    <3>2. mie' = Bits /\ initialized' /\ ram' = AhbFirmware
      BY <1>1, <1>2, <2>1 DEF HartInv
    <3>3. mtvec' = [base |-> Handler, vectored |-> FALSE] /\ MIE \notin mstatus'
      BY <1>2, <2>1, <2>3 DEF HartInv
    <3> QED
      BY <2>4, <2>5, <2>7, <3>1, <3>2, <3>3 DEF HartInv
  <2>10. BeforeTrap' /\ AfterTrap'
    BY <2>1, <2>3, <2>4, <2>5, <2>7 DEF BeforeTrap, AfterTrap
  <2>11. RegistersInv'
    BY <1>7, <2>4, <2>5, <2>8 DEF RegistersInv, Raised
  <2> QED
    BY <2>9, <2>10, <2>11 DEF SelfInv
<1>10. CASE StepStart(step_batch)
  <2>1. /\ UNCHANGED <<initialized, ram, pc, irq_mask, wfi_sleep, mstatus, mie, mtvec, mepc,
                       htif_halted, traps>>
        /\ busy' /\ left' = step_batch /\ ~TakesIrq
    BY <1>10 DEF StepStart, csrs, history
  <2>2. UNCHANGED <<phase, calls, trans>>
    BY <1>1, <2>1 DEF AfterCall, main, busvars
  <2>3. step_batch \in Nat /\ step_batch >= 8
    BY DEF SelfPre, MainInv
  <2>4. HartInv'
    BY <1>1, <1>2, <2>1, <2>2 DEF HartInv
  <2>5. BeforeTrap'
    <3> SUFFICES ASSUME traps = 0 PROVE BeforeTrap'
      BY <2>1 DEF BeforeTrap
    <3>1. calls # 2
      <4> SUFFICES ASSUME calls = 2 PROVE FALSE
        OBVIOUS
      <4>1. pc > 8
        BY <1>2, <1>3 DEF BeforeTrap
      <4>2. irq_mask = {0}
        BY <1>3, <4>1, IrqBetween DEF Raised
      <4>3. MIE \in mstatus /\ mie = Bits
        BY <1>2, <4>1 DEF HartInv, BeforeTrap
      <4> QED
        BY <1>8, <2>1, <4>2, <4>3 DEF TakesIrq, Enabled
    <3>2. pc \in 0 .. 10
      BY <1>2 DEF BeforeTrap
    <3>3. \/ calls = 0 /\ pc = 0
          \/ calls = 1 /\ pc >= 8
      BY <1>2, <1>3, <3>1 DEF BeforeTrap
    <3> QED
      BY <1>1, <1>2, <2>1, <2>2, <2>3, <3>2, <3>3 DEF BeforeTrap
  <2>6. AfterTrap'
    <3> SUFFICES ASSUME traps = 1 PROVE AfterTrap'
      BY <2>1 DEF AfterTrap
    <3>1. pc \in {13, 14}
      BY <1>2, <1>3 DEF AfterTrap
    <3>2. left' >= ToGo'
      BY <2>1, <2>3, <3>1 DEF ToGo
    <3> QED
      BY <1>2, <2>1, <3>2 DEF AfterTrap
  <2>7. RegistersInv'
    BY <1>1, <1>2, <1>3, <1>6, <1>7, <2>1 DEF RegistersInv, Raised
  <2> QED
    BY <2>4, <2>5, <2>6, <2>7 DEF SelfInv
<1> QED
  BY <1>4, <1>9, <1>10 DEF CallStep

LEMMA SettleKeeps == ASSUME SelfPre, SettleTick PROVE SelfInv'
<1>1. /\ trans = "settle" /\ Tick
      /\ UNCHANGED <<t1, t2, phase, calls, indicator>>
  BY DEF SettleTick, registers, main
<1>2. trans' \in {"settle", "none"}
  BY <1>1 DEF Tick
<1>3. ~Accessing /\ ~Accessing' /\ ~Applied'
  BY <1>1, <1>2 DEF Accessing, Applied
<1>4. htrans = "IDLE"
  BY <1>1 DEF SelfPre, SysInv, BusInv, SettleInv
<1>5. UNCHANGED <<gpio_out, gpio_ie>>
  BY <1>1, <1>4 DEF Tick, GpioEdge, Selected, gpio
<1>6. UNCHANGED <<initialized, ram, pc, wfi_sleep, mstatus, mie, mtvec, mepc, htif_halted,
                  busy, left, traps>>
  BY DEF SettleTick, RvSetIrq, vars, csrs, call, history
<1>7. irq_mask' = IrqMask(irq') \/ UNCHANGED <<irq, irq_mask>>
  BY <1>1 DEF SettleTick, RvSetIrq, Tick, vars
<1>8. HartInv'
  BY <1>1, <1>6 DEF SelfPre, SelfInv, HartInv
<1>9. BeforeTrap'
  BY <1>1, <1>6 DEF SelfPre, SelfInv, BeforeTrap
<1>10. AfterTrap'
  BY <1>1, <1>6 DEF SelfPre, SelfInv, AfterTrap, ToGo
<1>11. RegistersInv'
  <2>1. RegistersInv
    BY DEF SelfPre, SelfInv
  <2>2. Raised' <=> Raised
    BY <1>6 DEF Raised
  <2> QED
    BY <1>1, <1>3, <1>5, <1>6, <1>7, <2>1, <2>2 DEF RegistersInv
<1> QED
  BY <1>8, <1>9, <1>10, <1>11 DEF SelfInv

LEMMA BeginKeeps == ASSUME SelfPre, BeginAccess PROVE SelfInv'
<1>1. /\ Insns("mmio") /\ Drive(RequestAt(pc)) /\ UNCHANGED <<vars, t1, t2, phase, calls>>
      /\ indicator' = IF pc = StorePass THEN t1 ELSE indicator
  BY DEF BeginAccess, registers, main
<1>2. UNCHANGED <<initialized, ram, pc, irq_mask, wfi_sleep, mstatus, mie, mtvec, mepc,
                  htif_halted, busy, left, traps>>
  BY <1>1 DEF vars, csrs, call, history
<1>3. /\ trans = "none" /\ trans' = "request" /\ request' = RequestAt(pc)
      /\ UNCHANGED <<gpio_out, gpio_ie, irq>>
  BY <1>1 DEF Drive, gpio
<1>4. ~Accessing /\ Accessing' /\ ~Applied'
  BY <1>3 DEF Accessing, Applied
<1>5. pc \in Ram /\ ram[pc].op = "mmio"
  BY <1>1 DEF Insns, Running, Fetchable
<1>6. HartInv'
  BY <1>1, <1>2 DEF SelfPre, SelfInv, HartInv
<1>7. BeforeTrap'
  BY <1>1, <1>2 DEF SelfPre, SelfInv, BeforeTrap
<1>8. AfterTrap'
  BY <1>1, <1>2 DEF SelfPre, SelfInv, AfterTrap, ToGo
<1>9. RegistersInv'
  <2>1. RegistersInv /\ HartInv
    BY DEF SelfPre, SelfInv
  <2>2. Raised' <=> Raised
    BY <1>2 DEF Raised
  <2>3. RequestAt(pc)' = RequestAt(pc)
    BY <1>1, <1>2 DEF RequestAt
  <2>4. pc = StorePass => indicator' = 1
    BY <1>1, <2>1 DEF HartInv
  <2>5. pc = StorePass + 1 => indicator' = 1
    BY <1>1, <2>1 DEF RegistersInv, StorePass
  <2> QED
    BY <1>2, <1>3, <1>4, <1>5, <2>1, <2>2, <2>3, <2>4, <2>5 DEF RegistersInv
<1> QED
  BY <1>6, <1>7, <1>8, <1>9 DEF SelfInv

\* The slot of the access that is on the bus.
LEMMA AccessSlot ==
  ASSUME SelfPre, Accessing
  PROVE  /\ pc \in {6, 8, 9, 12, 14, 15} /\ request = RequestAt(pc)
         /\ busy /\ traps \in {0, 1} /\ (traps = 0 => pc < 11) /\ (traps = 1 => pc > 8)
         /\ phase = "call" /\ initialized /\ ram = AhbFirmware
<1>1. busy
  BY DEF SelfPre, SysInv, AccessInv
<1>2. phase = "call"
  BY <1>1 DEF SelfPre, MainInv
<1>3. initialized /\ ram = AhbFirmware /\ traps \in {0, 1}
  BY <1>2 DEF SelfPre, SelfInv, HartInv
<1>4. request = RequestAt(pc) /\ pc \in Ram /\ AhbFirmware[pc].op = "mmio"
  BY <1>3 DEF SelfPre, SelfInv, RegistersInv
<1>5. pc \in {6, 8, 9, 12, 14, 15}
  BY <1>4, FirmwareAccesses
  DEF StoreEnable, StoreOut, LoadOut, StorePass, Handler, LoadStatus, ClearOut
<1>6. (traps = 0 => pc < 11) /\ (traps = 1 => pc > 8)
  BY DEF SelfPre, SelfInv, BeforeTrap, AfterTrap, Branch, LoadOut, ClearOut, Handler
<1> QED
  BY <1>1, <1>2, <1>3, <1>4, <1>5, <1>6

LEMMA AccessKeeps == ASSUME SelfPre, AccessTick PROVE SelfInv'
<1> USE DEF StoreEnable, StoreOut, LoadOut, StorePass, Handler, LoadStatus, ClearOut
<1>1. /\ trans \in {"request", "drain"} /\ Tick
      /\ UNCHANGED <<vars, t1, t2, phase, calls, indicator>>
  BY DEF AccessTick, registers, main
<1>2. UNCHANGED <<initialized, ram, pc, irq_mask, wfi_sleep, mstatus, mie, mtvec, mepc,
                  htif_halted, busy, left, traps>>
  BY <1>1 DEF vars, csrs, call, history
<1>3. Accessing
  BY <1>1 DEF Accessing
<1>4. /\ Accessing' /\ request' = request
      /\ gpio_out' # gpio_out => request.write /\ request.reg = "GPIO_OUT"
      /\ gpio_ie' # gpio_ie => request.write /\ request.reg = "GPIO_IE"
      /\ Applied => UNCHANGED <<gpio_out, gpio_ie, ahb_req_rdata>>
      /\ Applied' /\ ~Applied /\ request.write =>
           /\ request.reg = "GPIO_OUT" => gpio_out' = request.data
           /\ request.reg = "GPIO_IE" => gpio_ie' = request.data
      /\ Applied' /\ ~Applied /\ ~request.write /\ request.reg = "GPIO_OUT" =>
           ahb_req_rdata' = gpio_out'
  BY <1>1, AccessEdge DEF SelfPre, SysInv
<1>5. pc \in {6, 8, 9, 12, 14, 15} /\ request = RequestAt(pc)
  BY <1>3, AccessSlot
<1>6. HartInv'
  BY <1>1, <1>2 DEF SelfPre, SelfInv, HartInv
<1>7. BeforeTrap'
  BY <1>1, <1>2 DEF SelfPre, SelfInv, BeforeTrap
<1>8. AfterTrap'
  BY <1>1, <1>2 DEF SelfPre, SelfInv, AfterTrap, ToGo
<1>9. RegistersInv'
  <2>1. RegistersInv /\ HartInv
    BY DEF SelfPre, SelfInv
  <2>2. Raised' <=> Raised
    BY <1>2 DEF Raised
  <2>3. RequestAt(pc)' = RequestAt(pc)
    BY <1>1, <1>2 DEF RequestAt
  <2>4. /\ pc = 6 => request = [reg |-> "GPIO_IE", write |-> TRUE, data |-> t1]
        /\ pc = 8 => request = [reg |-> "GPIO_OUT", write |-> TRUE, data |-> t1]
        /\ pc = 9 => request = [reg |-> "GPIO_OUT", write |-> FALSE, data |-> 0]
        /\ pc = 12 => request = [reg |-> "outside", write |-> TRUE, data |-> t1]
        /\ pc = 14 => request = [reg |-> "GPIO_STATUS", write |-> FALSE, data |-> 0]
        /\ pc = 15 => request = [reg |-> "GPIO_OUT", write |-> TRUE, data |-> 0]
    BY <1>5 DEF RequestAt
  <2>5. Applied' /\ pc \in {8, 15} => gpio_out' = request.data
    BY <1>4, <2>1, <2>4 DEF RegistersInv
  <2>6. pc \notin {8, 15} => gpio_out' = gpio_out
    BY <1>4, <1>5, <2>4
  <2>7. pc > 6 => gpio_ie' = 1
    BY <1>4, <1>5, <2>1, <2>4 DEF RegistersInv
  <2>8. pc = 6 /\ Applied' => gpio_ie' = 1
    BY <1>4, <2>1, <2>4 DEF RegistersInv, HartInv
  <2>9. pc = 9 /\ Applied' => ahb_req_rdata' = gpio_out'
    BY <1>4, <2>1, <2>4 DEF RegistersInv
  <2> QED
    BY <1>1, <1>2, <1>3, <1>4, <1>5, <2>1, <2>2, <2>3, <2>5, <2>6, <2>7, <2>8, <2>9
    DEF RegistersInv
<1> QED
  BY <1>6, <1>7, <1>8, <1>9 DEF SelfInv

LEMMA EndKeeps == ASSUME SelfPre, EndAccess PROVE SelfInv'
<1> USE DEF StoreEnable, StoreOut, LoadOut, Branch, StorePass, Handler, LoadStatus, ClearOut
<1>1. /\ trans = "reply" /\ trans' = "none" /\ ExecMmio /\ irq_mask' = IrqMask(irq)
      /\ UNCHANGED <<phase, calls, indicator>>
      /\ t1' = IF pc = LoadStatus THEN ahb_req_rdata ELSE t1
      /\ t2' = IF pc = LoadOut THEN ahb_req_rdata ELSE t2
  BY DEF EndAccess, Reply, main
<1>2. UNCHANGED <<gpio_out, gpio_ie, irq>>
  BY DEF EndAccess, Reply, gpio
<1>3. Accessing /\ Applied /\ ~Accessing' /\ ~Applied'
  BY <1>1 DEF Accessing, Applied
<1>4. /\ pc \in {6, 8, 9, 12, 14, 15} /\ request = RequestAt(pc)
      /\ busy /\ traps \in {0, 1} /\ (traps = 0 => pc < 11) /\ (traps = 1 => pc > 8)
      /\ phase = "call" /\ initialized /\ ram = AhbFirmware
  BY <1>3, AccessSlot
<1>5. /\ UNCHANGED <<initialized, ram, wfi_sleep, mstatus, mie, mtvec, mepc, htif_halted,
                     busy, traps>>
      /\ left' = left - 1 /\ pc' = NextSlot(pc) /\ left > 0
  BY <1>1 DEF ExecMmio, Retire, csrs, Insns, Running
<1>6. pc' = pc + 1 /\ left \in Nat
  BY <1>4, <1>5, Program DEF SelfPre, TypeOK
<1>7. HartInv /\ BeforeTrap /\ AfterTrap /\ RegistersInv
  BY DEF SelfPre, SelfInv
<1>8. /\ pc = 8 => request.data = t1 /\ t1 = 1
      /\ pc = 15 => request.data = 0
  BY <1>4, <1>7 DEF RequestAt, HartInv
<1>9. gpio_out = IF Raised' THEN 1 ELSE 0
  <2>1. pc \notin {8, 15} => gpio_out = IF Raised THEN 1 ELSE 0
    BY <1>7 DEF RegistersInv
  <2>2. pc \in {8, 15} => gpio_out = request.data
    BY <1>3, <1>7 DEF RegistersInv
  <2>3. Raised' <=> (traps = 0 /\ pc > 7) \/ pc \in {13, 14}
    BY <1>4, <1>5, <1>6 DEF Raised
  <2>4. CASE pc \in {8, 15}
    BY <1>4, <1>8, <2>2, <2>3, <2>4
  <2>5. CASE pc \notin {8, 15}
    BY <1>4, <2>1, <2>3, <2>5 DEF Raised
  <2> QED
    BY <2>4, <2>5
<1>10. pc = 9 => t2' = gpio_out /\ t2' = IF traps = 0 THEN 1 ELSE 0
  <2>1. pc = 9 => ahb_req_rdata = gpio_out
    BY <1>3, <1>7 DEF RegistersInv
  <2>2. pc = 9 => gpio_out = IF traps = 0 THEN 1 ELSE 0
    BY <1>4, <1>5, <1>6, <1>9 DEF Raised
  <2> QED
    BY <1>1, <2>1, <2>2
<1>11. HartInv'
  <2>1. pc' \notin {6, 8, 12}
    BY <1>4, <1>6
  <2>2. pc' > 2 => mtvec' = [base |-> Handler, vectored |-> FALSE]
    BY <1>4, <1>5, <1>6, <1>7 DEF HartInv
  <2>3. traps = 0 /\ pc' > 4 => MIE \in mstatus'
    BY <1>4, <1>5, <1>6, <1>7 DEF HartInv
  <2>4. pc' >= 14 => MIE \notin mstatus'
    BY <1>4, <1>5, <1>6, <1>7 DEF HartInv
  <2> QED
    BY <1>1, <1>4, <1>5, <1>7, <2>1, <2>2, <2>3, <2>4 DEF HartInv
<1>12. BeforeTrap'
  <2> SUFFICES ASSUME traps = 0 PROVE BeforeTrap'
    BY <1>5 DEF BeforeTrap
  <2>1. pc \in {6, 8, 9} /\ pc' \in 0 .. 10 /\ (pc' = 10 => t2' = 1)
    BY <1>4, <1>6, <1>10
  <2>2. \/ calls = 0 /\ (pc > 8 \/ pc + left >= 8)
        \/ calls = 1 /\ (pc > 8 \/ (pc = 8 /\ left > 0))
    BY <1>4, <1>7 DEF BeforeTrap
  <2>3. \/ calls' = 0 /\ (pc' > 8 \/ pc' + left' >= 8)
        \/ calls' = 1 /\ (pc' > 8 \/ (pc' = 8 /\ left' > 0))
    BY <1>1, <1>5, <1>6, <2>1, <2>2
  <2> QED
    BY <1>4, <1>5, <2>1, <2>3 DEF BeforeTrap
<1>13. AfterTrap'
  <2> SUFFICES ASSUME traps = 1 PROVE AfterTrap'
    BY <1>5 DEF AfterTrap
  <2>1. left >= ToGo
    BY <1>4, <1>7 DEF AfterTrap
  <2>2. pc \in {9, 12, 14, 15} /\ pc' = pc + 1
    BY <1>4, <1>6
  <2>3. left' >= ToGo'
    <3>1. pc = 9 => left >= 4 /\ ToGo' = 3
      BY <1>6, <1>10, <2>1 DEF ToGo
    <3>2. pc = 12 => left >= 1 /\ ToGo' = 0
      BY <1>6, <2>1 DEF ToGo
    <3>3. pc = 14 => left >= 8 /\ ToGo' = 7
      BY <1>6, <2>1 DEF ToGo
    <3>4. pc = 15 => left >= 7 /\ ToGo' = 6
      BY <1>6, <2>1 DEF ToGo
    <3> QED
      BY <1>5, <1>6, <2>2, <3>1, <3>2, <3>3, <3>4
  <2> QED
    BY <1>4, <1>5, <1>7, <2>2, <2>3 DEF AfterTrap
<1>14. RegistersInv'
  <2>1. pc' > 6 => gpio_ie' = 1
    BY <1>2, <1>3, <1>4, <1>6, <1>7 DEF RegistersInv
  <2>2. pc' = 13 => indicator' = 1
    <3>1. pc' = 13 => pc = 12
      BY <1>4, <1>6
    <3> QED
      BY <1>1, <1>3, <1>7, <3>1 DEF RegistersInv
  <2> QED
    BY <1>1, <1>2, <1>3, <1>9, <2>1, <2>2 DEF RegistersInv
<1> QED
  BY <1>11, <1>12, <1>13, <1>14 DEF SelfInv

LEMMA SetupKeeps == ASSUME SelfPre, LoadFirmware \/ ResetHart PROVE SelfInv'
<1> USE DEF StoreEnable, StoreOut, LoadOut, Branch, StorePass, Handler, LoadStatus, ClearOut
<1>1. HartInv /\ BeforeTrap /\ AfterTrap /\ RegistersInv
  BY DEF SelfPre, SelfInv
<1>2. phase \in {"load", "reset"}
  BY DEF LoadFirmware, ResetHart
<1>3. calls = 0 /\ ~busy /\ traps = 0 /\ pc = 0
  BY <1>1, <1>2 DEF SelfPre, MainInv, HartInv, BeforeTrap
<1>4. ~Accessing
  BY <1>3 DEF SelfPre, SysInv, AccessInv
<1>5. ~Raised /\ irq = 0 /\ gpio_out = 0
  BY <1>3, <1>4, IrqBetween DEF Raised
<1>6. CASE LoadFirmware
  <2>1. /\ initialized' /\ ram' \in Firmware /\ irq_mask' = {} /\ ~wfi_sleep' /\ mie' = Bits
        /\ pc' = 0 /\ UNCHANGED <<htif_halted, traps, busy>> /\ phase' = "reset"
    BY <1>6 DEF LoadFirmware, RvInit, LosesRam, FreshHart, call
  <2>2. /\ UNCHANGED <<trans, gpio_out, gpio_ie, irq, calls>> /\ ram' = AhbFirmware
    BY <1>6, <2>1, AhbAssumption DEF LoadFirmware, busvars, gpio
  <2>3. ~Accessing' /\ ~Applied' /\ ~Raised'
    BY <1>3, <1>4, <2>1, <2>2 DEF Accessing, Applied, Raised
  <2>4. HartInv'
    BY <1>1, <1>3, <2>1, <2>2 DEF HartInv
  <2>5. BeforeTrap' /\ AfterTrap'
    BY <1>3, <2>1, <2>2 DEF BeforeTrap, AfterTrap
  <2>6. RegistersInv'
    BY <1>5, <2>1, <2>2, <2>3 DEF RegistersInv, IrqMask
  <2> QED
    BY <2>4, <2>5, <2>6 DEF SelfInv
<1>7. CASE ResetHart
  <2>1. /\ UNCHANGED <<initialized, ram, htif_halted, busy>> /\ irq_mask' = {} /\ ~wfi_sleep'
        /\ mie' = Bits /\ pc' = 0 /\ traps' = 0 /\ phase' = "call"
    BY <1>7 DEF ResetHart, RvReset, call
  <2>2. trans' = "settle" /\ UNCHANGED <<gpio_out, gpio_ie, irq, calls>>
    BY <1>7 DEF ResetHart, Settle, gpio
  <2>3. ~Accessing' /\ ~Applied' /\ ~Raised'
    BY <2>1, <2>2 DEF Accessing, Applied, Raised
  <2>4. initialized /\ ram = AhbFirmware
    BY <1>1, <1>7 DEF ResetHart, HartInv
  <2>5. HartInv'
    BY <1>1, <2>1, <2>4 DEF HartInv
  <2>6. BeforeTrap' /\ AfterTrap'
    BY <1>3, <2>1, <2>2 DEF BeforeTrap, AfterTrap
  <2>7. RegistersInv'
    BY <1>5, <2>1, <2>2, <2>3 DEF RegistersInv, IrqMask
  <2> QED
    BY <2>5, <2>6, <2>7 DEF SelfInv
<1> QED
  BY <1>6, <1>7

LEMMA SelfStep ==
  ASSUME SelfPre, [SysNext]_sysvars, Batches \subseteq 8 .. MaxBatch PROVE SelfInv'
<1>1. CASE UNCHANGED sysvars
  <2>1. UNCHANGED <<vars, busvars, t1, t2, phase, calls, indicator>>
    BY <1>1 DEF sysvars, registers, main
  <2>2. UNCHANGED <<initialized, ram, pc, irq_mask, wfi_sleep, mstatus, mie, mtvec, mepc,
                    htif_halted, busy, left, traps>>
    BY <2>1 DEF vars, csrs, call, history
  <2>3. UNCHANGED <<trans, request, ahb_req_rdata, gpio_out, gpio_ie, irq>>
    BY <2>1 DEF busvars, bfm, gpio, caller
  <2>4. (HartInv /\ BeforeTrap /\ AfterTrap)'
    BY <2>1, <2>2 DEF SelfPre, SelfInv, HartInv, BeforeTrap, AfterTrap, ToGo
  <2>5. RegistersInv'
    <3>1. RequestAt(pc)' = RequestAt(pc)
      BY <2>1, <2>2 DEF RequestAt
    <3> QED
      BY <2>1, <2>2, <2>3, <3>1
      DEF SelfPre, SelfInv, RegistersInv, Raised, Accessing, Applied
  <2> QED
    BY <2>4, <2>5 DEF SelfInv
<1>2. CASE SysNext
  BY <1>2, SetupKeeps, CallKeeps, ExecuteKeeps, SettleKeeps, BeginKeeps, AccessKeeps,
     EndKeeps DEF SysNext
<1> QED
  BY <1>1, <1>2

LEMMA SelfPasses == ASSUME SelfPre PROVE SelfTestPasses
<1> SUFFICES ASSUME phase = "done"
             PROVE  gpio_out = 0 /\ gpio_ie = 1 /\ indicator = 1 /\ traps = 1
  BY DEF SelfTestPasses
<1> USE DEF StoreEnable, StoreOut, LoadOut, StorePass, Handler, LoadStatus, ClearOut
<1>1. HartInv /\ BeforeTrap /\ AfterTrap /\ RegistersInv
  BY DEF SelfPre, SelfInv
<1>2. ~busy /\ calls = 4
  BY <1>1 DEF SelfPre, MainInv, HartInv, Calls
<1>3. traps = 1
  BY <1>1, <1>2 DEF HartInv, BeforeTrap
<1>4. pc = 13
  BY <1>1, <1>2, <1>3 DEF AfterTrap, Calls
<1>5. ~Accessing
  BY <1>2 DEF SelfPre, SysInv, AccessInv
<1> QED
  BY <1>1, <1>3, <1>4, <1>5 DEF RegistersInv, Raised

\* For every batch size from eight on, and every timeout of the bus, the self-test
\* ends with the verdict its harness checks for: one trap, both registers as the
\* firmware left them, and the pass indicator (main, firmware_ahb.S).
THEOREM SelfTestIsPassed ==
  ASSUME Batches \subseteq 8 .. MaxBatch
  PROVE  SysSpec => []SelfTestPasses
<1>1. SysInit => SelfInv /\ MovedBits /\ MainInv
  BY SelfInit DEF SysInit, Init, BusInit, MovedBits, MainInv
<1>2. TypeOK /\ CoreInv /\ SysInv /\ (MovedBits /\ MainInv /\ SelfInv) /\ [SysNext]_sysvars
        => (MovedBits /\ MainInv /\ SelfInv)'
  BY BitsStep, MainStep, SelfStep DEF SelfPre
<1>3. TypeOK /\ CoreInv /\ SysInv /\ (MovedBits /\ MainInv /\ SelfInv) => SelfTestPasses
  BY SelfPasses DEF SelfPre
<1> QED
  BY <1>1, <1>2, <1>3, SysInvariant, PTL DEF SysSpec
=============================================================================
