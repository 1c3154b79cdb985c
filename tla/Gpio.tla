-------------------------------- MODULE Gpio --------------------------------
(***************************************************************************)
(* axi4_lite_gpio: pins, their direction, and the sticky record of their   *)
(* events.  A register of one bit per pin is the set of pins whose bit is  *)
(* set.  The AXI side is AxiSlave; here a write is what its do_write       *)
(* commits.  The registers fit in byte 0, so a write covers all pins.      *)
(***************************************************************************)
CONSTANTS Pins, NoWrite

VARIABLES
  out_q, dir_q,
  gpio_prev_q,              \* the inputs of the previous cycle
  int_type_q,               \* per pin: "level", "rise", "fall" or "both"
  int_en_q, pend_q

gpioVars == <<out_q, dir_q, gpio_prev_q, int_type_q, int_en_q, pend_q>>

GpioInit ==
  /\ out_q = {} /\ dir_q = {} /\ gpio_prev_q = {}
  /\ int_type_q = [p \in Pins |-> "level"]
  /\ int_en_q = {} /\ pend_q = {}

ev_rise(gpio_i) == gpio_i \ gpio_prev_q
ev_fall(gpio_i) == gpio_prev_q \ gpio_i

pend_set(gpio_i) ==
  {p \in Pins : CASE int_type_q[p] = "level" -> p \in gpio_i
                  [] int_type_q[p] = "rise"  -> p \in ev_rise(gpio_i)
                  [] int_type_q[p] = "fall"  -> p \in ev_fall(gpio_i)
                  [] int_type_q[p] = "both"  -> p \in ev_rise(gpio_i) \cup ev_fall(gpio_i)}

\* Mutant: a write of 1 clears the bit although its event has just come.
ClearWins(gpio_i, pend_clr) == (pend_q \cup pend_set(gpio_i)) \ pend_clr

pend_d(gpio_i, pend_clr) == (pend_q \ pend_clr) \cup pend_set(gpio_i)

IsWrite(write, reg) == write # NoWrite /\ write.reg = reg
Written(write, reg, old) == IF IsWrite(write, reg) THEN write.data ELSE old

\* One clock edge, with the synchronised inputs and the write committed.
GpioTick(gpio_i, write) ==
  /\ gpio_prev_q' = gpio_i
  /\ pend_q' = pend_d(gpio_i, Written(write, "INT_STATUS", {}))
  /\ out_q' = Written(write, "OUT", out_q)
  /\ dir_q' = Written(write, "DIR", dir_q)
  /\ int_type_q' = Written(write, "INT_TYPE", int_type_q)
  /\ int_en_q' = Written(write, "INT_EN", int_en_q)

\* What a read of a register returns.
gpio_rdata(reg, gpio_i) ==
  CASE reg = "VALUE"      -> gpio_i
    [] reg = "OUT"        -> out_q
    [] reg = "DIR"        -> dir_q
    [] reg = "INT_TYPE"   -> int_type_q
    [] reg = "INT_EN"     -> int_en_q
    [] reg = "INT_STATUS" -> pend_q

gpio_irq == pend_q \cap int_en_q # {}
=============================================================================
