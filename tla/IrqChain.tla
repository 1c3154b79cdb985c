------------------------------ MODULE IrqChain ------------------------------
(***************************************************************************)
(* The external-interrupt chain of top_module: pad, two-flop synchroniser, *)
(* GPIO, PLIC, and a hart whose firmware does what the GPIO and PLIC ask   *)
(* for: type the pins, clear the stale bits, arm, enable; then on an       *)
(* interrupt claim, acknowledge, look at the pins, return.  Stores are     *)
(* posted: one write may be on the bus, it lands some cycles later, and    *)
(* the next access waits for it.  Every step is a clock cycle.             *)
(***************************************************************************)
EXTENDS Gpio, Plic

CONSTANTS
  Type,        \* event each pin is armed for
  Outputs,     \* pins the firmware drives; the others are driven from outside
  Enabled,     \* sources the firmware enables in the PLIC
  Others,      \* sources besides the GPIO
  PLIC_SRC_GPIO,
  NoRead       \* no read answer

ASSUME IrqAssumption ==
  /\ SRC_N \in Nat \ {0} /\ Others \subseteq 1 .. (SRC_N - 1)
  /\ PLIC_SRC_GPIO \in 1 .. (SRC_N - 1) \ Others
  /\ Enabled \subseteq 1 .. (SRC_N - 1) /\ PLIC_SRC_GPIO \in Enabled
  /\ Type \in [Pins -> {"rise", "fall", "both"}] /\ Outputs \subseteq Pins
  /\ NoWrite \notin {[reg |-> "INT_STATUS", data |-> Pins], [reg |-> "ENABLE", data |-> Enabled]}
  /\ NoWrite # [reg |-> "INT_TYPE", data |-> Type] /\ NoEnable # Enabled

VARIABLES
  gpio_sync0_q, gpio_sync1_q,
  lines,      \* interrupt lines of the other sources
  bus,        \* the posted write, or NoWrite
  rdata_q,    \* the answer of a read that the hart has not taken yet, or NoRead
  pc, mie,    \* the firmware, and mstatus.MIE
  claimed,    \* the source the handler claimed
  edges       \* history: pins whose event came since the last clear landed

syncVars == <<gpio_sync0_q, gpio_sync1_q>>
hartVars == <<bus, rdata_q, pc, mie, claimed, lines, edges>>
vars == <<gpioVars, enable_q, syncVars, hartVars>>

plic_irq == lines \cup (IF gpio_irq THEN {PLIC_SRC_GPIO} ELSE {})

Init ==
  /\ GpioInit /\ PlicInit
  /\ gpio_sync0_q = Pins /\ gpio_sync1_q = Pins
  /\ lines \in SUBSET Others
  /\ bus = NoWrite /\ rdata_q = NoRead /\ pc = "dir" /\ mie = FALSE /\ claimed = 0 /\ edges = {}

(***************************************************************************)
(* The hardware's part of a cycle.  land: the posted write commits now.    *)
(***************************************************************************)
gpio_io(outside) == (outside \ dir_q) \cup (out_q \cap dir_q)

IsEvent(p) ==
  \/ Type[p] # "fall" /\ p \in gpio_sync1_q \ gpio_prev_q
  \/ Type[p] # "rise" /\ p \in gpio_prev_q \ gpio_sync1_q

Events == {p \in Pins : IsEvent(p)}

Hardware(outside, land) ==
  LET write  == IF land /\ bus # NoWrite /\ bus.reg # "ENABLE" THEN bus ELSE NoWrite
      enable == IF land /\ bus # NoWrite /\ bus.reg = "ENABLE" THEN bus.data ELSE NoEnable
  IN  /\ gpio_sync0_q' = gpio_io(outside)
      /\ gpio_sync1_q' = gpio_sync0_q
      /\ GpioTick(gpio_sync1_q, write)
      /\ PlicTick(enable)
      /\ edges' = Events \cup IF IsWrite(write, "INT_STATUS") THEN {} ELSE edges

(***************************************************************************)
(* The hart's part of a cycle.                                             *)
(***************************************************************************)
\* A cycle that starts no bus access.
NoAccess(land) == bus' = (IF land THEN NoWrite ELSE bus) /\ UNCHANGED rdata_q

\* A load waits for the posted write.  The register is sampled when the
\* address is accepted; the hart takes the answer some cycles later.
Read(value) == bus = NoWrite /\ rdata_q' = value /\ UNCHANGED bus
Answered    == rdata_q # NoRead /\ rdata_q' = NoRead /\ UNCHANGED bus

Store(reg, data) == bus = NoWrite /\ bus' = [reg |-> reg, data |-> data] /\ UNCHANGED rdata_q

\* Firmware goes from one point of its program to the next.
Goto(from, to) == pc = from /\ pc' = to

\* ENABLE is read back, so it has landed before interrupts are unmasked.
Boot ==
  /\ \/ Goto("dir", "type") /\ Store("DIR", Outputs)
     \/ Goto("type", "clear") /\ Store("INT_TYPE", Type)
     \/ Goto("clear", "arm") /\ Store("INT_STATUS", Pins)
     \/ Goto("arm", "enable") /\ Store("INT_EN", Pins)
     \/ Goto("enable", "check") /\ Store("ENABLE", Enabled)
     \/ Goto("check", "checked") /\ Read(plic_rdata("ENABLE", plic_irq))
     \/ Goto("checked", "go") /\ PLIC_SRC_GPIO \in rdata_q /\ Answered
  /\ UNCHANGED <<mie, claimed>>

\* Interrupts are unmasked by the main program, and again by mret.
Unmask(land) ==
  /\ Goto("go", "main") \/ Goto("ret", "main")
  /\ mie' = TRUE
  /\ NoAccess(land) /\ UNCHANGED claimed

TakeInterrupt(land) ==
  /\ mie /\ meip(plic_irq)
  /\ Goto("main", "claim") /\ mie' = FALSE
  /\ NoAccess(land) /\ UNCHANGED claimed

AskClaim ==
  Goto("claim", "claimed") /\ Read(plic_rdata("CLAIM", plic_irq)) /\ UNCHANGED <<mie, claimed>>

Claim ==
  /\ pc = "claimed"
  /\ claimed' = rdata_q
  /\ pc' = CASE rdata_q = PLIC_SRC_GPIO -> "ack"
             [] rdata_q = 0 -> "ret"
             [] OTHER -> "other"
  /\ Answered /\ UNCHANGED mie

Acknowledge == Goto("ack", "look") /\ Store("INT_STATUS", Pins) /\ UNCHANGED <<mie, claimed>>

\* The handler looks at the pins after it has cleared their bits.
Look ==
  /\ \/ Goto("look", "looked") /\ Read(gpio_rdata("VALUE", gpio_sync1_q))
     \/ Goto("looked", "ret") /\ Answered
  /\ UNCHANGED <<mie, claimed>>

ServiceOther == Goto("other", "ret") /\ bus = NoWrite /\ UNCHANGED <<bus, rdata_q, mie, claimed>>

\* The main program drives its pins.
Drive ==
  /\ pc = "main"
  /\ \E out \in SUBSET Outputs : Store("OUT", out)
  /\ UNCHANGED <<pc, mie, claimed>>

Wait(land) == NoAccess(land) /\ UNCHANGED <<pc, mie, claimed>>

\* A line stays up until its source is serviced; any may rise.
Lines ==
  IF pc = "other" /\ pc' = "ret" THEN lines' = lines \ {claimed}
  ELSE \E up \in SUBSET (Others \ lines) : lines' = lines \cup up

Cycle(land) ==
  /\ land => bus # NoWrite
  /\ \E outside \in SUBSET Pins : Hardware(outside, land)

Firmware(land) ==
  Boot \/ Unmask(land) \/ TakeInterrupt(land) \/ AskClaim \/ Claim \/ Acknowledge \/ Look \/ ServiceOther

Runs    == \E land \in BOOLEAN : Firmware(land) /\ Lines /\ Cycle(land)
Drives  == Drive /\ Lines /\ Cycle(FALSE)
Waits   == \E land \in BOOLEAN : Wait(land) /\ Lines /\ Cycle(land)

Next == Runs \/ Drives \/ Waits

Spec == Init /\ [][Next]_vars

\* The clock runs, the bus answers, and the hart executes its program.
Lands == bus # NoWrite /\ (Firmware(TRUE) \/ Wait(TRUE)) /\ Lines /\ Cycle(TRUE)
FairSpec == Spec /\ WF_vars(Next) /\ WF_vars(Lands) /\ WF_vars(Runs)

(***************************************************************************)
(* Properties.                                                             *)
(***************************************************************************)

\* Once the firmware has typed its pins and cleared the stale bits, in that
\* order, the sticky bits are exactly the events since the last clear landed:
\* none is lost, not even one that comes in the cycle of the clear, and none
\* is a phantom of the level bits of reset or of the other edge.
PendingExact ==
  pc \notin {"dir", "type", "clear"} /\ ~(pc = "arm" /\ bus # NoWrite) => pend_q = edges

\* An interrupt is never taken for nothing: the claim names an enabled source,
\* although lines move freely, writes are posted and the answer is sampled
\* after the interrupt was taken.
ClaimFindsSource == pc = "claimed" => rdata_q \in Enabled

\* After the event of an armed pin the handler goes and looks at the pins,
\* whatever the other sources do: also if the event comes while the handler
\* runs or its bit is being cleared, and once more if it comes after the pins
\* were read (the GPIO is the highest source enabled).
EventServed ==
  (pc \in {"main", "claim", "claimed", "other", "ret", "looked"} /\ Events # {}) ~> (pc = "look")
=============================================================================
