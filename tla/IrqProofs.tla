------------------------------- MODULE IrqProofs -------------------------------
(***************************************************************************)
(* Proofs about the external-interrupt chain, for any pins and sources,    *)
(* whatever the pads and the lines do and however long a write is posted.  *)
(*                                                                         *)
(* At most one write is on the bus, and where the firmware is tells which. *)
(* So it is known at every point which of the firmware's settings the GPIO *)
(* and the PLIC have, and the sticky bits can be compared with the events. *)
(***************************************************************************)
EXTENDS IrqChain, IrqPrograms, WellFoundedInduction, TLAPS

Post(reg, data) == [reg |-> reg, data |-> data]

\* The write that may be on the bus, by where the firmware is.
BusInv ==
  bus # NoWrite =>
    \/ pc = "type" /\ bus = Post("DIR", Outputs)
    \/ pc = "clear" /\ bus = Post("INT_TYPE", Type)
    \/ pc \in {"arm", "look"} /\ bus = Post("INT_STATUS", Pins)
    \/ pc = "enable" /\ bus = Post("INT_EN", Pins)
    \/ pc = "check" /\ bus = Post("ENABLE", Enabled)
    \/ pc \in {"main", "claim"} /\ \E out \in SUBSET Outputs : bus = Post("OUT", out)

Booting == {"dir", "type", "clear", "arm", "enable", "check", "checked", "go"}
Serving == {"main", "claim", "claimed", "ack", "look", "looked", "other", "ret"}

\* The settings that have landed.
TypeInv ==
  pc \notin {"dir", "type"} /\ ~(pc = "clear" /\ bus # NoWrite) => int_type_q = Type
EnableInv ==
  pc \in Serving \cup {"checked", "go"} \/ (pc = "check" /\ bus = NoWrite) => enable_q = Enabled

\* The request an interrupt was taken for is still up when it is claimed.
RequestInv == pc = "claim" => meip(plic_irq)

IrqInv ==
  /\ pc \in Booting \cup Serving
  /\ BusInv /\ TypeInv /\ EnableInv /\ RequestInv
  /\ pend_q \subseteq Pins /\ PendingExact
  /\ ClaimFindsSource

(***************************************************************************)
(* The PLIC's choice.                                                      *)
(***************************************************************************)
LEMMA LessOnNat ==
  \E R : IsWellFoundedOn(R, Nat) /\ \A x, y \in Nat : x < y => <<x, y>> \in R
  <1> WITNESS OpToRel(<, Nat)
  <1>1. \A x, y \in Nat : x < y => <<x, y>> \in OpToRel(<, Nat)
    BY DEF OpToRel
  <1> QED
    BY <1>1, NatLessThanWellFounded

LEMMA MinIsMember ==
  ASSUME NEW S \in SUBSET Nat, S # {}
  PROVE  Min(S) \in S
  <1>1. PICK R : IsWellFoundedOn(R, Nat) /\ \A x, y \in Nat : x < y => <<x, y>> \in R
    BY LessOnNat
  <1>2. PICK n \in S : \A m \in S : ~(<<m, n>> \in R)
    <2>1. S \subseteq Nat /\ IsWellFoundedOn(R, Nat)
      BY <1>1
    <2> QED
      BY <2>1, WFMin, Zenon
  <1>3. ASSUME NEW m \in S PROVE n <= m
    <2>1. m \in Nat /\ n \in Nat /\ ~(m < n)
      BY <1>1, <1>2
    <2> QED
      BY <2>1
  <1> QED
    BY <1>3 DEF Min

\* What is claimed while a request is up is an enabled source.
LEMMA ClaimsEnabled ==
  ASSUME enable_q = Enabled, NEW irq, meip(irq)
  PROVE  sel_id(irq) \in Enabled
  <1> DEFINE claimable == (irq \cap enable_q) \ {0}
  <1>1. claimable # {} /\ claimable \subseteq Enabled
    BY DEF meip
  <1>0. claimable \in SUBSET Nat
    <2>1. Enabled \subseteq 1 .. (SRC_N - 1) /\ SRC_N \in Nat
      BY IrqAssumption
    <2> HIDE DEF claimable
    <2>2. \A s \in claimable : s \in Nat
      BY <1>1, <2>1
    <2> QED
      BY <2>2
  <1>2. sel_id(irq) = Min(claimable)
    BY <1>1 DEF sel_id
  <1> QED
    BY <1>0, <1>1, <1>2, MinIsMember

(***************************************************************************)
(* A clock edge.                                                           *)
(***************************************************************************)

\* The write that lands in this cycle.
Landing(land, w) == land /\ bus = w

LEMMA ClearIsWrite == NoWrite # Post("INT_STATUS", Pins) /\ NoWrite # Post("ENABLE", Enabled)
                      /\ NoWrite # Post("INT_TYPE", Type) /\ NoEnable # Enabled
  BY IrqAssumption DEF Post

\* With the pins typed, the bits set are those of the events.
LEMMA SetsEvents == int_type_q = Type => pend_set(gpio_sync1_q) = Events
  <1> SUFFICES ASSUME int_type_q = Type PROVE pend_set(gpio_sync1_q) = Events
    OBVIOUS
  <1>1. ASSUME NEW p \in Pins
        PROVE  p \in pend_set(gpio_sync1_q) <=> IsEvent(p)
    <2>1. Type[p] \in {"rise", "fall", "both"}
      BY IrqAssumption
    <2>2. CASE Type[p] = "rise"
      BY <2>2 DEF pend_set, IsEvent, ev_rise
    <2>3. CASE Type[p] = "fall"
      BY <2>3 DEF pend_set, IsEvent, ev_fall
    <2>4. CASE Type[p] = "both"
      BY <2>4 DEF pend_set, IsEvent, ev_rise, ev_fall
    <2> QED
      BY <2>1, <2>2, <2>3, <2>4
  <1> QED
    BY <1>1 DEF pend_set, Events

\* What a cycle does to the registers, by the write that lands.
LEMMA ClockEdge ==
  ASSUME BusInv, NEW land \in BOOLEAN, Cycle(land)
  PROVE  LET clear == Landing(land, Post("INT_STATUS", Pins))
         IN  /\ land => bus # NoWrite
             /\ pend_q' = (pend_q \ IF clear THEN Pins ELSE {}) \cup pend_set(gpio_sync1_q)
             /\ edges' = Events \cup IF clear THEN {} ELSE edges
             /\ int_type_q' = IF Landing(land, Post("INT_TYPE", Type)) THEN Type ELSE int_type_q
             /\ int_en_q' = IF Landing(land, Post("INT_EN", Pins)) THEN Pins ELSE int_en_q
             /\ enable_q' = IF Landing(land, Post("ENABLE", Enabled)) THEN Enabled ELSE enable_q
  <1> DEFINE write  == IF land /\ bus # NoWrite /\ bus.reg # "ENABLE" THEN bus ELSE NoWrite
             enable == IF land /\ bus # NoWrite /\ bus.reg = "ENABLE" THEN bus.data ELSE NoEnable
  <1>1. /\ land => bus # NoWrite
        /\ pend_q' = pend_d(gpio_sync1_q, Written(write, "INT_STATUS", {}))
        /\ edges' = Events \cup IF IsWrite(write, "INT_STATUS") THEN {} ELSE edges
        /\ int_type_q' = Written(write, "INT_TYPE", int_type_q)
        /\ int_en_q' = Written(write, "INT_EN", int_en_q)
        /\ enable_q' = IF enable = NoEnable THEN enable_q ELSE enable
    BY DEF Cycle, Hardware, GpioTick, PlicTick
  <1>2. \A reg, data : Post(reg, data).reg = reg /\ Post(reg, data).data = data
    BY DEF Post
  <1>3. bus # NoWrite => bus.reg \in {"DIR", "INT_TYPE", "INT_STATUS", "INT_EN", "ENABLE", "OUT"}
    BY <1>2 DEF BusInv
  <1>4. bus # NoWrite => /\ bus.reg = "INT_STATUS" <=> bus = Post("INT_STATUS", Pins)
                         /\ bus.reg = "INT_TYPE" <=> bus = Post("INT_TYPE", Type)
                         /\ bus.reg = "INT_EN" <=> bus = Post("INT_EN", Pins)
                         /\ bus.reg = "ENABLE" <=> bus = Post("ENABLE", Enabled)
    BY <1>2 DEF BusInv
  <1>5. \A reg \in {"INT_STATUS", "INT_TYPE", "INT_EN"} :
          IsWrite(write, reg) <=> land /\ bus.reg = reg
    BY <1>1 DEF IsWrite
  <1>6. \A reg \in {"INT_STATUS", "INT_TYPE", "INT_EN"} :
          \A old : Written(write, reg, old) = IF land /\ bus.reg = reg THEN bus.data ELSE old
    BY <1>1, <1>5 DEF Written
  <1> HIDE DEF write
  <1>7. /\ pend_q' = (pend_q \ IF land /\ bus.reg = "INT_STATUS" THEN bus.data ELSE {})
                      \cup pend_set(gpio_sync1_q)
        /\ edges' = Events \cup IF land /\ bus.reg = "INT_STATUS" THEN {} ELSE edges
        /\ int_type_q' = IF land /\ bus.reg = "INT_TYPE" THEN bus.data ELSE int_type_q
        /\ int_en_q' = IF land /\ bus.reg = "INT_EN" THEN bus.data ELSE int_en_q
    BY <1>1, <1>5, <1>6 DEF pend_d
  <1>8. enable_q' = IF land /\ bus.reg = "ENABLE" THEN Enabled ELSE enable_q
    <2>1. CASE land /\ bus.reg = "ENABLE"
      <3>1. bus = Post("ENABLE", Enabled) /\ bus # NoWrite
        BY <1>1, <1>4, <2>1
      <3>2. enable = Enabled
        BY <1>2, <2>1, <3>1
      <3> QED
        BY <1>1, <2>1, <3>2, ClearIsWrite
    <2>2. CASE ~(land /\ bus.reg = "ENABLE")
      <3>1. enable = NoEnable
        BY <2>2
      <3> QED
        BY <1>1, <2>2, <3>1
    <2> QED
      BY <2>1, <2>2
  <1> HIDE DEF enable
  <1>9. CASE land
    BY <1>1, <1>2, <1>4, <1>7, <1>8, <1>9 DEF Landing
  <1>10. CASE ~land
    BY <1>7, <1>8, <1>10 DEF Landing
  <1> QED
    BY <1>9, <1>10

\* A cycle in which no write lands.
LEMMA NothingLands ==
  ASSUME IrqInv, Cycle(FALSE)
  PROVE  /\ pend_q' = pend_q \cup pend_set(gpio_sync1_q) /\ pend_q' \subseteq Pins
         /\ edges' = Events \cup edges
         /\ UNCHANGED <<int_type_q, int_en_q, enable_q>>
         /\ int_type_q = Type /\ pend_q = edges => pend_q' = edges'
  <1>1. /\ pend_q' = (pend_q \ {}) \cup pend_set(gpio_sync1_q)
        /\ edges' = Events \cup edges
        /\ UNCHANGED <<int_type_q, int_en_q, enable_q>>
    BY ClockEdge DEF IrqInv, Landing
  <1>2. pend_set(gpio_sync1_q) \subseteq Pins
    BY DEF pend_set
  <1> QED
    BY <1>1, <1>2, SetsEvents DEF IrqInv

\* A request stays up while its line, its sticky bit and the enables do.
LEMMA RequestStays ==
  ASSUME meip(plic_irq), lines \subseteq lines', pend_q \subseteq pend_q',
         UNCHANGED <<int_en_q, enable_q>>
  PROVE  meip(plic_irq)'
  BY DEF meip, plic_irq, gpio_irq

(***************************************************************************)
(* The firmware's steps.  One that finds the bus free:                     *)
(***************************************************************************)
Move(from, to, write) == pc = from /\ pc' = to /\ bus' = write

Moves ==
  \/ Move("dir", "type", Post("DIR", Outputs))
  \/ Move("type", "clear", Post("INT_TYPE", Type))
  \/ Move("clear", "arm", Post("INT_STATUS", Pins))
  \/ Move("arm", "enable", Post("INT_EN", Pins))
  \/ Move("enable", "check", Post("ENABLE", Enabled))
  \/ Move("check", "checked", NoWrite)
  \/ Move("checked", "go", NoWrite)
  \/ Move("go", "main", NoWrite)
  \/ Move("main", "claim", NoWrite) /\ meip(plic_irq)
  \/ Move("claim", "claimed", NoWrite) /\ rdata_q' = sel_id(plic_irq)
  \/ Move("claimed", "ack", NoWrite)
  \/ Move("claimed", "other", NoWrite)
  \/ Move("claimed", "ret", NoWrite)
  \/ Move("ack", "look", Post("INT_STATUS", Pins))
  \/ Move("look", "looked", NoWrite)
  \/ Move("looked", "ret", NoWrite)
  \/ Move("other", "ret", NoWrite)
  \/ Move("ret", "main", NoWrite)
  \/ \E out \in SUBSET Outputs : Move("main", "main", Post("OUT", out))

LEMMA FirmwareMoves ==
  ASSUME bus = NoWrite, Firmware(FALSE) \/ Drive
  PROVE  Moves
  <1>1. CASE Boot
    BY <1>1 DEF Boot, Moves, Move, Goto, Store, Read, Answered, Post
  <1>2. CASE Unmask(FALSE)
    BY <1>2 DEF Unmask, NoAccess, Moves, Move, Goto
  <1>3. CASE TakeInterrupt(FALSE)
    BY <1>3 DEF TakeInterrupt, NoAccess, Moves, Move, Goto
  <1>4. CASE AskClaim
    <2>1. plic_rdata("CLAIM", plic_irq) = sel_id(plic_irq)
      BY DEF plic_rdata
    <2> QED
      BY <1>4, <2>1 DEF AskClaim, Moves, Move, Goto, Read
  <1>5. CASE Claim
    <2>1. pc' \in {"ack", "ret", "other"}
      BY <1>5 DEF Claim
    <2> QED
      BY <1>5, <2>1 DEF Claim, Moves, Move, Answered
  <1>6. CASE Acknowledge
    BY <1>6 DEF Acknowledge, Moves, Move, Goto, Store, Post
  <1>7. CASE Look
    BY <1>7 DEF Look, Moves, Move, Goto, Read, Answered
  <1>8. CASE ServiceOther
    BY <1>8 DEF ServiceOther, Moves, Move, Goto
  <1>9. CASE Drive
    BY <1>9 DEF Drive, Moves, Move, Store, Post
  <1> QED
    BY <1>1, <1>2, <1>3, <1>4, <1>5, <1>6, <1>7, <1>8, <1>9 DEF Firmware

LEMMA LinesStay == Lines /\ pc # "other" => lines \subseteq lines'
  BY DEF Lines

LEMMA MoveInv ==
  ASSUME IrqInv, bus = NoWrite, Moves, Lines, Cycle(FALSE)
  PROVE  IrqInv'
  <1> USE DEF Move
  <1>1. /\ pend_q' \subseteq Pins /\ pend_q \subseteq pend_q'
        /\ UNCHANGED <<int_type_q, int_en_q, enable_q>>
        /\ int_type_q = Type /\ pend_q = edges => pend_q' = edges'
    BY NothingLands
  <1>2. pc' \in Booting \cup Serving
    BY DEF Moves, Booting, Serving
  <1>3. BusInv'
    BY DEF Moves, BusInv, Post
  <1>4. TypeInv'
    BY <1>1, ClearIsWrite DEF Moves, IrqInv, TypeInv
  <1>5. EnableInv'
    BY <1>1, ClearIsWrite DEF Moves, IrqInv, EnableInv, Serving
  <1>6. RequestInv'
    <2> SUFFICES ASSUME pc' = "claim" PROVE meip(plic_irq)'
      BY DEF RequestInv
    <2>1. pc = "main" /\ meip(plic_irq)
      BY DEF Moves
    <2> QED
      BY <1>1, <2>1, LinesStay, RequestStays
  <1>7. PendingExact'
    <2> SUFFICES ASSUME pc' \notin {"dir", "type", "clear"}, ~(pc' = "arm" /\ bus' # NoWrite)
                 PROVE  pend_q' = edges'
      BY DEF PendingExact
    <2>1. pc \notin {"dir", "type", "clear"}
      BY ClearIsWrite DEF Moves
    <2>2. pend_q = edges /\ int_type_q = Type
      BY <2>1 DEF IrqInv, PendingExact, TypeInv
    <2> QED
      BY <1>1, <2>2
  <1>8. ClaimFindsSource'
    <2> SUFFICES ASSUME pc' = "claimed" PROVE rdata_q' \in Enabled
      BY DEF ClaimFindsSource
    <2>1. pc = "claim" /\ rdata_q' = sel_id(plic_irq)
      BY DEF Moves
    <2>2. enable_q = Enabled /\ meip(plic_irq)
      BY <2>1 DEF IrqInv, EnableInv, RequestInv, Serving
    <2> QED
      BY <2>1, <2>2, ClaimsEnabled
  <1> QED
    BY <1>1, <1>2, <1>3, <1>4, <1>5, <1>6, <1>7, <1>8 DEF IrqInv

(***************************************************************************)
(* One that starts no access, while a write may land.                      *)
(***************************************************************************)
LEMMA IdleInv ==
  ASSUME IrqInv, NEW land \in BOOLEAN, Cycle(land), Lines, NoAccess(land),
         UNCHANGED pc \/ (pc = "main" /\ pc' = "claim" /\ meip(plic_irq))
  PROVE  IrqInv'
  <1> DEFINE clear == Landing(land, Post("INT_STATUS", Pins))
  <1>1. /\ land => bus # NoWrite
        /\ pend_q' = (pend_q \ IF clear THEN Pins ELSE {}) \cup pend_set(gpio_sync1_q)
        /\ edges' = Events \cup IF clear THEN {} ELSE edges
        /\ int_type_q' = IF Landing(land, Post("INT_TYPE", Type)) THEN Type ELSE int_type_q
        /\ int_en_q' = IF Landing(land, Post("INT_EN", Pins)) THEN Pins ELSE int_en_q
        /\ enable_q' = IF Landing(land, Post("ENABLE", Enabled)) THEN Enabled ELSE enable_q
    BY ClockEdge DEF IrqInv
  <1>2. bus' = (IF land THEN NoWrite ELSE bus) /\ rdata_q' = rdata_q
    BY DEF NoAccess
  <1>3. pc' \in Booting \cup Serving
    BY DEF IrqInv, Booting, Serving
  <1>4. \A reg, data, reg2, data2 : reg # reg2 => Post(reg, data) # Post(reg2, data2)
    BY DEF Post
  <1>5. BusInv'
    BY <1>2 DEF IrqInv, BusInv, Post
  <1>6. TypeInv'
    <2> SUFFICES ASSUME pc' \notin {"dir", "type"}, ~(pc' = "clear" /\ bus' # NoWrite)
                 PROVE  int_type_q' = Type
      BY DEF TypeInv
    <2>1. CASE pc = "clear" /\ bus # NoWrite
      BY <1>1, <1>2, <2>1 DEF IrqInv, BusInv, Landing
    <2>2. CASE ~(pc = "clear" /\ bus # NoWrite)
      BY <1>1, <2>2 DEF IrqInv, TypeInv
    <2> QED
      BY <2>1, <2>2
  <1>7. EnableInv'
    <2> SUFFICES ASSUME pc' \in Serving \cup {"checked", "go"} \/ (pc' = "check" /\ bus' = NoWrite)
                 PROVE  enable_q' = Enabled
      BY DEF EnableInv
    <2>1. CASE pc = "check" /\ bus # NoWrite
      BY <1>1, <1>2, <2>1 DEF IrqInv, BusInv, Landing, Serving
    <2>2. CASE ~(pc = "check" /\ bus # NoWrite)
      BY <1>1, <2>2 DEF IrqInv, EnableInv, Serving
    <2> QED
      BY <2>1, <2>2
  <1>8. pend_set(gpio_sync1_q) \subseteq Pins
    BY DEF pend_set
  <1>9. RequestInv'
    <2> SUFFICES ASSUME pc' = "claim" PROVE meip(plic_irq)'
      BY DEF RequestInv
    <2>1. pc \in {"main", "claim"} /\ meip(plic_irq)
      BY DEF IrqInv, RequestInv
    <2>2. land => \E out \in SUBSET Outputs : bus = Post("OUT", out)
      BY <1>1, <2>1 DEF IrqInv, BusInv
    <2>3. pend_q' = pend_q \cup pend_set(gpio_sync1_q) /\ UNCHANGED <<int_en_q, enable_q>>
      BY <1>1, <1>4, <2>2 DEF Landing
    <2> QED
      BY <2>1, <2>3, LinesStay, RequestStays
  <1>10. PendingExact'
    <2> SUFFICES ASSUME pc' \notin {"dir", "type", "clear"}, ~(pc' = "arm" /\ bus' # NoWrite)
                 PROVE  pend_q' = edges'
      BY DEF PendingExact
    <2>1. pc \notin {"dir", "type", "clear"} /\ int_type_q = Type
      BY DEF IrqInv, TypeInv
    <2>2. pend_set(gpio_sync1_q) = Events
      BY <2>1, SetsEvents
    <2>3. CASE clear
      BY <1>1, <2>2, <2>3 DEF IrqInv
    <2>4. CASE ~clear
      <3>1. ~(pc = "arm" /\ bus # NoWrite)
        BY <1>2, <2>4 DEF IrqInv, BusInv, Landing
      <3>2. pend_q = edges
        BY <2>1, <3>1 DEF IrqInv, PendingExact
      <3> QED
        BY <1>1, <2>2, <2>4, <3>2
    <2> QED
      BY <2>3, <2>4
  <1>11. ClaimFindsSource'
    BY <1>2 DEF IrqInv, ClaimFindsSource
  <1> QED
    BY <1>1, <1>3, <1>5, <1>6, <1>7, <1>8, <1>9, <1>10, <1>11 DEF IrqInv

(***************************************************************************)
(* The invariant.                                                          *)
(***************************************************************************)
LEMMA IrqInitInv == Init => IrqInv
  BY DEF Init, GpioInit, PlicInit, IrqInv, BusInv, TypeInv, EnableInv, RequestInv, PendingExact,
         ClaimFindsSource, Booting, Serving

\* Where the firmware asks for an answer or services a line the bus is free.
LEMMA BusFree ==
  ASSUME IrqInv, NEW land \in BOOLEAN, Firmware(land), ~TakeInterrupt(land)
  PROVE  bus = NoWrite
  <1>1. CASE Boot
    BY <1>1 DEF Boot, Goto, Store, Read, IrqInv, BusInv
  <1>2. CASE Unmask(land) \/ Claim
    BY <1>2 DEF Unmask, Claim, Goto, IrqInv, BusInv
  <1>3. CASE AskClaim \/ Acknowledge \/ ServiceOther
    BY <1>3 DEF AskClaim, Acknowledge, ServiceOther, Read, Store
  <1>4. CASE Look
    BY <1>4 DEF Look, Goto, Read, IrqInv, BusInv
  <1> QED
    BY <1>1, <1>2, <1>3, <1>4 DEF Firmware

LEMMA IrqStepInv == IrqInv /\ [Next]_vars => IrqInv'
  <1> SUFFICES ASSUME IrqInv, [Next]_vars PROVE IrqInv'
    OBVIOUS
  <1>1. ASSUME NEW land \in BOOLEAN, Firmware(land), Lines, Cycle(land)
        PROVE  IrqInv'
    <2>1. CASE TakeInterrupt(land)
      BY <1>1, <2>1, IdleInv DEF TakeInterrupt, Goto
    <2>2. CASE ~TakeInterrupt(land)
      <3>1. bus = NoWrite
        BY <1>1, <2>2, BusFree
      <3>2. land = FALSE
        BY <1>1, <3>1 DEF Cycle
      <3> QED
        BY <1>1, <3>1, <3>2, FirmwareMoves, MoveInv
    <2> QED
      BY <2>1, <2>2
  <1>2. CASE Drives
    <2>1. bus = NoWrite
      BY <1>2 DEF Drives, Drive, Store
    <2> QED
      BY <1>2, <2>1, FirmwareMoves, MoveInv DEF Drives
  <1>3. ASSUME NEW land \in BOOLEAN, Wait(land), Lines, Cycle(land)
        PROVE  IrqInv'
    BY <1>3, IdleInv DEF Wait
  <1>4. CASE UNCHANGED vars
    BY <1>4 DEF vars, gpioVars, hartVars, syncVars, IrqInv, BusInv, TypeInv, EnableInv, RequestInv,
                PendingExact, ClaimFindsSource, meip, plic_irq, gpio_irq
  <1> QED
    BY <1>1, <1>2, <1>3, <1>4 DEF Next, Runs, Waits

THEOREM IrqInvariant == Spec => []IrqInv
  BY IrqInitInv, IrqStepInv, PTL DEF Spec

\* No event of an armed pin is lost and none is made up: the sticky bits are
\* the events since the last clear landed, though clears and events race.
THEOREM NoEventLost == Spec => []PendingExact
  <1>1. IrqInv => PendingExact
    BY DEF IrqInv
  <1> QED
    BY <1>1, IrqInvariant, PTL

\* An interrupt is never taken for nothing: the source it was taken for can
\* not be withdrawn before it is claimed, so the claim names an enabled one.
THEOREM NoSpuriousClaim == Spec => []ClaimFindsSource
  <1>1. IrqInv => ClaimFindsSource
    BY DEF IrqInv
  <1> QED
    BY <1>1, IrqInvariant, PTL
-----------------------------------------------------------------------------
(***************************************************************************)
(* The timer interrupt.                                                    *)
(***************************************************************************)
TimerStores == {"MTIMECMP_HI", "MTIMECMP_LO", "st_lo", "st_hi", "cancel_hi"}
Within == {"st_lo", "MTIMECMP_LO", "st_hi", "cancel_hi"}
AtStage(ops, S) == ops # <<>> /\ Stage(Head(ops)) \in S

\* What is left of a program that uses the timer through timer.h. After the retry of timer_mtime
\* the low word is the last one read.
MainOps ==
  {Op("lo", 0), Op("wfi", 0)} \cup UNION {{s.ops[i] : i \in 1 .. Len(s.ops)} : s \in IrqScripts}
Running(ops) ==
  /\ ops # <<>> => Stage(ops[Len(ops)]) \notin Opened
  /\ \A i \in 1 .. Len(ops) - 1 :
       \/ Follows(Stage(ops[i]), Stage(ops[i + 1]))
       \/ i = 1 /\ Stage(ops[1]) = "lo" /\ Stage(ops[2]) = "target"
Untimed(ops) == \A i \in 1 .. Len(ops) : Stage(ops[i]) \notin TimerStores

\* What is left of a handler that cancels or re-arms, and of one that does not use the timer.
Cancels ==
  {<<Csr("cancel_hi")>>, <<St("MTIMECMP_LO", ONES), Csr("cancel_hi")>>, timer_cancel,
   <<Csr("irq_seen"), St("MTIMECMP_HI", ONES), St("MTIMECMP_LO", ONES), Csr("cancel_hi")>>}
Arms ==
  {<<Csr("st_hi")>>, <<Csr("st_lo"), Csr("st_hi")>>, <<St("MTIMECMP_HI", ONES), Csr("st_lo"), Csr("st_hi")>>,
   <<Op("target", 2), St("MTIMECMP_HI", ONES), Csr("st_lo"), Csr("st_hi")>>,
   <<Op("hi2", 0), Op("target", 2), St("MTIMECMP_HI", ONES), Csr("st_lo"), Csr("st_hi")>>,
   <<Op("lo", 0), Op("hi2", 0), Op("target", 2), St("MTIMECMP_HI", ONES), Csr("st_lo"), Csr("st_hi")>>,
   timer_arm_us(2),
   <<Op("lo", 0), Op("target", 2), St("MTIMECMP_HI", ONES), Csr("st_lo"), Csr("st_hi")>>,
   <<Op("again", 2)>>, <<Csr("irq_seen"), Op("again", 2)>>}
PlainOps ==
  {Csr("irq_seen"), Csr("claim"), Csr("gie-"), Op("flush", 0), St("I2S_IRQ", "ovr"), St("FFT_IRQ", 1)}
Pending == hops \in Cancels \cup Arms

\* The comparison, its low word and its high word on the way.
Off == mtimecmp.hi = ONES
OtherStore == posted.reg \notin {"MTIMECMP_HI", "MTIMECMP_LO"}
OffGoes == posted.reg = "MTIMECMP_HI" /\ posted.val = ONES
HiGoes == OffGoes \/ (OtherStore /\ Off)
LoGoes(l) ==
  /\ Off /\ ~Matches
  /\ \/ posted.reg = "MTIMECMP_LO" /\ posted.val >= l /\ (posted.age = 1 => ~mtip)
     \/ (OtherStore \/ OffGoes) /\ ~mtip /\ mtimecmp.lo >= l
Silent == Off /\ ~Matches /\ ~mtip /\ "MTI" \notin pmip

\* Nothing fires before the deadline: neither what is on its way nor what the registers say.
OnTime == (Matches \/ mtip \/ "MTI" \in pmip) => mtime >= due
Safe == Off \/ hi_of(due) < mtimecmp.hi \/ (hi_of(due) = mtimecmp.hi /\ lo_of(due) <= mtimecmp.lo)
Armed ==
  \/ OtherStore
  \/ /\ posted.reg = "MTIMECMP_HI" /\ Silent
     /\ posted.val = ONES \/ (posted.val = hi_of(due) /\ mtimecmp.lo >= lo_of(due))

\* By the place of the program, which a handler that leaves the timer alone does not change.
Main ==
  /\ OnTime
  /\ AtStage(prog, {"st_lo", "MTIMECMP_LO"}) => Safe /\ HiGoes
  /\ AtStage(prog, {"st_hi"}) => LoGoes(lo_of(mt["main"].target))
  /\ AtStage(prog, {"cancel_hi"}) => LoGoes(0)
  /\ ~AtStage(prog, Within) => Safe /\ Armed

\* By the place of a handler that cancels or re-arms; one that re-arms has the timer to itself.
Handler ==
  /\ due = NEVER
  /\ AtStage(hops, {"st_lo", "MTIMECMP_LO"}) => HiGoes
  /\ AtStage(hops, {"st_hi"}) => LoGoes(lo_of(mt["isr"].target))
  /\ AtStage(hops, {"cancel_hi"}) => LoGoes(ONES)
  /\ Untimed(prog) \/ hops \in Cancels

Fresh == due = NEVER /\ Silent /\ ~Pending /\ (posted.reg = "MTIMECMP_HI" => posted.val = ONES)
Alone ==
  \/ isr_tab["MTI"] # "tick" /\ ~Rearms(prog)
  \/ Untimed(prog)
  \/ OneCall(prog) /\ Fresh

\* timer_mtime with ops left, its words in r: hi was right at r.at, lo at some time since.
Reading(r, ops, now) ==
  /\ AtStage(ops, {"lo", "hi2"}) => r.hi = hi_of(r.at) /\ r.from <= r.at /\ r.at <= now
  /\ AtStage(ops, {"lo"}) /\ AtStage(Tail(ops), {"target"}) => hi_of(r.from) < r.hi
  /\ AtStage(ops, {"hi2"}) => \E t \in r.at .. now : r.lo = lo_of(t)
  /\ AtStage(ops, {"target"}) => r.hi * WORD + r.lo \in r.from .. now

Times == [hi : Nat, lo : Nat, at : Nat, from : Nat, target : Nat]
TablesOK ==
  /\ isr_tab \in [{"MTI", "MEI"} -> {"none", "once", "tick", "plic_mei_isr"}]
  /\ isr_tab["MTI"] # "plic_mei_isr" /\ isr_tab["MEI"] \in {"none", "plic_mei_isr"}
  /\ DOMAIN plic_tab = {PLIC_SRC_FFT, PLIC_SRC_I2S}
  /\ \A s \in DOMAIN plic_tab : plic_tab[s] \in {"none", "fft_isr", "i2s_isr"}
TickTypeOK ==
  /\ mtime \in Nat /\ due \in Nat /\ pmip \subseteq {"MTI", "MEI"}
  /\ mtimecmp \in [hi : Nat, lo : Nat]
  /\ mt \in [{"main", "isr"} -> Times]
  /\ posted = [reg |-> posted.reg, val |-> posted.val, age |-> posted.age] /\ posted.age \in {0, 1}
  /\ ~OtherStore => posted.val \in Nat /\ (posted.reg = "MTIMECMP_LO" => posted.val < WORD)
  /\ TablesOK
  /\ prog \in Seq(MainOps) /\ Running(prog)
  /\ hops \in Seq(PlainOps) \cup Cancels \cup Arms

TickInv ==
  /\ TickTypeOK
  /\ in_isr => ~pmie
  /\ ~in_isr => hops = <<>>
  /\ Pending => Handler
  /\ ~Pending => Main
  /\ Alone
  /\ Reading(mt["main"], prog, mtime) /\ Reading(mt["isr"], hops, mtime)
  /\ ~spurious

TimeLeft == mtime < NEVER
TimerScripts == \A s \in IrqScripts : UsesTimerLib(s.ops)
-----------------------------------------------------------------------------
(***************************************************************************)
(* Words of the time.                                                      *)
(***************************************************************************)
LEMMA Words ==
  ASSUME NEW t \in Nat
  PROVE  hi_of(t) \in Nat /\ lo_of(t) \in Nat /\ lo_of(t) < WORD /\ t = WORD * hi_of(t) + lo_of(t)
<1> DEFINE w == WORD
<1>1. w \in Nat /\ w > 0
  BY WordAssumption
<1> HIDE DEF w
<1>2. t \div w \in Nat /\ t % w \in Nat /\ t % w < w /\ t = w * (t \div w) + (t % w)
  BY <1>1
<1> QED BY <1>2 DEF w, hi_of, lo_of

\* The word comparisons of the timer order times as numbers.
LEMMA Lexicographic ==
  ASSUME NEW a \in Nat, NEW b \in Nat
  PROVE  /\ hi_of(a) > hi_of(b) => a > b
         /\ hi_of(a) = hi_of(b) /\ lo_of(a) >= lo_of(b) => a >= b
         /\ a <= b => hi_of(a) <= hi_of(b)
<1>1. ASSUME NEW w \in Nat, NEW p \in Nat, NEW q \in Nat, NEW r \in Nat, NEW s \in Nat,
             s < w, p > q
      PROVE  w * p + r > w * q + s
  <2>1. PICK d \in Nat : p = q + 1 + d
    <3>1. p - q - 1 \in Nat /\ p = q + 1 + (p - q - 1)
      BY <1>1
    <3> QED BY <3>1
  <2>2. w * p = w * q + w + w * d
    BY <2>1
  <2>3. w * d \in Nat /\ w * q \in Nat
    OBVIOUS
  <2> QED BY <2>2, <2>3, <1>1
<1>2. WORD \in Nat
  BY WordAssumption
<1>3. hi_of(a) > hi_of(b) => a > b
  <2>1. /\ hi_of(a) \in Nat /\ lo_of(a) \in Nat /\ a = WORD * hi_of(a) + lo_of(a)
        /\ hi_of(b) \in Nat /\ lo_of(b) \in Nat /\ lo_of(b) < WORD /\ b = WORD * hi_of(b) + lo_of(b)
    BY Words
  <2>2. hi_of(a) > hi_of(b) => WORD * hi_of(a) + lo_of(a) > WORD * hi_of(b) + lo_of(b)
    BY <1>1, <1>2, <2>1
  <2> QED BY <2>1, <2>2
<1>4. hi_of(b) < hi_of(a) => b < a
  BY <1>3
<1>5. a <= b => hi_of(a) <= hi_of(b)
  BY <1>4, Words
<1>6. hi_of(a) = hi_of(b) /\ lo_of(a) >= lo_of(b) => a >= b
  <2> DEFINE m == WORD * hi_of(b)
  <2>1. m \in Nat
    BY <1>2, Words
  <2>2. hi_of(a) = hi_of(b) => a = m + lo_of(a) /\ b = m + lo_of(b)
    BY Words
  <2> HIDE DEF m
  <2> QED BY <2>1, <2>2, Words
<1> QED BY <1>3, <1>5, <1>6

LEMMA Never ==
  /\ ONES \in Nat /\ NEVER \in Nat
  /\ \A t \in Nat : t < NEVER => hi_of(t) < ONES
  /\ hi_of(NEVER) = ONES /\ lo_of(NEVER) = 0
  /\ \A t \in Nat : lo_of(t) <= ONES
<1>1. WORD \in Nat /\ ONES \in Nat /\ WORD = ONES + 1 /\ WORD > 1
  BY WordAssumption DEF ONES
<1>2. NEVER \in Nat /\ NEVER = WORD * ONES
  BY <1>1 DEF NEVER
<1>3. hi_of(NEVER) = ONES /\ lo_of(NEVER) = 0
  <2>1. NEVER = WORD * hi_of(NEVER) + lo_of(NEVER) /\ hi_of(NEVER) \in Nat /\ lo_of(NEVER) \in Nat /\ lo_of(NEVER) < WORD
    BY <1>2, Words
  <2>2. ASSUME NEW w \in Nat, NEW p \in Nat, NEW q \in Nat, NEW r \in Nat, r < w, w * p = w * q + r
        PROVE  p = q /\ r = 0
    <3>1. CASE p > q
      <4>1. PICK d \in Nat : p = q + 1 + d
        <5>1. p - q - 1 \in Nat /\ p = q + 1 + (p - q - 1)
          BY <3>1
        <5> QED BY <5>1
      <4>2. w * p = w * q + w + w * d /\ w * d \in Nat /\ w * q \in Nat
        BY <4>1
      <4> QED BY <4>2, <2>2
    <3>2. CASE p < q
      <4>1. PICK d \in Nat : q = p + 1 + d
        <5>1. q - p - 1 \in Nat /\ q = p + 1 + (q - p - 1)
          BY <3>2
        <5> QED BY <5>1
      <4>2. w * q = w * p + w + w * d /\ w * d \in Nat /\ w * p \in Nat
        BY <4>1
      <4> QED BY <4>2, <2>2
    <3>3. CASE p = q
      <4>1. w * p \in Nat
        OBVIOUS
      <4> QED BY <3>3, <4>1, <2>2
    <3> QED BY <3>1, <3>2, <3>3
  <2>3. WORD * ONES = WORD * hi_of(NEVER) + lo_of(NEVER)
    BY <2>1, <1>2
  <2> QED BY <1>1, <2>1, <2>2, <2>3
<1>4. ASSUME NEW t \in Nat, t < NEVER
      PROVE  hi_of(t) < ONES
  <2>1. ~(hi_of(t) > ONES) /\ hi_of(t) \in Nat /\ lo_of(t) \in Nat
    BY <1>2, <1>3, <1>4, Lexicographic, Words
  <2>2. hi_of(t) # ONES
    BY <1>2, <1>3, <1>4, <2>1, Lexicographic
  <2> QED BY <1>1, <2>1, <2>2
<1>5. ASSUME NEW t \in Nat
      PROVE  lo_of(t) <= ONES
  BY <1>1, Words
<1> QED BY <1>1, <1>2, <1>3, <1>4, <1>5

-----------------------------------------------------------------------------
(***************************************************************************)
(* The timer's part of a cycle.                                            *)
(***************************************************************************)
TimerSees(land, advance) ==
  /\ land => posted # None
  /\ posted.age = 1 => land
  /\ TimerTick(advance, IF land THEN posted ELSE None)
  /\ pmip' = (IF mtip THEN {"MTI"} ELSE {}) \cup (IF plic_lines # {} THEN {"MEI"} ELSE {})

\* No store to the timer is posted.
NoPost(land) ==
  \/ posted = None /\ OtherStore' /\ posted'.age \in {0, 1}
     /\ posted' = [reg |-> posted'.reg, val |-> posted'.val, age |-> posted'.age]
  \/ posted # None /\ land /\ posted' = None
  \/ posted # None /\ ~land /\ posted' = [posted EXCEPT !.age = 1]

LEMMA TimerMoves ==
  ASSUME TickTypeOK, TimeLeft, NEW land \in BOOLEAN, NEW advance \in BOOLEAN, TimerSees(land, advance)
  PROVE  /\ mtime' \in Nat /\ mtime' >= mtime
         /\ mtimecmp' \in [hi : Nat, lo : Nat]
         /\ mtimecmp'.hi = IF land /\ posted.reg = "MTIMECMP_HI" THEN posted.val ELSE mtimecmp.hi
         /\ mtimecmp'.lo = IF land /\ posted.reg = "MTIMECMP_LO" THEN posted.val ELSE mtimecmp.lo
         /\ mtip' <=> Matches
         /\ "MTI" \in pmip' <=> mtip
         /\ Off => ~Matches'
         /\ Safe /\ Matches' => mtime >= due
         /\ pmip' \subseteq {"MTI", "MEI"}
<1>1. mtime' \in Nat /\ mtime' >= mtime
  BY DEF TimerSees, TimerTick, TickTypeOK
<1>2. mtimecmp \in [hi : Nat, lo : Nat] /\ mtime \in Nat /\ due \in Nat
  BY DEF TickTypeOK
<1>3. /\ mtimecmp' \in [hi : Nat, lo : Nat]
      /\ mtimecmp'.hi = IF land /\ posted.reg = "MTIMECMP_HI" THEN posted.val ELSE mtimecmp.hi
      /\ mtimecmp'.lo = IF land /\ posted.reg = "MTIMECMP_LO" THEN posted.val ELSE mtimecmp.lo
  <2> DEFINE write == IF land THEN posted ELSE None
  <2>1. mtimecmp' = CASE write.reg = "MTIMECMP_HI" -> [mtimecmp EXCEPT !.hi = write.val]
                      [] write.reg = "MTIMECMP_LO" -> [mtimecmp EXCEPT !.lo = write.val]
                      [] OTHER -> mtimecmp
    BY DEF TimerSees, TimerTick
  <2>2. ~land => write.reg = "none"
    BY DEF None
  <2>3. write.reg \in {"MTIMECMP_HI", "MTIMECMP_LO"} => land /\ write = posted /\ posted.val \in Nat
    BY <2>2 DEF TickTypeOK, OtherStore
  <2>4. CASE write.reg = "MTIMECMP_HI"
    BY <2>1, <2>3, <2>4, <1>2
  <2>5. CASE write.reg = "MTIMECMP_LO"
    BY <2>1, <2>3, <2>5, <1>2
  <2>6. CASE write.reg \notin {"MTIMECMP_HI", "MTIMECMP_LO"}
    <3>1. mtimecmp' = mtimecmp
      BY <2>1, <2>6
    <3> QED BY <3>1, <2>6, <1>2
  <2> QED BY <2>4, <2>5, <2>6
<1>4. mtip' <=> Matches
  BY Zenon DEF TimerSees, TimerTick, Matches
<1>5. "MTI" \in pmip' <=> mtip
  <2>1. pmip' = (IF mtip THEN {"MTI"} ELSE {}) \cup (IF plic_lines # {} THEN {"MEI"} ELSE {})
    BY DEF TimerSees
  <2> HIDE DEF plic_lines
  <2> QED BY <2>1
<1>6. Matches' <=> hi_of(mtime) > mtimecmp.hi \/ (hi_of(mtime) = mtimecmp.hi /\ lo_of(mtime) >= mtimecmp.lo)
  <2>1. ge' = [hi |-> hi_of(mtime) > mtimecmp.hi, eq |-> hi_of(mtime) = mtimecmp.hi, lo |-> lo_of(mtime) >= mtimecmp.lo]
    BY DEF TimerSees, TimerTick
  <2> QED BY <2>1, Zenon DEF Matches
<1>7. Off => ~Matches'
  <2>1. hi_of(mtime) \in Nat /\ hi_of(mtime) < ONES /\ ONES \in Nat
    BY <1>2, Never, Words DEF TimeLeft
  <2> QED BY <1>6, <2>1 DEF Off
<1>8. Safe /\ Matches' => mtime >= due
  <2>1. hi_of(mtime) \in Nat /\ lo_of(mtime) \in Nat /\ hi_of(due) \in Nat /\ lo_of(due) \in Nat
    BY <1>2, Words
  <2>2. mtimecmp.hi \in Nat /\ mtimecmp.lo \in Nat
    BY <1>2
  <2>3. Safe /\ Matches' => hi_of(mtime) > hi_of(due) \/ (hi_of(mtime) = hi_of(due) /\ lo_of(mtime) >= lo_of(due))
    BY <1>6, <1>7, <2>1, <2>2 DEF Safe
  <2> QED BY <1>2, <2>3, Lexicographic
<1>9. pmip' \subseteq {"MTI", "MEI"}
  <2>1. pmip' = (IF mtip THEN {"MTI"} ELSE {}) \cup (IF plic_lines # {} THEN {"MEI"} ELSE {})
    BY DEF TimerSees
  <2> HIDE DEF plic_lines
  <2> QED BY <2>1
<1> QED BY <1>1, <1>3, <1>4, <1>5, <1>7, <1>8, <1>9

\* A cycle that posts nothing to the timer keeps each of the conditions, for the same deadline.
LEMMA Keeps ==
  ASSUME TickTypeOK, TimeLeft, NEW land \in BOOLEAN, NEW advance \in BOOLEAN, TimerSees(land, advance),
         NoPost(land), due' = due
  PROVE  /\ OnTime /\ Safe => OnTime'
         /\ OnTime /\ Off => OnTime'
         /\ Safe /\ HiGoes => Safe' /\ HiGoes'
         /\ HiGoes => HiGoes'
         /\ \A l \in Nat : LoGoes(l) => LoGoes(l)'
         /\ Safe /\ Armed => Safe' /\ Armed'
         /\ Silent /\ (posted.reg = "MTIMECMP_HI" => posted.val = ONES) =>
              Silent' /\ (posted'.reg = "MTIMECMP_HI" => posted'.val = ONES)
         /\ posted' = [reg |-> posted'.reg, val |-> posted'.val, age |-> posted'.age] /\ posted'.age \in {0, 1}
         /\ ~OtherStore' => posted'.val \in Nat /\ (posted'.reg = "MTIMECMP_LO" => posted'.val < WORD)
<1>1. /\ mtime' >= mtime /\ mtime' \in Nat /\ mtime \in Nat /\ due \in Nat
      /\ mtimecmp'.hi = IF land /\ posted.reg = "MTIMECMP_HI" THEN posted.val ELSE mtimecmp.hi
      /\ mtimecmp'.lo = IF land /\ posted.reg = "MTIMECMP_LO" THEN posted.val ELSE mtimecmp.lo
      /\ mtip' <=> Matches
      /\ "MTI" \in pmip' <=> mtip
      /\ Off => ~Matches'
      /\ Safe /\ Matches' => mtime >= due
  BY TimerMoves DEF TickTypeOK
<1>2. /\ mtimecmp.hi \in Nat /\ mtimecmp.lo \in Nat /\ posted.age \in {0, 1}
      /\ ~OtherStore => posted.val \in Nat /\ (posted.reg = "MTIMECMP_LO" => posted.val < WORD)
  BY DEF TickTypeOK
<1>3. \/ OtherStore /\ OtherStore'
      \/ land /\ posted' = None /\ OtherStore'
      \/ ~land /\ posted'.reg = posted.reg /\ posted'.val = posted.val /\ posted'.age = 1 /\ posted.age = 0
  <2>1. None.reg = "none"
    BY DEF None
  <2>2. CASE posted = None /\ OtherStore'
    BY <2>1, <2>2 DEF OtherStore
  <2>3. CASE land /\ posted' = None
    BY <2>1, <2>3 DEF OtherStore
  <2>4. CASE ~land /\ posted' = [posted EXCEPT !.age = 1]
    <3>1. posted = [reg |-> posted.reg, val |-> posted.val, age |-> posted.age]
      BY DEF TickTypeOK
    <3>2. posted.age # 1
      BY <2>4 DEF TimerSees
    <3> QED BY <2>4, <3>1, <3>2, <1>2
  <2> QED BY <2>2, <2>3, <2>4 DEF NoPost
<1>4. OnTime /\ Safe => OnTime'
  <2>1. SUFFICES ASSUME OnTime, Safe, (Matches \/ mtip \/ "MTI" \in pmip)'
                 PROVE  mtime' >= due
    BY DEF OnTime
  <2>2. Matches' \/ Matches \/ mtip
    BY <2>1, <1>1, Zenon
  <2>3. mtime >= due
    BY <2>1, <2>2, <1>1 DEF OnTime
  <2> QED BY <2>3, <1>1
<1>5. OnTime /\ Off => OnTime'
  BY <1>4 DEF Safe
<1>6. HiGoes => HiGoes'
  BY <1>1, <1>3 DEF HiGoes, OffGoes, OtherStore, Off, None
<1>7. Off /\ (OtherStore \/ OffGoes \/ posted.reg = "MTIMECMP_LO") => Off'
  BY <1>1 DEF Off, OffGoes, OtherStore
<1>8. Safe /\ HiGoes => Safe'
  <2>1. CASE Off /\ HiGoes
    BY <2>1, <1>7 DEF HiGoes, Safe
  <2>2. CASE OffGoes
    BY <2>2, <1>1 DEF OffGoes, Off, Safe
  <2> QED BY <2>1, <2>2 DEF HiGoes
<1>9. ASSUME NEW l \in Nat, LoGoes(l)
      PROVE  LoGoes(l)'
  <2>1. Off /\ ~Matches /\ Off' /\ ~Matches' /\ ~mtip'
    BY <1>9, <1>1, <1>7 DEF LoGoes
  <2>2. CASE posted.reg = "MTIMECMP_LO" /\ posted.val >= l
    <3>1. mtimecmp'.lo >= l \/ ~land
      BY <2>2, <1>1
    <3>2. land => OtherStore'
      BY <2>2, <1>3 DEF OtherStore
    <3>3. ~land => posted'.reg = "MTIMECMP_LO" /\ posted'.val >= l
      BY <2>2, <1>3 DEF OtherStore
    <3> QED BY <2>1, <3>1, <3>2, <3>3 DEF LoGoes
  <2>3. CASE (OtherStore \/ OffGoes) /\ mtimecmp.lo >= l
    <3>1. mtimecmp'.lo >= l
      BY <2>3, <1>1 DEF OtherStore, OffGoes
    <3>2. OtherStore' \/ OffGoes'
      BY <2>3, <1>3 DEF OtherStore, OffGoes
    <3> QED BY <2>1, <3>1, <3>2 DEF LoGoes
  <2> QED BY <1>9, <2>2, <2>3 DEF LoGoes
<1>10. Silent /\ posted.reg = "MTIMECMP_HI" /\ ~land => Silent'
  BY <1>1 DEF Silent, Off
<1>11. Silent /\ Off' => Silent'
  BY <1>1 DEF Silent
<1>12. Safe /\ Armed => Safe' /\ Armed'
  <2>1. CASE OtherStore /\ Safe
    <3>1. mtimecmp'.hi = mtimecmp.hi /\ mtimecmp'.lo = mtimecmp.lo
      BY <2>1, <1>1 DEF OtherStore
    <3>2. OtherStore'
      BY <2>1, <1>3 DEF OtherStore
    <3> QED BY <2>1, <3>1, <3>2 DEF Safe, Off, Armed
  <2>2. CASE posted.reg = "MTIMECMP_HI" /\ Silent
             /\ (posted.val = ONES \/ (posted.val = hi_of(due) /\ mtimecmp.lo >= lo_of(due)))
    <3>1. CASE ~land
      <4>1. mtimecmp'.hi = mtimecmp.hi /\ mtimecmp'.lo = mtimecmp.lo
        BY <3>1, <1>1
      <4>2. posted'.reg = "MTIMECMP_HI" /\ posted'.val = posted.val
        BY <2>2, <3>1, <1>3 DEF OtherStore
      <4>3. Silent' /\ Off'
        BY <2>2, <3>1, <1>10 DEF Silent
      <4> QED BY <2>2, <4>1, <4>2, <4>3 DEF Safe, Armed
    <3>2. CASE land
      <4>1. mtimecmp'.hi = posted.val /\ mtimecmp'.lo = mtimecmp.lo
        BY <2>2, <3>2, <1>1
      <4>2. OtherStore'
        BY <2>2, <3>2, <1>3 DEF OtherStore
      <4>3. Safe'
        BY <2>2, <4>1 DEF Safe, Off
      <4> QED BY <4>2, <4>3 DEF Armed
    <3> QED BY <3>1, <3>2
  <2> QED BY <2>1, <2>2 DEF Armed
<1>13. Silent /\ (posted.reg = "MTIMECMP_HI" => posted.val = ONES) =>
         Silent' /\ (posted'.reg = "MTIMECMP_HI" => posted'.val = ONES)
  <2>1. SUFFICES ASSUME Silent, posted.reg = "MTIMECMP_HI" => posted.val = ONES
                 PROVE  Silent' /\ (posted'.reg = "MTIMECMP_HI" => posted'.val = ONES)
    OBVIOUS
  <2>2. Off'
    BY <2>1, <1>1 DEF Silent, Off
  <2>3. Silent'
    BY <2>1, <2>2, <1>11
  <2>4. posted'.reg = "MTIMECMP_HI" => posted'.val = ONES
    BY <2>1, <1>3 DEF OtherStore
  <2> QED BY <2>3, <2>4
<1>14. posted' = [reg |-> posted'.reg, val |-> posted'.val, age |-> posted'.age] /\ posted'.age \in {0, 1}
  <2>1. posted = [reg |-> posted.reg, val |-> posted.val, age |-> posted.age]
    BY DEF TickTypeOK
  <2>2. CASE posted' = None
    BY <2>2 DEF None
  <2>3. CASE posted' = [posted EXCEPT !.age = 1]
    BY <2>1, <2>3
  <2> QED BY <2>2, <2>3 DEF NoPost
<1>15. ~OtherStore' => posted'.val \in Nat /\ (posted'.reg = "MTIMECMP_LO" => posted'.val < WORD)
  BY <1>2, <1>3 DEF OtherStore
<1> QED BY <1>4, <1>5, <1>6, <1>8, <1>9, <1>12, <1>13, <1>14, <1>15

\* The three stores of an arming or a cancelling call, each posted to a free bus.
LEMMA TimerPosts ==
  ASSUME TickTypeOK, TimeLeft, NEW land \in BOOLEAN, NEW advance \in BOOLEAN, TimerSees(land, advance),
         posted = None
  PROVE  /\ OnTime /\ Safe /\ due' = due => OnTime' /\ Safe'
         /\ Silent => Silent'
         /\ HiGoes => Off /\ Off' /\ Safe'
         /\ HiGoes => (\A l \in Nat : posted'.reg = "MTIMECMP_LO" /\ posted'.val >= l /\ posted'.age = 0 => LoGoes(l)')
         /\ \A l \in Nat : LoGoes(l) => Silent' /\ mtimecmp'.lo >= l
         /\ Silent' => OnTime' /\ Safe'
<1>1. /\ mtime' >= mtime /\ mtime' \in Nat /\ mtime \in Nat /\ due \in Nat
      /\ mtimecmp'.hi = mtimecmp.hi /\ mtimecmp'.lo = mtimecmp.lo
      /\ mtip' <=> Matches
      /\ "MTI" \in pmip' <=> mtip
      /\ Off => ~Matches'
      /\ Safe /\ Matches' => mtime >= due
  <2>1. ~land
    BY DEF TimerSees
  <2> QED BY <2>1, TimerMoves DEF TickTypeOK
<1>2. posted.reg = "none" /\ OtherStore
  BY DEF None, OtherStore
<1>3. OnTime /\ Safe /\ due' = due => OnTime'
  <2>1. SUFFICES ASSUME OnTime, Safe, due' = due, (Matches \/ mtip \/ "MTI" \in pmip)'
                 PROVE  mtime' >= due
    BY DEF OnTime
  <2>2. Matches' \/ Matches \/ mtip
    BY <2>1, <1>1, Zenon
  <2>3. mtime >= due
    BY <2>1, <2>2, <1>1 DEF OnTime
  <2> QED BY <2>3, <1>1
<1>4. Safe /\ due' = due => Safe'
  BY <1>1 DEF Safe, Off
<1>5. Silent => Silent'
  BY <1>1 DEF Silent, Off
<1>6. HiGoes => Off /\ Off' /\ Safe'
  BY <1>1, <1>2 DEF HiGoes, OffGoes, Off, Safe
<1>7. ASSUME HiGoes, NEW l \in Nat, posted'.reg = "MTIMECMP_LO", posted'.val >= l, posted'.age = 0
      PROVE  LoGoes(l)'
  BY <1>1, <1>6, <1>7 DEF LoGoes
<1>8. ASSUME NEW l \in Nat, LoGoes(l)
      PROVE  Silent' /\ mtimecmp'.lo >= l
  <2>1. Off /\ ~Matches /\ ~mtip /\ mtimecmp.lo >= l
    BY <1>2, <1>8 DEF LoGoes
  <2> QED BY <1>1, <2>1 DEF Silent, Off
<1>9. Silent' => OnTime' /\ Safe'
  BY DEF Silent, OnTime, Safe
<1> QED BY <1>3, <1>4, <1>5, <1>6, <1>7, <1>8, <1>9

-----------------------------------------------------------------------------
(***************************************************************************)
(* What is left of a program and of a handler.                             *)
(***************************************************************************)
LEMMA Peel ==
  ASSUME NEW S, NEW s \in Seq(S), s # <<>>
  PROVE  /\ Len(s) \in Nat /\ Len(s) > 0 /\ Head(s) = s[1] /\ Head(s) \in S
         /\ Tail(s) \in Seq(S) /\ Len(Tail(s)) = Len(s) - 1
         /\ \A i \in 1 .. Len(s) - 1 : Tail(s)[i] = s[i + 1]
         /\ \A i \in 1 .. Len(s) : s[i] \in S
         /\ Tail(s) # <<>> <=> Len(s) > 1
<1>1. Len(s) \in Nat /\ Len(s) > 0 /\ Head(s) = s[1]
  OBVIOUS
<1>2. \A i \in 1 .. Len(s) : s[i] \in S
  OBVIOUS
<1>3. Tail(s) \in Seq(S) /\ Len(Tail(s)) = Len(s) - 1
  OBVIOUS
<1>4. \A i \in 1 .. Len(s) - 1 : Tail(s)[i] = s[i + 1]
  BY <1>1
<1>5. Tail(s) # <<>> <=> Len(s) > 1
  <2>1. ASSUME NEW r \in Seq(S)
        PROVE  r # <<>> <=> Len(r) > 0
    OBVIOUS
  <2>2. Tail(s) # <<>> <=> Len(Tail(s)) > 0
    BY <1>3, <2>1
  <2> QED BY <1>1, <1>3, <2>2
<1> QED BY <1>1, <1>2, <1>3, <1>4, <1>5

LEMMA Push ==
  ASSUME NEW S, NEW s \in Seq(S), NEW o \in S
  PROVE  /\ <<o>> \o s \in Seq(S) /\ <<o>> \o s # <<>>
         /\ Len(<<o>> \o s) = Len(s) + 1 /\ Len(s) \in Nat
         /\ (<<o>> \o s)[1] = o /\ Head(<<o>> \o s) = o /\ Tail(<<o>> \o s) = s
         /\ \A i \in 2 .. Len(s) + 1 : (<<o>> \o s)[i] = s[i - 1]
<1>1. <<o>> \in Seq(S) /\ Len(<<o>>) = 1
  OBVIOUS
<1>2. <<o>> \o s \in Seq(S) /\ Len(<<o>> \o s) = Len(s) + 1 /\ Len(s) \in Nat
  BY <1>1
<1>3. \A i \in 2 .. Len(s) + 1 : (<<o>> \o s)[i] = s[i - 1]
  BY <1>1
<1>4. (<<o>> \o s)[1] = o /\ <<o>> \o s # <<>>
  BY <1>1, <1>2
<1>5. Head(<<o>> \o s) = o
  BY <1>2, <1>4
<1>6. Tail(<<o>> \o s) = s
  <2>1. Tail(<<o>> \o s) \in Seq(S) /\ Len(Tail(<<o>> \o s)) = Len(s)
    BY <1>2, <1>4, Peel
  <2>2. \A i \in 1 .. Len(s) : Tail(<<o>> \o s)[i] = s[i]
    BY <1>2, <1>3, <1>4, Peel
  <2> QED BY <2>1, <2>2
<1> QED BY <1>2, <1>3, <1>4, <1>5, <1>6

\* What the place of a program, or of a handler, says of the accesses to come.
Leads(ops) ==
  /\ AtStage(ops, {"hi"}) => AtStage(Tail(ops), {"lo"}) /\ AtStage(Tail(Tail(ops)), {"hi2"})
  /\ AtStage(ops, {"lo"}) => AtStage(Tail(ops), {"hi2", "target"})
  /\ AtStage(ops, {"hi2"}) => AtStage(Tail(ops), {"target"})
  /\ AtStage(ops, {"MTIMECMP_HI"}) => AtStage(Tail(ops), {"st_lo", "MTIMECMP_LO"})
  /\ AtStage(ops, {"MTIMECMP_LO"}) => AtStage(Tail(ops), {"cancel_hi"})
  /\ AtStage(ops, {"st_lo"}) => AtStage(Tail(ops), {"st_hi"})
  /\ ops # <<>> /\ Stage(Head(ops)) \notin Opened => ~AtStage(Tail(ops), Inner)

LEMMA RunningLeads ==
  ASSUME NEW S, NEW ops \in Seq(S), Running(ops)
  PROVE  Leads(ops)
<1>1. CASE ops = <<>>
  BY <1>1 DEF Leads, AtStage
<1>2. CASE ops # <<>>
  <2> DEFINE f == Stage(ops[1])
             g == Stage(ops[2])
  <2>1. /\ Len(ops) \in Nat /\ Len(ops) > 0 /\ Head(ops) = ops[1] /\ Tail(ops) \in Seq(S)
        /\ Len(Tail(ops)) = Len(ops) - 1
        /\ \A i \in 1 .. Len(ops) - 1 : Tail(ops)[i] = ops[i + 1]
        /\ Tail(ops) # <<>> <=> Len(ops) > 1
    BY <1>2, Peel
  <2>2. f \in Opened => Len(ops) > 1
    <3>1. Stage(ops[Len(ops)]) \notin Opened
      BY <1>2 DEF Running
    <3>2. Len(ops) = 1 => f = Stage(ops[Len(ops)])
      OBVIOUS
    <3> HIDE DEF f
    <3> QED BY <2>1, <3>1, <3>2
  <2>3. Len(ops) > 1 => Head(Tail(ops)) = ops[2]
    <3>1. Tail(ops)[1] = ops[1 + 1] \/ ~(Len(ops) > 1)
      BY <2>1
    <3> QED BY <2>1, <3>1, Peel
  <2>4. Len(ops) > 1 => Follows(f, g) \/ (f = "lo" /\ g = "target")
    <3>1. Len(ops) > 1 => 1 \in 1 .. Len(ops) - 1
      BY <2>1
    <3> QED BY <3>1 DEF Running
  <2>5. f = "hi" => Len(ops) > 1 /\ g = "lo"
    BY <2>2, <2>4 DEF Follows, Opened
  <2>6. f = "lo" => Len(ops) > 1 /\ g \in {"hi2", "target"}
    BY <2>2, <2>4 DEF Follows, Opened
  <2>7. f = "hi2" => Len(ops) > 1 /\ g = "target"
    BY <2>2, <2>4 DEF Follows, Opened
  <2>8. f = "MTIMECMP_HI" => Len(ops) > 1 /\ g \in {"st_lo", "MTIMECMP_LO"}
    BY <2>2, <2>4 DEF Follows, Opened
  <2>9. f = "MTIMECMP_LO" => Len(ops) > 1 /\ g = "cancel_hi"
    BY <2>2, <2>4 DEF Follows, Opened
  <2>10. f = "st_lo" => Len(ops) > 1 /\ g = "st_hi"
    BY <2>2, <2>4 DEF Follows, Opened
  <2>11. f \notin Opened /\ Len(ops) > 1 => g \notin Inner
    BY <2>4 DEF Follows, Opened, Inner
  <2>12. f = "hi" => AtStage(Tail(Tail(ops)), {"hi2"})
    <3>1. SUFFICES ASSUME f = "hi"
                   PROVE  AtStage(Tail(Tail(ops)), {"hi2"})
      OBVIOUS
    <3>2. Len(ops) > 1 /\ g = "lo"
      BY <2>5, <3>1
    <3>3. Len(ops) # 2
      <4>1. Stage(ops[Len(ops)]) # "lo"
        BY <1>2 DEF Running, Opened
      <4> QED BY <3>2, <4>1
    <3>4. Len(ops) > 2 /\ 2 \in 1 .. Len(ops) - 1
      BY <2>1, <3>2, <3>3
    <3>5. Stage(ops[3]) = "hi2"
      <4>1. Follows(g, Stage(ops[2 + 1]))
        BY <3>4 DEF Running
      <4>2. 2 + 1 = 3
        OBVIOUS
      <4> QED BY <3>2, <4>1, <4>2 DEF Follows
    <3>6. Tail(ops) # <<>> /\ Len(Tail(ops)) > 1 /\ Tail(ops)[2] = ops[3]
      <4>1. Tail(ops)[2] = ops[2 + 1]
        BY <2>1, <3>4
      <4> QED BY <2>1, <3>4, <4>1
    <3>7. Tail(Tail(ops)) # <<>> /\ Tail(Tail(ops))[1] = Tail(ops)[1 + 1] /\ Tail(Tail(ops)) \in Seq(S)
      <4> DEFINE r == Tail(ops)
      <4>1. r \in Seq(S) /\ r # <<>> /\ Len(r) > 1
        BY <2>1, <3>6
      <4> HIDE DEF r
      <4>2. Tail(r) \in Seq(S) /\ Tail(r) # <<>> /\ (\A i \in 1 .. Len(r) - 1 : Tail(r)[i] = r[i + 1]) /\ Len(r) \in Nat
        BY <4>1, Peel
      <4>3. 1 \in 1 .. Len(r) - 1
        BY <4>1, <4>2
      <4> QED BY <4>2, <4>3 DEF r
    <3>8. Head(Tail(Tail(ops))) = ops[3]
      BY <3>6, <3>7, Peel
    <3> QED BY <3>5, <3>7, <3>8 DEF AtStage
  <2> HIDE DEF f, g
  <2>13. AtStage(ops, {"hi"}) => AtStage(Tail(ops), {"lo"})
    BY <2>1, <2>3, <2>5 DEF AtStage, f, g
  <2>14. AtStage(ops, {"lo"}) => AtStage(Tail(ops), {"hi2", "target"})
    BY <2>1, <2>3, <2>6 DEF AtStage, f, g
  <2>15. AtStage(ops, {"hi2"}) => AtStage(Tail(ops), {"target"})
    BY <2>1, <2>3, <2>7 DEF AtStage, f, g
  <2>16. AtStage(ops, {"MTIMECMP_HI"}) => AtStage(Tail(ops), {"st_lo", "MTIMECMP_LO"})
    BY <2>1, <2>3, <2>8 DEF AtStage, f, g
  <2>17. AtStage(ops, {"MTIMECMP_LO"}) => AtStage(Tail(ops), {"cancel_hi"})
    BY <2>1, <2>3, <2>9 DEF AtStage, f, g
  <2>18. AtStage(ops, {"st_lo"}) => AtStage(Tail(ops), {"st_hi"})
    BY <2>1, <2>3, <2>10 DEF AtStage, f, g
  <2>19. Stage(Head(ops)) \notin Opened => ~AtStage(Tail(ops), Inner)
    BY <2>1, <2>3, <2>11 DEF AtStage, f, g
  <2>20. AtStage(ops, {"hi"}) => AtStage(Tail(Tail(ops)), {"hi2"})
    BY <2>1, <2>12 DEF AtStage, f
  <2> QED BY <2>13, <2>14, <2>15, <2>16, <2>17, <2>18, <2>19, <2>20 DEF Leads
<1> QED BY <1>1, <1>2

\* The steps of a program: an access less, the low word again, one more wait.
LEMMA ProgramTail ==
  ASSUME NEW S, NEW ops \in Seq(S), ops # <<>>, Running(ops)
  PROVE  /\ Running(Tail(ops)) /\ Tail(ops) \in Seq(S)
         /\ Untimed(ops) => Untimed(Tail(ops))
         /\ OneCall(ops) => OneCall(Tail(ops))
         /\ OneCall(ops) /\ Stage(Head(ops)) \in {"st_hi", "cancel_hi"} => Untimed(Tail(ops))
         /\ ~Rearms(ops) => ~Rearms(Tail(ops)) /\ ~(Head(ops).k = "attach" /\ Head(ops).v = "tick")
<1>1. /\ Len(ops) \in Nat /\ Len(ops) > 0 /\ Head(ops) = ops[1] /\ Tail(ops) \in Seq(S)
      /\ Len(Tail(ops)) = Len(ops) - 1
      /\ \A i \in 1 .. Len(ops) - 1 : Tail(ops)[i] = ops[i + 1]
      /\ Tail(ops) # <<>> <=> Len(ops) > 1
  BY Peel
<1>2. \A i \in 1 .. Len(ops) - 1 : i + 1 \in 1 .. Len(ops) /\ i + 1 # 1
  BY <1>1
<1>3. 1 \in 1 .. Len(ops)
  BY <1>1
<1>4. Running(Tail(ops))
  <2>1. Tail(ops) # <<>> => Tail(ops)[Len(Tail(ops))] = ops[Len(ops)]
    <3>1. Tail(ops) # <<>> => Len(ops) - 1 \in 1 .. Len(ops) - 1 /\ (Len(ops) - 1) + 1 = Len(ops)
      BY <1>1
    <3> QED BY <1>1, <3>1
  <2>2. Tail(ops) # <<>> => Stage(Tail(ops)[Len(Tail(ops))]) \notin Opened
    BY <2>1 DEF Running
  <2>3. ASSUME NEW i \in 1 .. Len(Tail(ops)) - 1
        PROVE  Follows(Stage(Tail(ops)[i]), Stage(Tail(ops)[i + 1]))
    <3>1. i + 1 \in 1 .. Len(ops) - 1 /\ i \in 1 .. Len(ops) - 1 /\ i + 1 # 1
      BY <1>1, <2>3
    <3>2. Follows(Stage(ops[i + 1]), Stage(ops[(i + 1) + 1]))
      BY <3>1 DEF Running
    <3>3. Tail(ops)[i] = ops[i + 1] /\ Tail(ops)[i + 1] = ops[(i + 1) + 1]
      BY <1>1, <3>1
    <3> QED BY <3>2, <3>3
  <2> QED BY <2>2, <2>3 DEF Running
<1>5. Untimed(ops) => Untimed(Tail(ops))
  BY <1>1, <1>2 DEF Untimed
<1>6. OneCall(ops) => OneCall(Tail(ops))
  <2>1. SUFFICES ASSUME OneCall(ops), NEW i \in 1 .. Len(Tail(ops)), NEW j \in 1 .. Len(Tail(ops)), i < j,
                        Stage(Tail(ops)[i]) \in {"st_hi", "cancel_hi"}
                 PROVE  Stage(Tail(ops)[j]) \notin {"MTIMECMP_HI", "st_hi", "cancel_hi"}
    BY DEF OneCall
  <2>2. i + 1 \in 1 .. Len(ops) /\ j + 1 \in 1 .. Len(ops) /\ i + 1 < j + 1
    BY <1>1, <2>1
  <2>3. Tail(ops)[i] = ops[i + 1] /\ Tail(ops)[j] = ops[j + 1]
    BY <1>1
  <2> QED BY <2>1, <2>2, <2>3 DEF OneCall
<1>7. OneCall(ops) /\ Stage(Head(ops)) \in {"st_hi", "cancel_hi"} => Untimed(Tail(ops))
  <2>1. SUFFICES ASSUME OneCall(ops), Stage(Head(ops)) \in {"st_hi", "cancel_hi"}, NEW i \in 1 .. Len(Tail(ops))
                 PROVE  Stage(Tail(ops)[i]) \notin TimerStores
    BY DEF Untimed
  <2>2. i + 1 \in 1 .. Len(ops) /\ 1 < i + 1 /\ Tail(ops)[i] = ops[i + 1] /\ i \in 1 .. Len(ops) - 1
    BY <1>1, <2>1
  <2>3. \A j \in 2 .. Len(ops) : Stage(ops[j]) \notin {"MTIMECMP_HI", "st_hi", "cancel_hi"}
    <3>1. \A j \in 2 .. Len(ops) : j \in 1 .. Len(ops) /\ 1 < j
      BY <1>1
    <3> QED BY <1>1, <1>3, <2>1, <3>1 DEF OneCall
  <2>4. Stage(ops[i]) # "MTIMECMP_HI"
    <3>1. i = 1 => Stage(ops[i]) # "MTIMECMP_HI"
      BY <1>1, <2>1
    <3>2. i # 1 => i \in 2 .. Len(ops)
      BY <1>1, <2>2
    <3> QED BY <2>3, <3>1, <3>2
  <2>5. Follows(Stage(ops[i]), Stage(ops[i + 1])) \/ Stage(ops[i + 1]) = "target"
    <3>1. i = 1 => i + 1 = 2
      OBVIOUS
    <3> QED BY <2>2, <3>1 DEF Running
  <2>6. Stage(ops[i]) = "st_lo" => i # 1
    BY <1>1, <2>1
  <2>7. Stage(ops[i + 1]) \notin {"st_lo", "MTIMECMP_LO"}
    BY <2>4, <2>5 DEF Follows, Inner
  <2>8. i + 1 \in 2 .. Len(ops)
    BY <1>1, <2>2
  <2> QED BY <2>2, <2>3, <2>7, <2>8 DEF TimerStores
<1>8. ~Rearms(ops) => ~Rearms(Tail(ops)) /\ ~(Head(ops).k = "attach" /\ Head(ops).v = "tick")
  BY <1>1, <1>2, <1>3 DEF Rearms
<1> QED BY <1>1, <1>4, <1>5, <1>6, <1>7, <1>8

LEMMA ProgramPush ==
  ASSUME NEW S, NEW ops \in Seq(S), ops # <<>>, Running(ops), NEW o \in S,
         Stage(Head(ops)) # "lo", o.k # "attach",
         \/ Stage(o) = "lo" /\ Stage(Head(ops)) = "target"
         \/ Stage(o) = "wfi" /\ Stage(Head(ops)) \notin Inner
  PROVE  /\ Running(<<o>> \o ops) /\ <<o>> \o ops \in Seq(S)
         /\ Untimed(ops) => Untimed(<<o>> \o ops)
         /\ OneCall(ops) => OneCall(<<o>> \o ops)
         /\ ~Rearms(ops) => ~Rearms(<<o>> \o ops)
<1> DEFINE r == <<o>> \o ops
<1>1. /\ r \in Seq(S) /\ r # <<>> /\ Len(r) = Len(ops) + 1 /\ Len(ops) \in Nat /\ Len(ops) > 0 /\ r[1] = o
      /\ \A i \in 2 .. Len(ops) + 1 : r[i] = ops[i - 1]
      /\ Head(ops) = ops[1]
  BY Push, Peel
<1> HIDE DEF r
<1>2. \A i \in 1 .. Len(r) : i = 1 \/ (i - 1 \in 1 .. Len(ops) /\ r[i] = ops[i - 1])
  BY <1>1
<1>3. Running(r)
  <2>1. r[Len(r)] = ops[Len(ops)]
    <3>1. Len(r) \in 2 .. Len(ops) + 1 /\ Len(r) - 1 = Len(ops)
      BY <1>1
    <3> QED BY <1>1, <3>1
  <2>2. Stage(r[Len(r)]) \notin Opened
    BY <2>1 DEF Running
  <2>3. Follows(Stage(r[1]), Stage(r[2])) \/ (Stage(r[1]) = "lo" /\ Stage(r[2]) = "target")
    <3>1. r[2] = ops[1]
      <4>1. 2 \in 2 .. Len(ops) + 1 /\ 2 - 1 = 1
        BY <1>1
      <4> QED BY <1>1, <4>1
    <3> QED BY <1>1, <3>1 DEF Follows
  <2>4. ASSUME NEW i \in 1 .. Len(r) - 1, i # 1
        PROVE  Follows(Stage(r[i]), Stage(r[i + 1]))
    <3>1. i - 1 \in 1 .. Len(ops) - 1 /\ i \in 2 .. Len(ops) + 1 /\ i + 1 \in 2 .. Len(ops) + 1
          /\ (i + 1) - 1 = i /\ (i - 1) + 1 = i
      BY <1>1, <2>4
    <3>2. r[i] = ops[i - 1] /\ r[i + 1] = ops[i]
      BY <1>1, <3>1
    <3>3. Follows(Stage(ops[i - 1]), Stage(ops[(i - 1) + 1])) \/ Stage(ops[1]) = "lo"
      BY <3>1 DEF Running
    <3> QED BY <1>1, <3>1, <3>2, <3>3
  <2>5. \A i \in 1 .. Len(r) - 1 :
          Follows(Stage(r[i]), Stage(r[i + 1])) \/ (i = 1 /\ Stage(r[1]) = "lo" /\ Stage(r[2]) = "target")
    <3>1. 1 + 1 = 2
      OBVIOUS
    <3> QED BY <2>3, <2>4, <3>1
  <2> QED BY <2>2, <2>5 DEF Running
<1>4. Untimed(ops) => Untimed(r)
  <2>1. Stage(o) \notin TimerStores
    BY DEF TimerStores
  <2> QED BY <1>1, <1>2, <2>1 DEF Untimed
<1>5. OneCall(ops) => OneCall(r)
  <2>1. SUFFICES ASSUME OneCall(ops), NEW i \in 1 .. Len(r), NEW j \in 1 .. Len(r), i < j,
                        Stage(r[i]) \in {"st_hi", "cancel_hi"}
                 PROVE  Stage(r[j]) \notin {"MTIMECMP_HI", "st_hi", "cancel_hi"}
    BY DEF OneCall
  <2>2. i # 1
    BY <1>1, <2>1
  <2>3. j # 1
    BY <2>1, <2>2
  <2>4. i - 1 \in 1 .. Len(ops) /\ j - 1 \in 1 .. Len(ops) /\ i - 1 < j - 1 /\ r[i] = ops[i - 1] /\ r[j] = ops[j - 1]
    BY <1>2, <2>1, <2>2, <2>3
  <2> QED BY <2>1, <2>4 DEF OneCall
<1>6. ~Rearms(ops) => ~Rearms(r)
  BY <1>1, <1>2 DEF Rearms
<1> QED BY <1>1, <1>3, <1>4, <1>5, <1>6 DEF r

-----------------------------------------------------------------------------
\* Sequences written out.
LEMMA Heads ==
  /\ \A a : <<a>> # <<>> /\ Head(<<a>>) = a /\ Tail(<<a>>) = <<>>
  /\ \A a, b : <<a, b>> # <<>> /\ Head(<<a, b>>) = a /\ Tail(<<a, b>>) = <<b>>
  /\ \A a, b, c : <<a, b, c>> # <<>> /\ Head(<<a, b, c>>) = a /\ Tail(<<a, b, c>>) = <<b, c>>
  /\ \A a, b, c, d : <<a, b, c, d>> # <<>> /\ Head(<<a, b, c, d>>) = a /\ Tail(<<a, b, c, d>>) = <<b, c, d>>
  /\ \A a, b, c, d, e : <<a, b, c, d, e>> # <<>> /\ Head(<<a, b, c, d, e>>) = a /\ Tail(<<a, b, c, d, e>>) = <<b, c, d, e>>
  /\ \A a, b, c, d, e, f : <<a, b, c, d, e, f>> # <<>> /\ Head(<<a, b, c, d, e, f>>) = a /\ Tail(<<a, b, c, d, e, f>>) = <<b, c, d, e, f>>
  /\ \A a, b, c, d, e, f, g : <<a, b, c, d, e, f, g>> # <<>> /\ Head(<<a, b, c, d, e, f, g>>) = a /\ Tail(<<a, b, c, d, e, f, g>>) = <<b, c, d, e, f, g>>
<1>1. \A a : <<a>> # <<>> /\ Head(<<a>>) = a /\ Tail(<<a>>) = <<>>
  OBVIOUS
<1>2. \A a, b : <<a, b>> # <<>> /\ Head(<<a, b>>) = a /\ Tail(<<a, b>>) = <<b>>
  OBVIOUS
<1>3. \A a, b, c : <<a, b, c>> # <<>> /\ Head(<<a, b, c>>) = a /\ Tail(<<a, b, c>>) = <<b, c>>
  OBVIOUS
<1>4. \A a, b, c, d : <<a, b, c, d>> # <<>> /\ Head(<<a, b, c, d>>) = a /\ Tail(<<a, b, c, d>>) = <<b, c, d>>
  OBVIOUS
<1>5. \A a, b, c, d, e : <<a, b, c, d, e>> # <<>> /\ Head(<<a, b, c, d, e>>) = a /\ Tail(<<a, b, c, d, e>>) = <<b, c, d, e>>
  OBVIOUS
<1>6. \A a, b, c, d, e, f : <<a, b, c, d, e, f>> # <<>> /\ Head(<<a, b, c, d, e, f>>) = a /\ Tail(<<a, b, c, d, e, f>>) = <<b, c, d, e, f>>
  OBVIOUS
<1>7. \A a, b, c, d, e, f, g : <<a, b, c, d, e, f, g>> # <<>> /\ Head(<<a, b, c, d, e, f, g>>) = a /\ Tail(<<a, b, c, d, e, f, g>>) = <<b, c, d, e, f, g>>
  OBVIOUS
<1> QED BY <1>1, <1>2, <1>3, <1>4, <1>5, <1>6, <1>7

LEMMA Joined ==
  ASSUME NEW S, NEW s \in Seq(S), NEW t \in Seq(S), NEW q \in Seq(S), Len(q) = Len(s) + Len(t),
         \A i \in 1 .. Len(q) : q[i] = IF i <= Len(s) THEN s[i] ELSE t[i - Len(s)]
  PROVE  s \o t = q
<1> DEFINE r == s \o t
<1>1. r \in Seq(S) /\ Len(r) = Len(q)
  OBVIOUS
<1>2. \A i \in 1 .. Len(q) : r[i] = q[i]
  OBVIOUS
<1> HIDE DEF r
<1>3. r = q
  BY <1>1, <1>2
<1> QED BY <1>3 DEF r

LEMMA OneThree ==
  ASSUME NEW a, NEW b, NEW c, NEW d
  PROVE  <<a>> \o <<b, c, d>> = <<a, b, c, d>>
<1> DEFINE S == {a, b, c, d}
           s == <<a>>
           t == <<b, c, d>>
           q == <<a, b, c, d>>
<1>1. s \in Seq(S) /\ Len(s) = 1 /\ s[1] = a
  OBVIOUS
<1>2. t \in Seq(S) /\ Len(t) = 3 /\ t[1] = b /\ t[2] = c /\ t[3] = d
  OBVIOUS
<1>3. q \in Seq(S) /\ Len(q) = 4 /\ q[1] = a /\ q[2] = b /\ q[3] = c /\ q[4] = d
  OBVIOUS
<1> HIDE DEF S, s, t, q
<1>4. \A i \in 1 .. 4 : q[i] = IF i <= 1 THEN s[i] ELSE t[i - 1]
  <2>1. q[1] = s[1] /\ q[2] = t[1] /\ q[3] = t[2] /\ q[4] = t[3]
    BY <1>1, <1>2, <1>3
  <2>2. \A i \in 1 .. 4 : i = 1 \/ i = 2 \/ i = 3 \/ i = 4
    OBVIOUS
  <2> QED BY <2>1, <2>2
<1>5. Len(q) = Len(s) + Len(t) /\ \A i \in 1 .. Len(q) : q[i] = IF i <= Len(s) THEN s[i] ELSE t[i - Len(s)]
  BY <1>1, <1>2, <1>3, <1>4
<1>6. s \o t = q
  BY <1>1, <1>2, <1>3, <1>5, Joined
<1> QED BY <1>6 DEF s, t, q

LEMMA OneFour ==
  ASSUME NEW a, NEW b, NEW c, NEW d, NEW e
  PROVE  <<a>> \o <<b, c, d, e>> = <<a, b, c, d, e>>
<1> DEFINE S == {a, b, c, d, e}
           s == <<a>>
           t == <<b, c, d, e>>
           q == <<a, b, c, d, e>>
<1>1. s \in Seq(S) /\ Len(s) = 1 /\ s[1] = a
  OBVIOUS
<1>2. t \in Seq(S) /\ Len(t) = 4 /\ t[1] = b /\ t[2] = c /\ t[3] = d /\ t[4] = e
  OBVIOUS
<1>3. q \in Seq(S) /\ Len(q) = 5 /\ q[1] = a /\ q[2] = b /\ q[3] = c /\ q[4] = d /\ q[5] = e
  OBVIOUS
<1> HIDE DEF S, s, t, q
<1>4. \A i \in 1 .. 5 : q[i] = IF i <= 1 THEN s[i] ELSE t[i - 1]
  <2>1. q[1] = s[1] /\ q[2] = t[1] /\ q[3] = t[2] /\ q[4] = t[3] /\ q[5] = t[4]
    BY <1>1, <1>2, <1>3
  <2>2. \A i \in 1 .. 5 : i = 1 \/ i = 2 \/ i = 3 \/ i = 4 \/ i = 5
    OBVIOUS
  <2> QED BY <2>1, <2>2
<1>5. Len(q) = Len(s) + Len(t) /\ \A i \in 1 .. Len(q) : q[i] = IF i <= Len(s) THEN s[i] ELSE t[i - Len(s)]
  BY <1>1, <1>2, <1>3, <1>4
<1>6. s \o t = q
  BY <1>1, <1>2, <1>3, <1>5, Joined
<1> QED BY <1>6 DEF s, t, q

LEMMA ThreeFour ==
  ASSUME NEW a, NEW b, NEW c, NEW d, NEW e, NEW f, NEW g
  PROVE  <<a, b, c>> \o <<d, e, f, g>> = <<a, b, c, d, e, f, g>>
<1> DEFINE S == {a, b, c, d, e, f, g}
           s == <<a, b, c>>
           t == <<d, e, f, g>>
           q == <<a, b, c, d, e, f, g>>
<1>1. s \in Seq(S) /\ Len(s) = 3 /\ s[1] = a /\ s[2] = b /\ s[3] = c
  OBVIOUS
<1>2. t \in Seq(S) /\ Len(t) = 4 /\ t[1] = d /\ t[2] = e /\ t[3] = f /\ t[4] = g
  OBVIOUS
<1>3. q \in Seq(S) /\ Len(q) = 7 /\ q[1] = a /\ q[2] = b /\ q[3] = c /\ q[4] = d /\ q[5] = e /\ q[6] = f /\ q[7] = g
  OBVIOUS
<1> HIDE DEF S, s, t, q
<1>4. \A i \in 1 .. 7 : q[i] = IF i <= 3 THEN s[i] ELSE t[i - 3]
  <2>1. q[1] = s[1] /\ q[2] = s[2] /\ q[3] = s[3] /\ q[4] = t[1] /\ q[5] = t[2] /\ q[6] = t[3] /\ q[7] = t[4]
    BY <1>1, <1>2, <1>3
  <2>2. \A i \in 1 .. 7 : i = 1 \/ i = 2 \/ i = 3 \/ i = 4 \/ i = 5 \/ i = 6 \/ i = 7
    OBVIOUS
  <2> QED BY <2>1, <2>2
<1>5. Len(q) = Len(s) + Len(t) /\ \A i \in 1 .. Len(q) : q[i] = IF i <= Len(s) THEN s[i] ELSE t[i - Len(s)]
  BY <1>1, <1>2, <1>3, <1>4
<1>6. s \o t = q
  BY <1>1, <1>2, <1>3, <1>5, Joined
<1> QED BY <1>6 DEF s, t, q

LEMMA Calls ==
  /\ timer_arm_us(2) = <<Op("hi", 0), Op("lo", 0), Op("hi2", 0), Op("target", 2), St("MTIMECMP_HI", ONES),
                         Csr("st_lo"), Csr("st_hi")>>
  /\ <<Csr("irq_seen")>> \o timer_cancel =
       <<Csr("irq_seen"), St("MTIMECMP_HI", ONES), St("MTIMECMP_LO", ONES), Csr("cancel_hi")>>
  /\ timer_arm_us(2) \o <<>> = timer_arm_us(2) /\ timer_cancel \o <<>> = timer_cancel
<1>1. timer_arm_us(2) = <<Op("hi", 0), Op("lo", 0), Op("hi2", 0), Op("target", 2), St("MTIMECMP_HI", ONES),
                         Csr("st_lo"), Csr("st_hi")>>
  BY ThreeFour DEF timer_arm_us, timer_mtime
<1>2. <<Csr("irq_seen")>> \o timer_cancel =
       <<Csr("irq_seen"), St("MTIMECMP_HI", ONES), St("MTIMECMP_LO", ONES), Csr("cancel_hi")>>
  BY OneThree DEF timer_cancel
<1>3. ASSUME NEW S, NEW s \in Seq(S)
      PROVE  s \o <<>> = s
  OBVIOUS
<1>4. timer_cancel \in Seq({St("MTIMECMP_HI", ONES), St("MTIMECMP_LO", ONES), Csr("cancel_hi")})
  BY DEF timer_cancel
<1>5. timer_cancel \o <<>> = timer_cancel
  BY <1>3, <1>4
<1>6. \A a, b, c, d, e, f, g : <<a, b, c, d, e, f, g>> \o <<>> = <<a, b, c, d, e, f, g>>
  <2>1. ASSUME NEW a, NEW b, NEW c, NEW d, NEW e, NEW f, NEW g
        PROVE  <<a, b, c, d, e, f, g>> \in Seq({a, b, c, d, e, f, g})
    OBVIOUS
  <2> QED BY <1>3, <2>1
<1>7. timer_arm_us(2) \o <<>> = timer_arm_us(2)
  BY <1>1, <1>6
<1> QED BY <1>1, <1>2, <1>5, <1>7

\* The stages of the accesses of the handlers that use the timer.
LEMMA Stages ==
  /\ \A k \in {"lo", "hi", "hi2", "irq_seen", "st_lo", "st_hi", "cancel_hi"} : Csr(k) = Op(k, 0) /\ Stage(Op(k, 0)) = k
  /\ \A k \in {"target", "again"} : Stage(Op(k, 2)) = k
  /\ \A r \in {"MTIMECMP_HI", "MTIMECMP_LO"} : Stage(St(r, ONES)) = r /\ St(r, ONES).k = "st" /\ St(r, ONES).reg = r
                                               /\ St(r, ONES).v = ONES
<1>1. \A k, v : Op(k, v).k = k
  BY DEF Op
<1>2. \A r, v : St(r, v).k = "st" /\ St(r, v).reg = r /\ St(r, v).v = v
  BY DEF St
<1>3. \A k : Csr(k) = Op(k, 0)
  BY DEF Csr
<1> QED BY <1>1, <1>2, <1>3 DEF Stage

LEMMA CancelHeads ==
  \A c \in Cancels :
    /\ Stage(Head(c)) \in {"irq_seen", "MTIMECMP_HI", "MTIMECMP_LO", "cancel_hi"}
    /\ Stage(Head(c)) = "MTIMECMP_HI" => Stage(Head(Tail(c))) # "st_lo"
    /\ Stage(Head(c)) = "irq_seen" => Stage(Head(Tail(c))) # "again"
<1>1. timer_cancel = <<St("MTIMECMP_HI", ONES), St("MTIMECMP_LO", ONES), Csr("cancel_hi")>>
  BY DEF timer_cancel
<1> HIDE DEF timer_cancel
<1>2. Stage(Head(timer_cancel)) = "MTIMECMP_HI" /\ Stage(Head(Tail(timer_cancel))) = "MTIMECMP_LO"
  BY <1>1, Heads, Stages
<1>3. Stage(Head(<<Csr("cancel_hi")>>)) = "cancel_hi"
  BY Heads, Stages
<1>4. Stage(Head(<<St("MTIMECMP_LO", ONES), Csr("cancel_hi")>>)) = "MTIMECMP_LO"
  BY Heads, Stages
<1> DEFINE c == <<Csr("irq_seen"), St("MTIMECMP_HI", ONES), St("MTIMECMP_LO", ONES), Csr("cancel_hi")>>
<1>5. Stage(Head(c)) = "irq_seen" /\ Stage(Head(Tail(c))) = "MTIMECMP_HI"
  BY Heads, Stages
<1> HIDE DEF c
<1> QED BY <1>2, <1>3, <1>4, <1>5 DEF Cancels, c

LEMMA HandlerTail ==
  ASSUME NEW ops \in Cancels \cup Arms
  PROVE  /\ ops # <<>>
         /\ \/ Head(ops) = Csr("irq_seen") /\ (Tail(ops) = <<Op("again", 2)>> \/ Tail(ops) = timer_cancel)
            \/ Head(ops) = Op("again", 2) /\ Tail(ops) = <<>> /\ ops \in Arms
            \/ Head(ops) \in {Op("hi", 0), Op("lo", 0), Op("hi2", 0), Op("target", 2)} /\ Tail(ops) \in Arms
            \/ Head(ops) = St("MTIMECMP_HI", ONES) /\ Tail(ops) \in Arms
            \/ Head(ops) = St("MTIMECMP_HI", ONES) /\ ops \in Cancels /\ Tail(ops) \in Cancels
            \/ Head(ops) = St("MTIMECMP_LO", ONES) /\ ops \in Cancels /\ Tail(ops) \in Cancels
            \/ Head(ops) = Csr("st_lo") /\ Tail(ops) \in Arms
            \/ Head(ops) = Csr("st_hi") /\ Tail(ops) = <<>> /\ ops = <<Csr("st_hi")>>
            \/ Head(ops) = Csr("cancel_hi") /\ Tail(ops) = <<>>
         /\ Leads(ops)
         /\ AtStage(ops, {"hi2"}) =>
              <<Op("lo", 0)>> \o Tail(ops) \in Arms /\ AtStage(<<Op("lo", 0)>> \o Tail(ops), {"lo"})
         /\ ops \in Cancels => Stage(Head(ops)) \in {"irq_seen", "MTIMECMP_HI", "MTIMECMP_LO", "cancel_hi"}
         /\ ops \in Cancels => Tail(ops) \in Cancels \cup {<<>>}
<1>1. CASE ops = <<Csr("cancel_hi")>>
  <2>1. ops = <<Csr("cancel_hi")>>
    BY <1>1
  <2>2. /\ Head(ops) = Csr("cancel_hi")
        /\ Stage(Head(ops)) = "cancel_hi"
        /\ Tail(ops) = <<>>
        /\ ops # <<>>
    BY <2>1, Heads, Stages
  <2>3. Leads(ops)
    BY <2>2 DEF Leads, AtStage, Inner, Opened
  <2>4. Tail(ops) \in Cancels \cup {<<>>}
    BY <2>2 DEF Cancels, timer_cancel
  <2> QED BY <1>1, <2>2, <2>3, <2>4 DEF Cancels, AtStage
<1>2. CASE ops = <<St("MTIMECMP_LO", ONES), Csr("cancel_hi")>>
  <2>1. ops = <<St("MTIMECMP_LO", ONES), Csr("cancel_hi")>>
    BY <1>2
  <2>2. /\ Head(ops) = St("MTIMECMP_LO", ONES)
        /\ Stage(Head(ops)) = "MTIMECMP_LO"
        /\ Tail(ops) = <<Csr("cancel_hi")>>
        /\ ops # <<>>
        /\ Tail(ops) # <<>>
        /\ Stage(Head(Tail(ops))) = "cancel_hi"
    BY <2>1, Heads, Stages
  <2>3. Leads(ops)
    BY <2>2 DEF Leads, AtStage, Inner, Opened
  <2>4. Tail(ops) \in Cancels \cup {<<>>}
    BY <2>2 DEF Cancels, timer_cancel
  <2> QED BY <1>2, <2>2, <2>3, <2>4 DEF Cancels, AtStage
<1>3. CASE ops = timer_cancel
  <2>1. ops = <<St("MTIMECMP_HI", ONES), St("MTIMECMP_LO", ONES), Csr("cancel_hi")>>
    BY <1>3 DEF timer_cancel
  <2>2. /\ Head(ops) = St("MTIMECMP_HI", ONES)
        /\ Stage(Head(ops)) = "MTIMECMP_HI"
        /\ Tail(ops) = <<St("MTIMECMP_LO", ONES), Csr("cancel_hi")>>
        /\ ops # <<>>
        /\ Tail(ops) # <<>>
        /\ Stage(Head(Tail(ops))) = "MTIMECMP_LO"
        /\ Tail(Tail(ops)) # <<>>
        /\ Stage(Head(Tail(Tail(ops)))) = "cancel_hi"
    BY <2>1, Heads, Stages
  <2>3. Leads(ops)
    BY <2>2 DEF Leads, AtStage, Inner, Opened
  <2>4. Tail(ops) \in Cancels \cup {<<>>}
    BY <2>2 DEF Cancels, timer_cancel
  <2> QED BY <1>3, <2>2, <2>3, <2>4 DEF Cancels, AtStage
<1>4. CASE ops = <<Csr("irq_seen"), St("MTIMECMP_HI", ONES), St("MTIMECMP_LO", ONES), Csr("cancel_hi")>>
  <2>1. ops = <<Csr("irq_seen"), St("MTIMECMP_HI", ONES), St("MTIMECMP_LO", ONES), Csr("cancel_hi")>>
    BY <1>4
  <2>2. /\ Head(ops) = Csr("irq_seen")
        /\ Stage(Head(ops)) = "irq_seen"
        /\ Tail(ops) = <<St("MTIMECMP_HI", ONES), St("MTIMECMP_LO", ONES), Csr("cancel_hi")>>
        /\ ops # <<>>
        /\ Tail(ops) # <<>>
        /\ Stage(Head(Tail(ops))) = "MTIMECMP_HI"
        /\ Tail(Tail(ops)) # <<>>
        /\ Stage(Head(Tail(Tail(ops)))) = "MTIMECMP_LO"
    BY <2>1, Heads, Stages
  <2>3. Leads(ops)
    BY <2>2 DEF Leads, AtStage, Inner, Opened
  <2>4. Tail(ops) \in Cancels \cup {<<>>}
    BY <2>2 DEF Cancels, timer_cancel
  <2> QED BY <1>4, <2>2, <2>3, <2>4 DEF Cancels, AtStage, timer_cancel
<1>5. CASE ops = <<Csr("st_hi")>>
  <2>1. ops = <<Csr("st_hi")>>
    BY <1>5
  <2>2. /\ Head(ops) = Csr("st_hi")
        /\ Stage(Head(ops)) = "st_hi"
        /\ Tail(ops) = <<>>
        /\ ops # <<>>
    BY <2>1, Heads, Stages
  <2>3. Leads(ops)
    BY <2>2 DEF Leads, AtStage, Inner, Opened
  <2>4. ops \in Arms /\ ops \notin Cancels
    <3>1. \A c \in Cancels : Stage(Head(c)) \in {"irq_seen", "MTIMECMP_HI", "MTIMECMP_LO", "cancel_hi"}
      BY CancelHeads
    <3> QED BY <1>5, <2>2, <3>1 DEF Arms
  <2> QED BY <2>1, <2>2, <2>3, <2>4 DEF AtStage
<1>6. CASE ops = <<Csr("st_lo"), Csr("st_hi")>>
  <2>1. ops = <<Csr("st_lo"), Csr("st_hi")>>
    BY <1>6
  <2>2. /\ Head(ops) = Csr("st_lo")
        /\ Stage(Head(ops)) = "st_lo"
        /\ Tail(ops) = <<Csr("st_hi")>>
        /\ ops # <<>>
        /\ Tail(ops) # <<>>
        /\ Stage(Head(Tail(ops))) = "st_hi"
    BY <2>1, Heads, Stages
  <2>3. Leads(ops)
    BY <2>2 DEF Leads, AtStage, Inner, Opened
  <2>4. ops \in Arms /\ ops \notin Cancels
    <3>1. \A c \in Cancels : Stage(Head(c)) \in {"irq_seen", "MTIMECMP_HI", "MTIMECMP_LO", "cancel_hi"}
      BY CancelHeads
    <3> QED BY <1>6, <2>2, <3>1 DEF Arms
  <2> QED BY <2>2, <2>3, <2>4 DEF Arms, AtStage
<1>7. CASE ops = <<St("MTIMECMP_HI", ONES), Csr("st_lo"), Csr("st_hi")>>
  <2>1. ops = <<St("MTIMECMP_HI", ONES), Csr("st_lo"), Csr("st_hi")>>
    BY <1>7
  <2>2. /\ Head(ops) = St("MTIMECMP_HI", ONES)
        /\ Stage(Head(ops)) = "MTIMECMP_HI"
        /\ Tail(ops) = <<Csr("st_lo"), Csr("st_hi")>>
        /\ ops # <<>>
        /\ Tail(ops) # <<>>
        /\ Stage(Head(Tail(ops))) = "st_lo"
        /\ Tail(Tail(ops)) # <<>>
        /\ Stage(Head(Tail(Tail(ops)))) = "st_hi"
    BY <2>1, Heads, Stages
  <2>3. Leads(ops)
    BY <2>2 DEF Leads, AtStage, Inner, Opened
  <2>4. ops \in Arms /\ ops \notin Cancels
    <3>1. \A c \in Cancels : Stage(Head(c)) = "MTIMECMP_HI" => Stage(Head(Tail(c))) # "st_lo"
      BY CancelHeads
    <3> QED BY <1>7, <2>2, <3>1 DEF Arms
  <2> QED BY <2>2, <2>3, <2>4 DEF Arms, AtStage
<1>8. CASE ops = <<Op("target", 2), St("MTIMECMP_HI", ONES), Csr("st_lo"), Csr("st_hi")>>
  <2>1. ops = <<Op("target", 2), St("MTIMECMP_HI", ONES), Csr("st_lo"), Csr("st_hi")>>
    BY <1>8
  <2>2. /\ Head(ops) = Op("target", 2)
        /\ Stage(Head(ops)) = "target"
        /\ Tail(ops) = <<St("MTIMECMP_HI", ONES), Csr("st_lo"), Csr("st_hi")>>
        /\ ops # <<>>
        /\ Tail(ops) # <<>>
        /\ Stage(Head(Tail(ops))) = "MTIMECMP_HI"
        /\ Tail(Tail(ops)) # <<>>
        /\ Stage(Head(Tail(Tail(ops)))) = "st_lo"
    BY <2>1, Heads, Stages
  <2>3. Leads(ops)
    BY <2>2 DEF Leads, AtStage, Inner, Opened
  <2>4. ops \in Arms /\ ops \notin Cancels
    <3>1. \A c \in Cancels : Stage(Head(c)) \in {"irq_seen", "MTIMECMP_HI", "MTIMECMP_LO", "cancel_hi"}
      BY CancelHeads
    <3> QED BY <1>8, <2>2, <3>1 DEF Arms
  <2> QED BY <2>2, <2>3, <2>4 DEF Arms, AtStage
<1>9. CASE ops = <<Op("hi2", 0), Op("target", 2), St("MTIMECMP_HI", ONES), Csr("st_lo"), Csr("st_hi")>>
  <2>1. ops = <<Op("hi2", 0), Op("target", 2), St("MTIMECMP_HI", ONES), Csr("st_lo"), Csr("st_hi")>>
    BY <1>9
  <2>2. /\ Head(ops) = Op("hi2", 0)
        /\ Stage(Head(ops)) = "hi2"
        /\ Tail(ops) = <<Op("target", 2), St("MTIMECMP_HI", ONES), Csr("st_lo"), Csr("st_hi")>>
        /\ ops # <<>>
        /\ Tail(ops) # <<>>
        /\ Stage(Head(Tail(ops))) = "target"
        /\ Tail(Tail(ops)) # <<>>
        /\ Stage(Head(Tail(Tail(ops)))) = "MTIMECMP_HI"
    BY <2>1, Heads, Stages
  <2>3. Leads(ops)
    BY <2>2 DEF Leads, AtStage, Inner, Opened
  <2>4. ops \in Arms /\ ops \notin Cancels
    <3>1. \A c \in Cancels : Stage(Head(c)) \in {"irq_seen", "MTIMECMP_HI", "MTIMECMP_LO", "cancel_hi"}
      BY CancelHeads
    <3> QED BY <1>9, <2>2, <3>1 DEF Arms
  <2>5. <<Op("lo", 0)>> \o Tail(ops) \in Arms /\ AtStage(<<Op("lo", 0)>> \o Tail(ops), {"lo"})
    <3>1. \A a, b, c, d, e : <<a>> \o <<b, c, d, e>> = <<a, b, c, d, e>>
      BY OneFour
    <3>2. <<Op("lo", 0)>> \o Tail(ops) = <<Op("lo", 0), Op("target", 2), St("MTIMECMP_HI", ONES), Csr("st_lo"), Csr("st_hi")>>
      BY <2>2, <3>1
    <3> QED BY <3>2, Heads, Stages DEF Arms, AtStage
  <2> QED BY <2>2, <2>3, <2>4, <2>5 DEF Arms
<1>10. CASE ops = <<Op("lo", 0), Op("hi2", 0), Op("target", 2), St("MTIMECMP_HI", ONES), Csr("st_lo"), Csr("st_hi")>>
  <2>1. ops = <<Op("lo", 0), Op("hi2", 0), Op("target", 2), St("MTIMECMP_HI", ONES), Csr("st_lo"), Csr("st_hi")>>
    BY <1>10
  <2>2. /\ Head(ops) = Op("lo", 0)
        /\ Stage(Head(ops)) = "lo"
        /\ Tail(ops) = <<Op("hi2", 0), Op("target", 2), St("MTIMECMP_HI", ONES), Csr("st_lo"), Csr("st_hi")>>
        /\ ops # <<>>
        /\ Tail(ops) # <<>>
        /\ Stage(Head(Tail(ops))) = "hi2"
        /\ Tail(Tail(ops)) # <<>>
        /\ Stage(Head(Tail(Tail(ops)))) = "target"
    BY <2>1, Heads, Stages
  <2>3. Leads(ops)
    BY <2>2 DEF Leads, AtStage, Inner, Opened
  <2>4. ops \in Arms /\ ops \notin Cancels
    <3>1. \A c \in Cancels : Stage(Head(c)) \in {"irq_seen", "MTIMECMP_HI", "MTIMECMP_LO", "cancel_hi"}
      BY CancelHeads
    <3> QED BY <1>10, <2>2, <3>1 DEF Arms
  <2> QED BY <2>2, <2>3, <2>4 DEF Arms, AtStage
<1>11. CASE ops = timer_arm_us(2)
  <2>1. ops = <<Op("hi", 0), Op("lo", 0), Op("hi2", 0), Op("target", 2), St("MTIMECMP_HI", ONES), Csr("st_lo"), Csr("st_hi")>>
    BY <1>11, Calls
  <2>2. /\ Head(ops) = Op("hi", 0)
        /\ Stage(Head(ops)) = "hi"
        /\ Tail(ops) = <<Op("lo", 0), Op("hi2", 0), Op("target", 2), St("MTIMECMP_HI", ONES), Csr("st_lo"), Csr("st_hi")>>
        /\ ops # <<>>
        /\ Tail(ops) # <<>>
        /\ Stage(Head(Tail(ops))) = "lo"
        /\ Tail(Tail(ops)) # <<>>
        /\ Stage(Head(Tail(Tail(ops)))) = "hi2"
    BY <2>1, Heads, Stages
  <2>3. Leads(ops)
    BY <2>2 DEF Leads, AtStage, Inner, Opened
  <2>4. ops \in Arms /\ ops \notin Cancels
    <3>1. \A c \in Cancels : Stage(Head(c)) \in {"irq_seen", "MTIMECMP_HI", "MTIMECMP_LO", "cancel_hi"}
      BY CancelHeads
    <3> QED BY <1>11, <2>2, <3>1 DEF Arms
  <2> QED BY <2>2, <2>3, <2>4 DEF Arms, AtStage
<1>12. CASE ops = <<Op("lo", 0), Op("target", 2), St("MTIMECMP_HI", ONES), Csr("st_lo"), Csr("st_hi")>>
  <2>1. ops = <<Op("lo", 0), Op("target", 2), St("MTIMECMP_HI", ONES), Csr("st_lo"), Csr("st_hi")>>
    BY <1>12
  <2>2. /\ Head(ops) = Op("lo", 0)
        /\ Stage(Head(ops)) = "lo"
        /\ Tail(ops) = <<Op("target", 2), St("MTIMECMP_HI", ONES), Csr("st_lo"), Csr("st_hi")>>
        /\ ops # <<>>
        /\ Tail(ops) # <<>>
        /\ Stage(Head(Tail(ops))) = "target"
        /\ Tail(Tail(ops)) # <<>>
        /\ Stage(Head(Tail(Tail(ops)))) = "MTIMECMP_HI"
    BY <2>1, Heads, Stages
  <2>3. Leads(ops)
    BY <2>2 DEF Leads, AtStage, Inner, Opened
  <2>4. ops \in Arms /\ ops \notin Cancels
    <3>1. \A c \in Cancels : Stage(Head(c)) \in {"irq_seen", "MTIMECMP_HI", "MTIMECMP_LO", "cancel_hi"}
      BY CancelHeads
    <3> QED BY <1>12, <2>2, <3>1 DEF Arms
  <2> QED BY <2>2, <2>3, <2>4 DEF Arms, AtStage
<1>13. CASE ops = <<Op("again", 2)>>
  <2>1. ops = <<Op("again", 2)>>
    BY <1>13
  <2>2. /\ Head(ops) = Op("again", 2)
        /\ Stage(Head(ops)) = "again"
        /\ Tail(ops) = <<>>
        /\ ops # <<>>
    BY <2>1, Heads, Stages
  <2>3. Leads(ops)
    BY <2>2 DEF Leads, AtStage, Inner, Opened
  <2>4. ops \in Arms /\ ops \notin Cancels
    <3>1. \A c \in Cancels : Stage(Head(c)) \in {"irq_seen", "MTIMECMP_HI", "MTIMECMP_LO", "cancel_hi"}
      BY CancelHeads
    <3> QED BY <1>13, <2>2, <3>1 DEF Arms
  <2> QED BY <2>2, <2>3, <2>4 DEF Arms, AtStage
<1>14. CASE ops = <<Csr("irq_seen"), Op("again", 2)>>
  <2>1. ops = <<Csr("irq_seen"), Op("again", 2)>>
    BY <1>14
  <2>2. /\ Head(ops) = Csr("irq_seen")
        /\ Stage(Head(ops)) = "irq_seen"
        /\ Tail(ops) = <<Op("again", 2)>>
        /\ ops # <<>>
        /\ Tail(ops) # <<>>
        /\ Stage(Head(Tail(ops))) = "again"
    BY <2>1, Heads, Stages
  <2>3. Leads(ops)
    BY <2>2 DEF Leads, AtStage, Inner, Opened
  <2>4. ops \in Arms /\ ops \notin Cancels
    <3>1. \A c \in Cancels : Stage(Head(c)) = "irq_seen" => Stage(Head(Tail(c))) # "again"
      BY CancelHeads
    <3> QED BY <1>14, <2>2, <3>1 DEF Arms
  <2> QED BY <2>2, <2>3, <2>4 DEF AtStage
<1> QED BY <1>1, <1>2, <1>3, <1>4, <1>5, <1>6, <1>7, <1>8, <1>9, <1>10, <1>11, <1>12, <1>13, <1>14 DEF Cancels, Arms

LEMMA PlainTail ==
  ASSUME NEW ops \in Seq(PlainOps)
  PROVE  /\ ops \notin Cancels \cup Arms
         /\ Leads(ops) /\ ~AtStage(ops, {"lo", "hi2", "target"})
         /\ ops # <<>> =>
              /\ Head(ops) \in PlainOps /\ Tail(ops) \in Seq(PlainOps) /\ Stage(Head(ops)) \notin TimerStores
              /\ Head(ops).k \in {"irq_seen", "claim", "gie-", "flush", "st"}
              /\ Head(ops).k = "st" => Head(ops).reg \in {"I2S_IRQ", "FFT_IRQ"}
<1>1. \A o \in PlainOps :
        /\ o.k \in {"irq_seen", "claim", "gie-", "flush", "st"}
        /\ o.k = "st" => o.reg \in {"I2S_IRQ", "FFT_IRQ"}
  BY DEF PlainOps, Op, Csr, St
<1>2. \A o \in PlainOps : Stage(o) \in {"irq_seen", "claim", "gie-", "flush", "st"}
  BY <1>1 DEF Stage
<1>3. ops # <<>> => Head(ops) \in PlainOps /\ Tail(ops) \in Seq(PlainOps)
  BY Peel
<1>4. Tail(ops) # <<>> /\ ops # <<>> => Head(Tail(ops)) \in PlainOps
  BY <1>3, Peel
<1>5. ops \notin Cancels \cup Arms
  <2>1. SUFFICES ASSUME ops \in Cancels \cup Arms
                 PROVE  FALSE
    OBVIOUS
  <2>2. ops # <<>> /\ Stage(Head(ops)) \in {"irq_seen", "claim", "gie-", "flush", "st"}
    BY <2>1, <1>2, <1>3, HandlerTail
  <2>3. Stage(Head(ops)) = "irq_seen" /\ (Tail(ops) = <<Op("again", 2)>> \/ Tail(ops) = timer_cancel)
    BY <2>1, <2>2, HandlerTail, Stages
  <2>4. Tail(ops) # <<>> /\ Stage(Head(Tail(ops))) \in {"again", "MTIMECMP_HI"}
    <3>1. CASE Tail(ops) = <<Op("again", 2)>>
      BY <3>1, Heads, Stages
    <3>2. CASE Tail(ops) = timer_cancel
      <4>1. Tail(ops) # <<>> /\ Head(Tail(ops)) = St("MTIMECMP_HI", ONES)
        <5>1. timer_cancel = <<St("MTIMECMP_HI", ONES), St("MTIMECMP_LO", ONES), Csr("cancel_hi")>>
          BY DEF timer_cancel
        <5> HIDE DEF timer_cancel
        <5>2. timer_cancel # <<>> /\ Head(timer_cancel) = St("MTIMECMP_HI", ONES)
          BY <5>1, Heads
        <5> QED BY <3>2, <5>2
      <4> QED BY <4>1, Stages
    <3> QED BY <2>3, <3>1, <3>2
  <2> QED BY <2>2, <2>4, <1>2, <1>4
<1>6. Leads(ops) /\ ~AtStage(ops, {"lo", "hi2", "target"})
  <2>1. ops # <<>> => Stage(Head(ops)) \in {"irq_seen", "claim", "gie-", "flush", "st"}
    BY <1>2, <1>3
  <2>2. Tail(ops) # <<>> /\ ops # <<>> => Stage(Head(Tail(ops))) \in {"irq_seen", "claim", "gie-", "flush", "st"}
    BY <1>2, <1>4
  <2> QED BY <2>1, <2>2 DEF Leads, AtStage, Inner, Opened
<1> QED BY <1>1, <1>2, <1>3, <1>5, <1>6 DEF TimerStores

LEMMA PlainSeqs ==
  /\ \A o \in PlainOps : <<o>> \in Seq(PlainOps)
  /\ \A o, p \in PlainOps : <<o, p>> \in Seq(PlainOps)
  /\ \A s, t \in Seq(PlainOps) : s \o t \in Seq(PlainOps)
  /\ {Csr("irq_seen"), Csr("claim"), Csr("gie-"), Op("flush", 0), St("I2S_IRQ", "ovr"), St("FFT_IRQ", 1)} \subseteq PlainOps
<1> USE DEF PlainOps
<1>1. {Csr("irq_seen"), Csr("claim"), Csr("gie-"), Op("flush", 0), St("I2S_IRQ", "ovr"), St("FFT_IRQ", 1)} \subseteq PlainOps
  OBVIOUS
<1> HIDE DEF PlainOps
<1>2. \A o \in PlainOps : <<o>> \in Seq(PlainOps)
  OBVIOUS
<1>3. \A o, p \in PlainOps : <<o, p>> \in Seq(PlainOps)
  OBVIOUS
<1>4. \A s, t \in Seq(PlainOps) : s \o t \in Seq(PlainOps)
  OBVIOUS
<1> QED BY <1>1, <1>2, <1>3, <1>4

LEMMA Handlers ==
  /\ \A fn \in {"fft_isr", "i2s_isr", "plic_mei_isr"} : Serve(fn) \in Seq(PlainOps)
  /\ Serve("once") \in Cancels /\ Serve("tick") \in Arms
  /\ \A fn \in {"once", "tick"} : AtStage(Serve(fn), {"irq_seen"})
  /\ <<Csr("gie-")>> \in Seq(PlainOps) /\ <<>> \in Seq(PlainOps)
  /\ timer_arm_us(2) \in Arms /\ timer_cancel \in Cancels
  /\ AtStage(timer_arm_us(2), {"hi"}) /\ AtStage(timer_cancel, {"MTIMECMP_HI"})
<1>1. Serve("fft_isr") \in Seq(PlainOps)
  <2>1. Serve("fft_isr") = <<St("FFT_IRQ", 1), Csr("irq_seen")>>
    BY DEF Serve
  <2> QED BY <2>1, PlainSeqs
<1>2. Serve("i2s_isr") \in Seq(PlainOps)
  <2>1. Serve("i2s_isr") = (<<Op("flush", 0)>> \o <<St("I2S_IRQ", "ovr")>>) \o <<Csr("irq_seen")>>
    BY DEF Serve, i2s_flush, i2s_overrun_clear
  <2>2. <<Op("flush", 0)>> \in Seq(PlainOps) /\ <<St("I2S_IRQ", "ovr")>> \in Seq(PlainOps)
    BY PlainSeqs
  <2>3. <<Op("flush", 0)>> \o <<St("I2S_IRQ", "ovr")>> \in Seq(PlainOps) /\ <<Csr("irq_seen")>> \in Seq(PlainOps)
    BY <2>2, PlainSeqs
  <2> QED BY <2>1, <2>3, PlainSeqs
<1>3. Serve("plic_mei_isr") \in Seq(PlainOps)
  <2>1. Serve("plic_mei_isr") = <<Csr("claim")>>
    BY DEF Serve
  <2> QED BY <2>1, PlainSeqs
<1>4. Serve("once") = <<Csr("irq_seen"), St("MTIMECMP_HI", ONES), St("MTIMECMP_LO", ONES), Csr("cancel_hi")>>
  BY Calls DEF Serve
<1>5. Serve("tick") = <<Csr("irq_seen"), Op("again", 2)>>
  BY DEF Serve
<1>6. <<Csr("gie-")>> \in Seq(PlainOps) /\ <<>> \in Seq(PlainOps)
  BY PlainSeqs
<1>7. AtStage(timer_arm_us(2), {"hi"}) /\ AtStage(timer_cancel, {"MTIMECMP_HI"})
  BY Calls, Heads, Stages DEF AtStage, timer_cancel
<1>8. \A fn \in {"once", "tick"} : AtStage(Serve(fn), {"irq_seen"})
  BY <1>4, <1>5, Heads, Stages DEF AtStage
<1> QED BY <1>1, <1>2, <1>3, <1>4, <1>5, <1>6, <1>7, <1>8 DEF Cancels, Arms

-----------------------------------------------------------------------------
(***************************************************************************)
(* The reading of the time.                                                *)
(***************************************************************************)
LEMMA Scales ==
  ASSUME NEW w \in Nat, NEW a \in Nat, NEW b \in Nat, a <= b
  PROVE  w * a <= w * b
<1>1. PICK d \in Nat : b = a + d
  <2>1. b - a \in Nat /\ b = a + (b - a)
    OBVIOUS
  <2> QED BY <2>1
<1>2. w * b = w * a + w * d /\ w * d \in Nat /\ w * a \in Nat
  BY <1>1
<1> QED BY <1>2

LEMMA ReadWaits ==
  ASSUME NEW r \in Times, NEW ops, NEW now \in Nat, NEW later \in Nat, now <= later, Reading(r, ops, now)
  PROVE  Reading(r, ops, later)
<1>1. r.at \in Nat /\ r.from \in Nat /\ r.hi \in Nat /\ r.lo \in Nat /\ WORD \in Nat
  BY WordAssumption DEF Times
<1>2. \A t \in r.at .. now : t \in r.at .. later
  BY <1>1
<1>3. \A t \in Int : t \in r.from .. now => t \in r.from .. later
  BY <1>1
<1>4. r.hi * WORD + r.lo \in Int
  BY <1>1
<1> QED BY <1>1, <1>2, <1>3, <1>4 DEF Reading

\* The high word; the low word; the high word the same, and changed.
LEMMA ReadHigh ==
  ASSUME NEW r \in Times, NEW ops, NEW now \in Nat, NEW later \in Nat, now <= later,
         Leads(ops), AtStage(ops, {"hi"})
  PROVE  Reading([[[r EXCEPT !.hi = hi_of(now)] EXCEPT !.at = now] EXCEPT !.from = now], Tail(ops), later)
<1> DEFINE q == [[[r EXCEPT !.hi = hi_of(now)] EXCEPT !.at = now] EXCEPT !.from = now]
<1>1. q.hi = hi_of(now) /\ q.at = now /\ q.from = now
  BY DEF Times
<1>2. AtStage(Tail(ops), {"lo"}) /\ AtStage(Tail(Tail(ops)), {"hi2"})
  BY DEF Leads
<1> HIDE DEF q
<1>3. Reading(q, Tail(ops), later)
  BY <1>1, <1>2 DEF Reading, AtStage
<1> QED BY <1>3 DEF q

LEMMA ReadLow ==
  ASSUME NEW r \in Times, NEW ops, NEW now \in Nat, NEW later \in Nat, now <= later,
         Leads(ops), AtStage(ops, {"lo"}), Reading(r, ops, now)
  PROVE  Reading([r EXCEPT !.lo = lo_of(now)], Tail(ops), later)
<1> DEFINE q == [r EXCEPT !.lo = lo_of(now)]
<1>1. q.hi = r.hi /\ q.at = r.at /\ q.from = r.from /\ q.lo = lo_of(now)
      /\ r.hi \in Nat /\ r.at \in Nat /\ r.from \in Nat
  BY DEF Times
<1>2. AtStage(Tail(ops), {"hi2", "target"})
  BY DEF Leads
<1>3. r.hi = hi_of(r.at) /\ r.from <= r.at /\ r.at <= now
  BY DEF Reading, AtStage
<1> HIDE DEF q
<1>4. CASE AtStage(Tail(ops), {"hi2"})
  <2>1. now \in r.at .. later
    BY <1>1, <1>3
  <2> QED BY <1>1, <1>3, <1>4, <2>1 DEF Reading, AtStage, q
<1>5. CASE AtStage(Tail(ops), {"target"})
  <2>1. hi_of(r.from) < r.hi
    BY <1>5 DEF Reading
  <2>2. /\ lo_of(now) \in Nat /\ lo_of(r.from) \in Nat /\ lo_of(r.from) < WORD /\ hi_of(now) \in Nat
        /\ hi_of(r.from) \in Nat /\ now = WORD * hi_of(now) + lo_of(now)
        /\ r.from = WORD * hi_of(r.from) + lo_of(r.from) /\ WORD \in Nat
    BY <1>1, Words, WordAssumption
  <2>3. r.hi <= hi_of(now)
    BY <1>1, <1>3, Lexicographic
  <2>4. WORD * r.hi <= WORD * hi_of(now)
    BY <1>1, <2>2, <2>3, Scales
  <2>5. WORD * (hi_of(r.from) + 1) <= WORD * r.hi
    <3>1. hi_of(r.from) + 1 \in Nat /\ hi_of(r.from) + 1 <= r.hi
      BY <1>1, <2>1, <2>2
    <3> QED BY <1>1, <2>2, <3>1, Scales
  <2>6. WORD * (hi_of(r.from) + 1) = WORD * hi_of(r.from) + WORD
    BY <2>2
  <2>7. WORD * r.hi = r.hi * WORD /\ WORD * r.hi \in Nat /\ WORD * hi_of(now) \in Nat /\ WORD * hi_of(r.from) \in Nat
    BY <1>1, <2>2
  <2>8. r.hi * WORD + lo_of(now) \in r.from .. later
    BY <1>1, <2>2, <2>4, <2>5, <2>6, <2>7
  <2> QED BY <1>1, <1>5, <2>8 DEF Reading, AtStage
<1> QED BY <1>2, <1>4, <1>5 DEF AtStage

LEMMA ReadSame ==
  ASSUME NEW r \in Times, NEW ops, NEW now \in Nat, NEW later \in Nat, now <= later,
         Leads(ops), AtStage(ops, {"hi2"}), Reading(r, ops, now), hi_of(now) = r.hi
  PROVE  Reading(r, Tail(ops), later)
<1>1. r.hi \in Nat /\ r.at \in Nat /\ r.from \in Nat /\ r.lo \in Nat
  BY DEF Times
<1>2. AtStage(Tail(ops), {"target"})
  BY DEF Leads
<1>3. r.hi = hi_of(r.at) /\ r.from <= r.at /\ r.at <= now
  BY DEF Reading, AtStage
<1>4. PICK t \in r.at .. now : r.lo = lo_of(t)
  BY DEF Reading
<1>5. t \in Nat /\ r.at <= t /\ t <= now
  BY <1>1, <1>4
<1>6. hi_of(r.at) <= hi_of(t) /\ hi_of(t) <= hi_of(now)
  BY <1>1, <1>5, Lexicographic
<1>7. hi_of(t) = r.hi
  BY <1>1, <1>3, <1>5, <1>6, Words
<1>8. t = WORD * hi_of(t) + lo_of(t) /\ WORD \in Nat
  BY <1>5, Words, WordAssumption
<1>9. WORD * r.hi = r.hi * WORD
  BY <1>1, <1>8
<1>10. r.hi * WORD + r.lo = t
  BY <1>4, <1>7, <1>8, <1>9
<1>11. t \in r.from .. later
  BY <1>1, <1>3, <1>5
<1> QED BY <1>2, <1>10, <1>11 DEF Reading, AtStage

LEMMA ReadAgain ==
  ASSUME NEW r \in Times, NEW ops, NEW now \in Nat, NEW later \in Nat, now <= later, NEW again,
         AtStage(ops, {"hi2"}), Reading(r, ops, now), hi_of(now) # r.hi, AtStage(again, {"lo"})
  PROVE  Reading([[r EXCEPT !.hi = hi_of(now)] EXCEPT !.at = now], again, later)
<1> DEFINE q == [[r EXCEPT !.hi = hi_of(now)] EXCEPT !.at = now]
<1>1. q.hi = hi_of(now) /\ q.at = now /\ q.from = r.from /\ r.hi \in Nat /\ r.at \in Nat /\ r.from \in Nat
  BY DEF Times
<1>2. r.hi = hi_of(r.at) /\ r.from <= r.at /\ r.at <= now
  BY DEF Reading, AtStage
<1>3. hi_of(r.from) <= hi_of(r.at) /\ hi_of(r.at) <= hi_of(now) /\ hi_of(now) \in Nat /\ hi_of(r.from) \in Nat
  BY <1>1, <1>2, Lexicographic, Words
<1>4. hi_of(r.from) < hi_of(now)
  BY <1>1, <1>2, <1>3
<1>5. r.from <= now
  BY <1>1, <1>2
<1> HIDE DEF q
<1>6. Reading(q, again, later)
  BY <1>1, <1>4, <1>5 DEF Reading, AtStage
<1> QED BY <1>6 DEF q

-----------------------------------------------------------------------------
(***************************************************************************)
(* The steps of the program and of the handlers, as the timer sees them.   *)
(***************************************************************************)
LEMMA FreshKept ==
  ASSUME TickTypeOK, TimeLeft, NEW land \in BOOLEAN, NEW advance \in BOOLEAN, TimerSees(land, advance),
         NoPost(land), due' = due, Fresh, ~Pending'
  PROVE  Fresh'
<1>1. Silent' /\ (posted'.reg = "MTIMECMP_HI" => posted'.val = ONES)
  BY Keeps DEF Fresh
<1>2. due' = NEVER
  BY DEF Fresh
<1> QED BY <1>1, <1>2 DEF Fresh

LEMMA QuietProgram ==
  ASSUME TickTypeOK, TimeLeft, NEW land \in BOOLEAN, NEW advance \in BOOLEAN, TimerSees(land, advance),
         NoPost(land), due' = due, ~Pending, ~Pending', Main, Alone,
         \/ prog' = prog /\ mt'["main"] = mt["main"]
         \/ ~AtStage(prog, Within) /\ ~AtStage(prog', Within),
         Untimed(prog) => Untimed(prog'), OneCall(prog) => OneCall(prog'), ~Rearms(prog) => ~Rearms(prog'),
         isr_tab'["MTI"] = "tick" => isr_tab["MTI"] = "tick" \/ Rearms(prog)
  PROVE  Main' /\ Alone'
<1>1. OnTime /\ (AtStage(prog, {"st_lo", "MTIMECMP_LO"}) => Safe /\ HiGoes)
      /\ (AtStage(prog, {"st_hi"}) => LoGoes(lo_of(mt["main"].target)))
      /\ (AtStage(prog, {"cancel_hi"}) => LoGoes(0))
      /\ (~AtStage(prog, Within) => Safe /\ Armed)
  BY DEF Main
<1>2. mt["main"].target \in Nat
  BY DEF TickTypeOK, Times
<1>3. lo_of(mt["main"].target) \in Nat
  BY <1>2, Words
<1>4. /\ OnTime /\ Safe => OnTime'
      /\ OnTime /\ Off => OnTime'
      /\ Safe /\ HiGoes => Safe' /\ HiGoes'
      /\ \A l \in Nat : LoGoes(l) => LoGoes(l)'
      /\ Safe /\ Armed => Safe' /\ Armed'
  BY Keeps
<1>5. ASSUME ~AtStage(prog, Within), ~AtStage(prog', Within)
      PROVE  Main'
  <2>1. OnTime' /\ Safe' /\ Armed'
    BY <1>1, <1>4, <1>5
  <2>2. \A S \in SUBSET Within : ~AtStage(prog', S)
    BY <1>5 DEF AtStage
  <2>3. {"st_lo", "MTIMECMP_LO"} \in SUBSET Within /\ {"st_hi"} \in SUBSET Within /\ {"cancel_hi"} \in SUBSET Within
    BY DEF Within
  <2> QED BY <2>1, <2>2, <2>3 DEF Main
<1>6. ASSUME prog' = prog, mt'["main"] = mt["main"]
      PROVE  Main'
  <2>1. AtStage(prog, {"st_lo", "MTIMECMP_LO"}) => Safe' /\ HiGoes' /\ OnTime'
    BY <1>1, <1>4
  <2>2. AtStage(prog, {"st_hi"}) => LoGoes(lo_of(mt["main"].target))' /\ OnTime'
    <3>1. SUFFICES ASSUME AtStage(prog, {"st_hi"})
                   PROVE  LoGoes(lo_of(mt["main"].target))' /\ OnTime'
      OBVIOUS
    <3>2. Off
      BY <1>1, <3>1 DEF LoGoes
    <3>3. ASSUME NEW l \in Nat, l = lo_of(mt["main"].target)
          PROVE  LoGoes(lo_of(mt["main"].target))'
      <4>1. LoGoes(l)'
        BY <1>1, <1>4, <3>1, <3>3
      <4>2. lo_of(mt["main"].target)' = l
        BY <1>6, <3>3 DEF lo_of
      <4> QED BY <4>1, <4>2 DEF LoGoes
    <3> QED BY <1>1, <1>3, <1>4, <3>2, <3>3
  <2>3. AtStage(prog, {"cancel_hi"}) => LoGoes(0)' /\ OnTime'
    BY <1>1, <1>4 DEF LoGoes
  <2>4. ~AtStage(prog, Within) => Safe' /\ Armed' /\ OnTime'
    BY <1>1, <1>4
  <2>5. OnTime'
    <3>1. AtStage(prog, Within) =>
            AtStage(prog, {"st_lo", "MTIMECMP_LO"}) \/ AtStage(prog, {"st_hi"}) \/ AtStage(prog, {"cancel_hi"})
      BY DEF AtStage, Within
    <3> QED BY <2>1, <2>2, <2>3, <2>4, <3>1
  <2>6. \A S : AtStage(prog', S) <=> AtStage(prog, S)
    BY <1>6 DEF AtStage
  <2> QED BY <2>1, <2>2, <2>3, <2>4, <2>5, <2>6 DEF Main
<1>7. Alone'
  <2>1. CASE isr_tab["MTI"] # "tick" /\ ~Rearms(prog)
    BY <2>1 DEF Alone
  <2>2. CASE Untimed(prog)
    BY <2>2 DEF Alone
  <2>3. CASE OneCall(prog) /\ Fresh
    BY <2>3, FreshKept DEF Alone
  <2> QED BY <2>1, <2>2, <2>3 DEF Alone
<1> QED BY <1>5, <1>6, <1>7

LEMMA QuietHandler ==
  ASSUME TickTypeOK, TimeLeft, NEW land \in BOOLEAN, NEW advance \in BOOLEAN, TimerSees(land, advance),
         NoPost(land), due' = due, Pending, Pending', Handler, Alone,
         prog' = prog, isr_tab' = isr_tab,
         \/ hops' = hops /\ mt'["isr"] = mt["isr"]
         \/ ~AtStage(hops', Within),
         Untimed(prog) \/ hops' \in Cancels
  PROVE  Handler' /\ Alone'
<1>1. due = NEVER
      /\ (AtStage(hops, {"st_lo", "MTIMECMP_LO"}) => HiGoes)
      /\ (AtStage(hops, {"st_hi"}) => LoGoes(lo_of(mt["isr"].target)))
      /\ (AtStage(hops, {"cancel_hi"}) => LoGoes(ONES))
  BY DEF Handler
<1>2. mt["isr"].target \in Nat
  BY DEF TickTypeOK, Times
<1>3. lo_of(mt["isr"].target) \in Nat /\ ONES \in Nat
  BY <1>2, Words, Never
<1>4. /\ HiGoes => HiGoes'
      /\ \A l \in Nat : LoGoes(l) => LoGoes(l)'
  BY Keeps
<1>5. due' = NEVER /\ (Untimed(prog') \/ hops' \in Cancels)
  BY <1>1
<1>6. ASSUME ~AtStage(hops', Within)
      PROVE  Handler'
  <2>1. \A S \in SUBSET Within : ~AtStage(hops', S)
    BY <1>6 DEF AtStage
  <2>2. {"st_lo", "MTIMECMP_LO"} \in SUBSET Within /\ {"st_hi"} \in SUBSET Within /\ {"cancel_hi"} \in SUBSET Within
    BY DEF Within
  <2> QED BY <1>5, <2>1, <2>2 DEF Handler
<1>7. ASSUME hops' = hops, mt'["isr"] = mt["isr"]
      PROVE  Handler'
  <2>1. AtStage(hops, {"st_lo", "MTIMECMP_LO"}) => HiGoes'
    BY <1>1, <1>4
  <2>2. AtStage(hops, {"st_hi"}) => LoGoes(lo_of(mt["isr"].target))'
    <3>1. ASSUME NEW l \in Nat, l = lo_of(mt["isr"].target), AtStage(hops, {"st_hi"})
          PROVE  LoGoes(lo_of(mt["isr"].target))'
      <4>1. LoGoes(l)'
        BY <1>1, <1>4, <3>1
      <4>2. lo_of(mt["isr"].target)' = l
        BY <1>7, <3>1 DEF lo_of
      <4> QED BY <4>1, <4>2 DEF LoGoes
    <3> QED BY <1>3, <3>1
  <2>3. AtStage(hops, {"cancel_hi"}) => LoGoes(ONES)'
    <3>1. ASSUME NEW l \in Nat, l = ONES, AtStage(hops, {"cancel_hi"})
          PROVE  LoGoes(ONES)'
      <4>1. LoGoes(l)'
        BY <1>1, <1>4, <3>1
      <4> QED BY <4>1, <3>1 DEF LoGoes, ONES
    <3> QED BY <1>3, <3>1
  <2>4. \A S : AtStage(hops', S) <=> AtStage(hops, S)
    BY <1>7 DEF AtStage
  <2> QED BY <1>5, <2>1, <2>2, <2>3, <2>4 DEF Handler
<1>8. Alone'
  <2>1. ~Fresh
    BY DEF Fresh
  <2> QED BY <2>1 DEF Alone
<1> QED BY <1>6, <1>7, <1>8

\* The stores of the program.
LEMMA StoreProgram ==
  ASSUME TickTypeOK, TimeLeft, NEW land \in BOOLEAN, NEW advance \in BOOLEAN, TimerSees(land, advance),
         posted = None, ~Pending, ~Pending', Main, Alone, prog # <<>>, prog' = Tail(prog), mt' = mt,
         isr_tab' = isr_tab,
         \/ Stage(Head(prog)) = "MTIMECMP_HI" /\ posted' = [reg |-> "MTIMECMP_HI", val |-> ONES, age |-> 0] /\ due' = due
         \/ Stage(Head(prog)) = "MTIMECMP_LO" /\ posted' = [reg |-> "MTIMECMP_LO", val |-> ONES, age |-> 0] /\ due' = due
         \/ /\ Stage(Head(prog)) = "st_lo" /\ due' = due
            /\ posted' = [reg |-> "MTIMECMP_LO", val |-> lo_of(mt["main"].target), age |-> 0]
         \/ /\ Stage(Head(prog)) = "st_hi" /\ due' = mt["main"].target
            /\ posted' = [reg |-> "MTIMECMP_HI", val |-> hi_of(mt["main"].target), age |-> 0]
         \/ Stage(Head(prog)) = "cancel_hi" /\ posted' = [reg |-> "MTIMECMP_HI", val |-> ONES, age |-> 0] /\ due' = NEVER
  PROVE  Main' /\ Alone'
<1>1. OnTime /\ (AtStage(prog, {"st_lo", "MTIMECMP_LO"}) => Safe /\ HiGoes)
      /\ (AtStage(prog, {"st_hi"}) => LoGoes(lo_of(mt["main"].target)))
      /\ (AtStage(prog, {"cancel_hi"}) => LoGoes(0))
      /\ (~AtStage(prog, Within) => Safe /\ Armed)
  BY DEF Main
<1>2. /\ OnTime /\ Safe /\ due' = due => OnTime' /\ Safe'
      /\ Silent => Silent'
      /\ HiGoes => Off /\ Off' /\ Safe'
      /\ HiGoes => (\A l \in Nat : posted'.reg = "MTIMECMP_LO" /\ posted'.val >= l /\ posted'.age = 0 => LoGoes(l)')
      /\ \A l \in Nat : LoGoes(l) => Silent' /\ mtimecmp'.lo >= l
      /\ Silent' => OnTime' /\ Safe'
  BY TimerPosts
<1>3. Running(prog) /\ prog \in Seq(MainOps)
  BY DEF TickTypeOK
<1>4. Leads(prog)
  BY <1>3, RunningLeads
<1>5. /\ Running(Tail(prog)) /\ Tail(prog) \in Seq(MainOps)
      /\ Untimed(prog) => Untimed(Tail(prog))
      /\ OneCall(prog) => OneCall(Tail(prog))
      /\ OneCall(prog) /\ Stage(Head(prog)) \in {"st_hi", "cancel_hi"} => Untimed(Tail(prog))
      /\ ~Rearms(prog) => ~Rearms(Tail(prog))
  BY <1>3, ProgramTail
<1>6. mt["main"].target \in Nat
  BY DEF TickTypeOK, Times
<1>7. lo_of(mt["main"].target) \in Nat /\ hi_of(mt["main"].target) \in Nat /\ ONES \in Nat /\ 0 \in Nat
  BY <1>6, Words, Never
<1>8. \A S, T : AtStage(prog', S) /\ AtStage(prog', T) => S \cap T # {}
  BY DEF AtStage
<1>9. CASE Stage(Head(prog)) = "MTIMECMP_HI" /\ posted' = [reg |-> "MTIMECMP_HI", val |-> ONES, age |-> 0] /\ due' = due
  <2>1. ~AtStage(prog, Within)
    BY <1>9 DEF AtStage, Within
  <2>2. OnTime' /\ Safe'
    BY <1>1, <1>2, <1>9, <2>1
  <2>3. HiGoes'
    BY <1>9 DEF HiGoes, OffGoes
  <2>4. AtStage(prog', {"st_lo", "MTIMECMP_LO"})
    BY <1>4, <1>9 DEF Leads, AtStage
  <2>5. AtStage(prog', Within) /\ ~AtStage(prog', {"st_hi"}) /\ ~AtStage(prog', {"cancel_hi"})
    BY <2>4 DEF AtStage, Within
  <2>6. Main'
    BY <2>2, <2>3, <2>5 DEF Main
  <2>7. Fresh => Fresh'
    BY <1>2, <1>9 DEF Fresh
  <2> QED BY <1>5, <2>6, <2>7 DEF Alone
<1>10. ASSUME NEW l \in Nat, NEW v \in Nat, v >= l, AtStage(prog, {"st_lo", "MTIMECMP_LO"}),
              posted' = [reg |-> "MTIMECMP_LO", val |-> v, age |-> 0], due' = due
       PROVE  LoGoes(l)' /\ OnTime' /\ Alone'
  <2>1. LoGoes(l)'
    BY <1>1, <1>2, <1>10
  <2>2. OnTime'
    BY <1>1, <1>2, <1>10
  <2>3. Fresh => Fresh'
    BY <1>2, <1>10 DEF Fresh
  <2> QED BY <1>5, <2>1, <2>2, <2>3 DEF Alone
<1>11. CASE Stage(Head(prog)) = "MTIMECMP_LO" /\ posted' = [reg |-> "MTIMECMP_LO", val |-> ONES, age |-> 0] /\ due' = due
  <2>1. AtStage(prog, {"st_lo", "MTIMECMP_LO"})
    BY <1>11 DEF AtStage
  <2>2. LoGoes(0)' /\ OnTime' /\ Alone'
    BY <1>7, <1>10, <1>11, <2>1
  <2>3. AtStage(prog', {"cancel_hi"})
    BY <1>4, <1>11 DEF Leads, AtStage
  <2>4. AtStage(prog', Within) /\ ~AtStage(prog', {"st_hi"}) /\ ~AtStage(prog', {"st_lo", "MTIMECMP_LO"})
    BY <2>3 DEF AtStage, Within
  <2> QED BY <2>2, <2>3, <2>4 DEF Main
<1>12. CASE /\ Stage(Head(prog)) = "st_lo" /\ due' = due
            /\ posted' = [reg |-> "MTIMECMP_LO", val |-> lo_of(mt["main"].target), age |-> 0]
  <2>1. AtStage(prog, {"st_lo", "MTIMECMP_LO"})
    BY <1>12 DEF AtStage
  <2>2. OnTime' /\ Alone'
    BY <1>7, <1>10, <1>12, <2>1
  <2>3. LoGoes(lo_of(mt["main"].target))'
    <3>1. ASSUME NEW l \in Nat, l = lo_of(mt["main"].target)
          PROVE  LoGoes(lo_of(mt["main"].target))'
      <4>1. LoGoes(l)'
        BY <1>7, <1>10, <1>12, <2>1, <3>1
      <4>2. lo_of(mt["main"].target)' = l
        BY <3>1 DEF lo_of
      <4> QED BY <4>1, <4>2 DEF LoGoes
    <3> QED BY <1>7, <3>1
  <2>4. AtStage(prog', {"st_hi"})
    BY <1>4, <1>12 DEF Leads, AtStage
  <2>5. AtStage(prog', Within) /\ ~AtStage(prog', {"cancel_hi"}) /\ ~AtStage(prog', {"st_lo", "MTIMECMP_LO"})
    BY <2>4 DEF AtStage, Within
  <2> QED BY <2>2, <2>3, <2>5 DEF Main
<1>13. CASE /\ Stage(Head(prog)) = "st_hi" /\ due' = mt["main"].target
            /\ posted' = [reg |-> "MTIMECMP_HI", val |-> hi_of(mt["main"].target), age |-> 0]
  <2>1. AtStage(prog, {"st_hi"})
    BY <1>13 DEF AtStage
  <2>2. Silent' /\ mtimecmp'.lo >= lo_of(mt["main"].target)
    BY <1>1, <1>2, <1>7, <2>1
  <2>3. OnTime' /\ Safe'
    BY <1>2, <2>2
  <2>4. Armed'
    <3>1. posted'.reg = "MTIMECMP_HI" /\ posted'.val = hi_of(due') /\ mtimecmp'.lo >= lo_of(due')
      BY <1>13, <2>2
    <3>2. hi_of(due') = hi_of(due)' /\ lo_of(due') = lo_of(due)'
      BY DEF hi_of, lo_of
    <3> QED BY <2>2, <3>1, <3>2 DEF Armed
  <2>5. ~AtStage(prog', Inner)
    BY <1>4, <1>13 DEF Leads, Opened
  <2>6. ~AtStage(prog', {"st_hi"}) /\ ~AtStage(prog', {"cancel_hi"}) /\ ~AtStage(prog', {"st_lo", "MTIMECMP_LO"})
    BY <2>5 DEF AtStage, Inner
  <2>7. Main'
    BY <2>3, <2>4, <2>6 DEF Main
  <2> QED BY <1>5, <1>13, <2>7 DEF Alone
<1>14. CASE Stage(Head(prog)) = "cancel_hi" /\ posted' = [reg |-> "MTIMECMP_HI", val |-> ONES, age |-> 0] /\ due' = NEVER
  <2>1. AtStage(prog, {"cancel_hi"})
    BY <1>14 DEF AtStage
  <2>2. Silent'
    BY <1>1, <1>2, <1>7, <2>1
  <2>3. OnTime' /\ Safe'
    BY <1>2, <2>2
  <2>4. Armed'
    BY <1>14, <2>2 DEF Armed
  <2>5. ~AtStage(prog', Inner)
    BY <1>4, <1>14 DEF Leads, Opened
  <2>6. ~AtStage(prog', {"st_hi"}) /\ ~AtStage(prog', {"cancel_hi"}) /\ ~AtStage(prog', {"st_lo", "MTIMECMP_LO"})
    BY <2>5 DEF AtStage, Inner
  <2>7. Main'
    BY <2>3, <2>4, <2>6 DEF Main
  <2> QED BY <1>5, <1>14, <2>7 DEF Alone
<1> QED BY <1>9, <1>11, <1>12, <1>13, <1>14

\* The stores of a handler. Where it cancels, the program may be anywhere.
LEMMA StoreHandler ==
  ASSUME TickTypeOK, TimeLeft, NEW land \in BOOLEAN, NEW advance \in BOOLEAN, TimerSees(land, advance),
         posted = None, Pending, Handler, Alone, prog' = prog, mt' = mt, isr_tab' = isr_tab,
         Leads(hops), hops # <<>>, hops' = Tail(hops),
         \/ /\ Stage(Head(hops)) = "MTIMECMP_HI" /\ posted' = [reg |-> "MTIMECMP_HI", val |-> ONES, age |-> 0]
            /\ due' = due /\ Pending' /\ (Untimed(prog) \/ hops' \in Cancels)
         \/ /\ Stage(Head(hops)) = "MTIMECMP_LO" /\ posted' = [reg |-> "MTIMECMP_LO", val |-> ONES, age |-> 0]
            /\ due' = due /\ Pending' /\ (Untimed(prog) \/ hops' \in Cancels)
         \/ /\ Stage(Head(hops)) = "st_lo" /\ due' = due /\ Pending' /\ (Untimed(prog) \/ hops' \in Cancels)
            /\ posted' = [reg |-> "MTIMECMP_LO", val |-> lo_of(mt["isr"].target), age |-> 0]
         \/ /\ Stage(Head(hops)) = "st_hi" /\ due' = mt["isr"].target /\ ~Pending' /\ Untimed(prog)
            /\ posted' = [reg |-> "MTIMECMP_HI", val |-> hi_of(mt["isr"].target), age |-> 0]
         \/ /\ Stage(Head(hops)) = "cancel_hi" /\ posted' = [reg |-> "MTIMECMP_HI", val |-> ONES, age |-> 0]
            /\ due' = NEVER /\ ~Pending'
  PROVE  (Pending' => Handler') /\ (~Pending' => Main') /\ Alone'
<1>1. due = NEVER
      /\ (AtStage(hops, {"st_lo", "MTIMECMP_LO"}) => HiGoes)
      /\ (AtStage(hops, {"st_hi"}) => LoGoes(lo_of(mt["isr"].target)))
      /\ (AtStage(hops, {"cancel_hi"}) => LoGoes(ONES))
  BY DEF Handler
<1>2. /\ Silent => Silent'
      /\ HiGoes => Off /\ Off' /\ Safe'
      /\ HiGoes => (\A l \in Nat : posted'.reg = "MTIMECMP_LO" /\ posted'.val >= l /\ posted'.age = 0 => LoGoes(l)')
      /\ \A l \in Nat : LoGoes(l) => Silent' /\ mtimecmp'.lo >= l
      /\ Silent' => OnTime' /\ Safe'
  BY TimerPosts
<1>3. mt["isr"].target \in Nat /\ mt["main"].target \in Nat
  BY DEF TickTypeOK, Times
<1>4. lo_of(mt["isr"].target) \in Nat /\ hi_of(mt["isr"].target) \in Nat /\ ONES \in Nat
      /\ lo_of(mt["main"].target) \in Nat /\ lo_of(mt["main"].target) <= ONES
  BY <1>3, Words, Never
<1>5. Alone'
  <2>1. ~Fresh
    BY DEF Fresh
  <2> QED BY <2>1 DEF Alone
<1>6. CASE /\ Stage(Head(hops)) = "MTIMECMP_HI" /\ posted' = [reg |-> "MTIMECMP_HI", val |-> ONES, age |-> 0]
           /\ due' = due /\ Pending' /\ (Untimed(prog) \/ hops' \in Cancels)
  <2>1. HiGoes'
    BY <1>6 DEF HiGoes, OffGoes
  <2>2. AtStage(hops', {"st_lo", "MTIMECMP_LO"})
    BY <1>6 DEF Leads, AtStage
  <2>3. ~AtStage(hops', {"st_hi"}) /\ ~AtStage(hops', {"cancel_hi"})
    BY <2>2 DEF AtStage
  <2>4. Handler'
    BY <1>1, <1>6, <2>1, <2>3 DEF Handler
  <2> QED BY <1>5, <1>6, <2>4
<1>7. CASE /\ Stage(Head(hops)) = "MTIMECMP_LO" /\ posted' = [reg |-> "MTIMECMP_LO", val |-> ONES, age |-> 0]
           /\ due' = due /\ Pending' /\ (Untimed(prog) \/ hops' \in Cancels)
  <2>1. HiGoes
    BY <1>1, <1>7 DEF AtStage
  <2>2. LoGoes(ONES)'
    <3>1. ASSUME NEW l \in Nat, l = ONES
          PROVE  LoGoes(ONES)'
      <4>1. LoGoes(l)'
        BY <1>2, <1>7, <2>1, <3>1
      <4> QED BY <3>1, <4>1 DEF LoGoes, ONES
    <3> QED BY <1>4, <3>1
  <2>3. AtStage(hops', {"cancel_hi"})
    BY <1>7 DEF Leads, AtStage
  <2>4. ~AtStage(hops', {"st_hi"}) /\ ~AtStage(hops', {"st_lo", "MTIMECMP_LO"})
    BY <2>3 DEF AtStage
  <2>5. Handler'
    BY <1>1, <1>7, <2>2, <2>4 DEF Handler
  <2> QED BY <1>5, <1>7, <2>5
<1>8. CASE /\ Stage(Head(hops)) = "st_lo" /\ due' = due /\ Pending' /\ (Untimed(prog) \/ hops' \in Cancels)
           /\ posted' = [reg |-> "MTIMECMP_LO", val |-> lo_of(mt["isr"].target), age |-> 0]
  <2>1. HiGoes
    BY <1>1, <1>8 DEF AtStage
  <2>2. LoGoes(lo_of(mt["isr"].target))'
    <3>1. ASSUME NEW l \in Nat, l = lo_of(mt["isr"].target)
          PROVE  LoGoes(lo_of(mt["isr"].target))'
      <4>1. LoGoes(l)'
        BY <1>2, <1>8, <2>1, <3>1
      <4>2. lo_of(mt["isr"].target)' = l
        BY <3>1 DEF lo_of
      <4> QED BY <4>1, <4>2 DEF LoGoes
    <3> QED BY <1>4, <3>1
  <2>3. AtStage(hops', {"st_hi"})
    BY <1>8 DEF Leads, AtStage
  <2>4. ~AtStage(hops', {"cancel_hi"}) /\ ~AtStage(hops', {"st_lo", "MTIMECMP_LO"})
    BY <2>3 DEF AtStage
  <2>5. Handler'
    BY <1>1, <1>8, <2>2, <2>4 DEF Handler
  <2> QED BY <1>5, <1>8, <2>5
<1>9. CASE /\ Stage(Head(hops)) = "st_hi" /\ due' = mt["isr"].target /\ ~Pending' /\ Untimed(prog)
           /\ posted' = [reg |-> "MTIMECMP_HI", val |-> hi_of(mt["isr"].target), age |-> 0]
  <2>1. LoGoes(lo_of(mt["isr"].target))
    BY <1>1, <1>9 DEF AtStage
  <2>2. Silent' /\ mtimecmp'.lo >= lo_of(mt["isr"].target)
    BY <1>2, <1>4, <2>1
  <2>3. OnTime' /\ Safe'
    BY <1>2, <2>2
  <2>4. Armed'
    <3>1. posted'.reg = "MTIMECMP_HI" /\ posted'.val = hi_of(due') /\ mtimecmp'.lo >= lo_of(due')
      BY <1>9, <2>2
    <3>2. hi_of(due') = hi_of(due)' /\ lo_of(due') = lo_of(due)'
      BY DEF hi_of, lo_of
    <3> QED BY <2>2, <3>1, <3>2 DEF Armed
  <2>5. prog # <<>> => Stage(Head(prog)) \notin TimerStores
    <3>1. prog \in Seq(MainOps)
      BY DEF TickTypeOK
    <3>2. prog # <<>> => 1 \in 1 .. Len(prog) /\ Head(prog) = prog[1]
      BY <3>1, Peel
    <3> QED BY <1>9, <3>2 DEF Untimed
  <2>6. ~AtStage(prog', {"st_hi"}) /\ ~AtStage(prog', {"cancel_hi"}) /\ ~AtStage(prog', {"st_lo", "MTIMECMP_LO"})
    BY <2>5 DEF AtStage, TimerStores
  <2>7. Main'
    BY <2>3, <2>4, <2>6 DEF Main
  <2> QED BY <1>5, <1>9, <2>7
<1>10. CASE /\ Stage(Head(hops)) = "cancel_hi" /\ posted' = [reg |-> "MTIMECMP_HI", val |-> ONES, age |-> 0]
            /\ due' = NEVER /\ ~Pending'
  <2>1. LoGoes(ONES)
    BY <1>1, <1>10 DEF AtStage
  <2>2. Silent' /\ mtimecmp'.lo >= ONES
    BY <1>2, <1>4, <2>1
  <2>3. OnTime' /\ Safe'
    BY <1>2, <2>2
  <2>4. OffGoes' /\ HiGoes' /\ Armed'
    BY <1>10, <2>2 DEF OffGoes, HiGoes, Armed
  <2>5. mtimecmp'.lo \in Nat
    <3>1. mtimecmp' \in [hi : Nat, lo : Nat]
      BY TimerMoves
    <3> QED BY <3>1
  <2>6. ASSUME NEW l \in Nat, l <= ONES
        PROVE  LoGoes(l)'
    <3>1. mtimecmp'.lo >= l
      BY <1>4, <2>2, <2>5, <2>6
    <3> QED BY <2>2, <2>4, <3>1 DEF LoGoes, Silent
  <2>7. LoGoes(0)'
    <3>1. 0 <= ONES /\ 0 \in Nat
      BY <1>4
    <3> QED BY <2>6, <3>1
  <2>8. LoGoes(lo_of(mt["main"].target))'
    <3>1. ASSUME NEW l \in Nat, l = lo_of(mt["main"].target)
          PROVE  LoGoes(lo_of(mt["main"].target))'
      <4>1. LoGoes(l)'
        BY <1>4, <2>6, <3>1
      <4>2. lo_of(mt["main"].target)' = l
        BY <3>1 DEF lo_of
      <4> QED BY <4>1, <4>2 DEF LoGoes
    <3> QED BY <1>4, <3>1
  <2>9. Main'
    BY <2>3, <2>4, <2>7, <2>8 DEF Main
  <2> QED BY <1>5, <1>10, <2>9
<1> QED BY <1>6, <1>7, <1>8, <1>9, <1>10

LEMMA LeadsPast ==
  ASSUME NEW ops, Leads(ops), ops # <<>>, Stage(Head(ops)) \notin TimerStores
  PROVE  ~AtStage(Tail(ops), Within) /\ ~AtStage(ops, Within)
<1>1. CASE Stage(Head(ops)) \in {"hi", "lo", "hi2"}
  <2>1. AtStage(Tail(ops), {"lo", "hi2", "target"})
    BY <1>1 DEF Leads, AtStage
  <2> QED BY <1>1, <2>1 DEF AtStage, Within
<1>2. CASE Stage(Head(ops)) \notin {"hi", "lo", "hi2"}
  <2>1. ~AtStage(Tail(ops), Inner)
    BY <1>2 DEF Leads, Opened, TimerStores
  <2> QED BY <2>1 DEF AtStage, Inner, Within, TimerStores
<1> QED BY <1>1, <1>2

\* What an instruction that is no store to the timer does to the accesses left.
ProgramGoes ==
  \/ prog' = prog /\ mt'["main"] = mt["main"]
  \/ prog # <<>> /\ Stage(Head(prog)) \notin TimerStores /\ prog' = Tail(prog)
  \/ AtStage(prog, {"hi2"}) /\ prog' = <<Op("lo", 0)>> \o Tail(prog)
  \/ AtStage(prog, {"seen"}) /\ prog' = <<Op("wfi", 0)>> \o prog
HandlerGoes ==
  \/ hops' = hops /\ mt'["isr"] = mt["isr"]
  \/ hops # <<>> /\ Stage(Head(hops)) \notin TimerStores \cup {"again"} /\ hops' = Tail(hops)
  \/ AtStage(hops, {"hi2"}) /\ hops' = <<Op("lo", 0)>> \o Tail(hops)
  \/ hops \in Seq(PlainOps) /\ hops' \in Seq(PlainOps)
  \/ AtStage(hops, {"again"}) /\ hops' \in {timer_arm_us(2), timer_cancel}

LEMMA ProgramStep ==
  ASSUME prog \in Seq(MainOps), Running(prog), ProgramGoes
  PROVE  /\ prog' \in Seq(MainOps) /\ Running(prog)'
         /\ Untimed(prog) => Untimed(prog')
         /\ OneCall(prog) => OneCall(prog')
         /\ ~Rearms(prog) => ~Rearms(prog')
         /\ \/ prog' = prog /\ mt'["main"] = mt["main"]
            \/ ~AtStage(prog, Within) /\ ~AtStage(prog', Within)
<1>1. Leads(prog)
  BY RunningLeads
<1>2. Op("lo", 0) \in MainOps /\ Op("wfi", 0) \in MainOps
  BY DEF MainOps
<1>3. Stage(Op("lo", 0)) = "lo" /\ Stage(Op("wfi", 0)) = "wfi" /\ Op("lo", 0).k = "lo" /\ Op("wfi", 0).k = "wfi"
  BY DEF Op, Stage
<1>4. CASE prog' = prog /\ mt'["main"] = mt["main"]
  <2>1. Running(prog)' <=> Running(prog')
    BY DEF Running, Follows, Stage
  <2> QED BY <1>4, <2>1
<1>5. CASE prog # <<>> /\ Stage(Head(prog)) \notin TimerStores /\ prog' = Tail(prog)
  <2>1. Running(prog)' <=> Running(prog')
    BY DEF Running, Follows, Stage
  <2>2. ~AtStage(prog, Within) /\ ~AtStage(prog', Within)
    BY <1>1, <1>5, LeadsPast
  <2> QED BY <1>5, <2>1, <2>2, ProgramTail
<1>6. CASE AtStage(prog, {"hi2"}) /\ prog' = <<Op("lo", 0)>> \o Tail(prog)
  <2>1. prog # <<>> /\ AtStage(Tail(prog), {"target"})
    BY <1>1, <1>6 DEF AtStage, Leads
  <2>2. Tail(prog) # <<>> /\ Stage(Head(Tail(prog))) = "target"
    BY <2>1 DEF AtStage
  <2>3. /\ Running(Tail(prog)) /\ Tail(prog) \in Seq(MainOps)
        /\ Untimed(prog) => Untimed(Tail(prog))
        /\ OneCall(prog) => OneCall(Tail(prog))
        /\ ~Rearms(prog) => ~Rearms(Tail(prog))
    BY <2>1, ProgramTail
  <2>4. /\ Running(prog') /\ prog' \in Seq(MainOps)
        /\ Untimed(Tail(prog)) => Untimed(prog')
        /\ OneCall(Tail(prog)) => OneCall(prog')
        /\ ~Rearms(Tail(prog)) => ~Rearms(prog')
    BY <1>2, <1>3, <1>6, <2>2, <2>3, ProgramPush
  <2>5. Head(prog') = Op("lo", 0)
    BY <1>2, <1>6, <2>3, Push
  <2>6. ~AtStage(prog, Within) /\ ~AtStage(prog', Within)
    BY <1>3, <1>6, <2>5 DEF AtStage, Within
  <2>7. Running(prog)' <=> Running(prog')
    BY DEF Running, Follows, Stage
  <2> QED BY <2>3, <2>4, <2>6, <2>7
<1>7. CASE AtStage(prog, {"seen"}) /\ prog' = <<Op("wfi", 0)>> \o prog
  <2>1. prog # <<>> /\ Stage(Head(prog)) = "seen"
    BY <1>7 DEF AtStage
  <2>2. /\ Running(prog') /\ prog' \in Seq(MainOps)
        /\ Untimed(prog) => Untimed(prog')
        /\ OneCall(prog) => OneCall(prog')
        /\ ~Rearms(prog) => ~Rearms(prog')
    BY <1>2, <1>3, <1>7, <2>1, ProgramPush DEF Inner
  <2>3. Head(prog') = Op("wfi", 0)
    BY <1>2, <1>7, Push
  <2>4. ~AtStage(prog, Within) /\ ~AtStage(prog', Within)
    BY <1>3, <1>7, <2>3 DEF AtStage, Within
  <2>5. Running(prog)' <=> Running(prog')
    BY DEF Running, Follows, Stage
  <2> QED BY <2>2, <2>4, <2>5
<1> QED BY <1>4, <1>5, <1>6, <1>7 DEF ProgramGoes

LEMMA HandlerStep ==
  ASSUME hops \in Seq(PlainOps) \cup Cancels \cup Arms, HandlerGoes, Pending => Handler
  PROVE  /\ hops' \in Seq(PlainOps) \cup Cancels \cup Arms
         /\ Pending' <=> Pending
         /\ Pending => Untimed(prog) \/ hops' \in Cancels
         /\ Pending => (hops' = hops /\ mt'["isr"] = mt["isr"]) \/ ~AtStage(hops', Within)
<1>1. Pending => Untimed(prog) \/ hops \in Cancels
  BY DEF Handler
<1>2. Pending' <=> hops' \in Cancels \cup Arms
  BY DEF Pending, Cancels, Arms, timer_cancel, timer_arm_us, timer_mtime, Op, Csr, St, ONES
<1>3. \A s \in Seq(PlainOps) : s \notin Cancels \cup Arms
  BY PlainTail
<1>4. CASE hops' = hops /\ mt'["isr"] = mt["isr"]
  BY <1>1, <1>2, <1>4 DEF Pending
<1>5. CASE hops \in Seq(PlainOps) /\ hops' \in Seq(PlainOps)
  BY <1>2, <1>3, <1>5 DEF Pending
<1>6. CASE hops \in Seq(PlainOps) /\ hops # <<>> /\ hops' = Tail(hops)
  BY <1>5, <1>6, PlainTail
<1>7. CASE hops \in Seq(PlainOps) /\ (AtStage(hops, {"hi2"}) \/ AtStage(hops, {"again"}))
  <2>1. hops # <<>>
    BY <1>7 DEF AtStage
  <2>2. Head(hops).k \in {"irq_seen", "claim", "gie-", "flush", "st"} /\ ~AtStage(hops, {"lo", "hi2", "target"})
        /\ (Head(hops).k = "st" => Head(hops).reg \in {"I2S_IRQ", "FFT_IRQ"})
    BY <1>7, <2>1, PlainTail
  <2> QED BY <1>7, <2>2 DEF AtStage, Stage
<1>8. ASSUME Pending
      PROVE  /\ hops # <<>> /\ Leads(hops)
             /\ AtStage(hops, {"hi2"}) =>
                  <<Op("lo", 0)>> \o Tail(hops) \in Arms /\ AtStage(<<Op("lo", 0)>> \o Tail(hops), {"lo"})
             /\ hops \in Cancels => Stage(Head(hops)) \in {"irq_seen", "MTIMECMP_HI", "MTIMECMP_LO", "cancel_hi"}
             /\ hops \in Cancels => Tail(hops) \in Cancels \cup {<<>>}
  BY <1>8, HandlerTail DEF Pending
<1>9. CASE Pending /\ Stage(Head(hops)) \notin TimerStores \cup {"again"} /\ hops' = Tail(hops)
  <2>1. ~AtStage(hops', Within)
    BY <1>8, <1>9, LeadsPast
  <2>2. \/ Head(hops) = Csr("irq_seen") /\ (Tail(hops) = <<Op("again", 2)>> \/ Tail(hops) = timer_cancel)
        \/ Tail(hops) \in Arms
    BY <1>9, HandlerTail, Stages DEF Pending, TimerStores
  <2>3. <<Op("again", 2)>> \in Arms /\ timer_cancel \in Cancels
    BY DEF Arms, Cancels
  <2>4. Tail(hops) \in Cancels \cup Arms /\ Tail(hops) # <<>>
    <3>1. Tail(hops) \in Cancels \cup Arms
      BY <2>2, <2>3
    <3> QED BY <3>1, HandlerTail
  <2>5. Untimed(prog) \/ hops' \in Cancels
    BY <1>1, <1>8, <1>9, <2>4
  <2> QED BY <1>2, <1>9, <2>1, <2>4, <2>5
<1>10. CASE Pending /\ AtStage(hops, {"hi2"}) /\ hops' = <<Op("lo", 0)>> \o Tail(hops)
  <2>1. hops' \in Arms
    BY <1>8, <1>10
  <2>2. Untimed(prog)
    BY <1>1, <1>8, <1>10 DEF AtStage
  <2>3. AtStage(hops', {"lo"})
    BY <1>8, <1>10
  <2> QED BY <1>2, <1>10, <2>1, <2>2, <2>3 DEF AtStage, Within
<1>11. CASE Pending /\ AtStage(hops, {"again"}) /\ hops' \in {timer_arm_us(2), timer_cancel}
  <2>1. Untimed(prog)
    BY <1>1, <1>8, <1>11 DEF AtStage
  <2>2. hops' \in Cancels \cup Arms /\ ~AtStage(hops', Within)
    BY <1>11, Handlers DEF AtStage, Within
  <2> QED BY <1>2, <1>11, <2>1, <2>2
<1>12. Pending <=> hops \notin Seq(PlainOps)
  BY <1>3 DEF Pending
<1> QED BY <1>4, <1>5, <1>6, <1>7, <1>9, <1>10, <1>11, <1>12 DEF HandlerGoes

\* An instruction, or a cycle without one, that posts no store to the timer.
LEMMA QuietStep ==
  ASSUME TickInv, TimeLeft, NEW land \in BOOLEAN, NEW advance \in BOOLEAN, TimerSees(land, advance), NoPost(land),
         in_isr' = in_isr, due' = due, spurious' = spurious, in_isr => ~pmie',
         mt' \in [{"main", "isr"} -> Times], TablesOK',
         isr_tab'["MTI"] = "tick" => isr_tab["MTI"] = "tick" \/ Rearms(prog),
         in_isr => isr_tab' = isr_tab /\ prog' = prog /\ mt'["main"] = mt["main"],
         ~in_isr => hops' = hops /\ mt'["isr"] = mt["isr"],
         ProgramGoes, HandlerGoes,
         Reading(mt'["main"], prog', mtime'), Reading(mt'["isr"], hops', mtime')
  PROVE  TickInv'
<1>1. /\ TickTypeOK /\ (Pending => Handler) /\ (~Pending => Main) /\ Alone /\ ~spurious
      /\ (~in_isr => hops = <<>>)
  BY DEF TickInv
<1>2. prog \in Seq(MainOps) /\ Running(prog) /\ hops \in Seq(PlainOps) \cup Cancels \cup Arms
  BY <1>1 DEF TickTypeOK
<1>3. /\ prog' \in Seq(MainOps) /\ Running(prog)'
      /\ Untimed(prog) => Untimed(prog')
      /\ OneCall(prog) => OneCall(prog')
      /\ ~Rearms(prog) => ~Rearms(prog')
      /\ \/ prog' = prog /\ mt'["main"] = mt["main"]
         \/ ~AtStage(prog, Within) /\ ~AtStage(prog', Within)
  BY <1>2, ProgramStep
<1>4. /\ hops' \in Seq(PlainOps) \cup Cancels \cup Arms
      /\ Pending' <=> Pending
      /\ Pending => Untimed(prog) \/ hops' \in Cancels
      /\ Pending => (hops' = hops /\ mt'["isr"] = mt["isr"]) \/ ~AtStage(hops', Within)
  BY <1>1, <1>2, HandlerStep
<1>5. Pending => in_isr
  <2>1. <<>> \in Seq(PlainOps)
    BY Handlers
  <2>2. ~in_isr => ~Pending
    BY <1>1, <2>1, PlainTail DEF Pending
  <2> QED BY <2>2
<1>8. (Pending' => Handler') /\ (~Pending' => Main') /\ Alone'
  <2>1. Pending => Handler' /\ Alone'
    <3>1. Pending => prog' = prog /\ isr_tab' = isr_tab
      BY <1>5
    <3>2. Pending => /\ Pending' /\ Handler /\ (Untimed(prog) \/ hops' \in Cancels)
                     /\ (hops' = hops /\ mt'["isr"] = mt["isr"]) \/ ~AtStage(hops', Within)
      BY <1>1, <1>4
    <3> QED BY <1>1, <3>1, <3>2, QuietHandler
  <2>2. ~Pending => Main' /\ Alone'
    <3>1. ~Pending => ~Pending' /\ Main
      BY <1>1, <1>4
    <3> QED BY <1>1, <1>3, <3>1, QuietProgram
  <2> QED BY <1>4, <2>1, <2>2
<1>9. /\ mtime' \in Nat /\ mtimecmp' \in [hi : Nat, lo : Nat] /\ pmip' \subseteq {"MTI", "MEI"} /\ due' \in Nat
  <2>1. due \in Nat
    BY <1>1 DEF TickTypeOK
  <2> QED BY <1>1, <2>1, TimerMoves
<1>10. /\ posted' = [reg |-> posted'.reg, val |-> posted'.val, age |-> posted'.age] /\ posted'.age \in {0, 1}
       /\ ~OtherStore' => posted'.val \in Nat /\ (posted'.reg = "MTIMECMP_LO" => posted'.val < WORD)
  BY <1>1, Keeps
<1>11. TickTypeOK'
  BY <1>3, <1>4, <1>9, <1>10 DEF TickTypeOK
<1>12. ~in_isr' => hops' = <<>>
  BY <1>1
<1> QED BY <1>1, <1>8, <1>11, <1>12 DEF TickInv

\* The same for what leaves the words read alone.
OpsGo ==
  \/ prog' = prog /\ hops' = hops
  \/ /\ Ops # <<>> /\ Stage(Head(Ops)) \notin TimerStores \cup {"hi", "lo", "hi2", "again"}
     /\ Todo(Tail(Ops))
  \/ ~in_isr /\ AtStage(prog, {"seen"}) /\ prog' = <<Op("wfi", 0)>> \o prog /\ hops' = hops
  \/ in_isr /\ prog' = prog /\ hops \in Seq(PlainOps) /\ hops' \in Seq(PlainOps)
  \/ in_isr /\ prog' = prog /\ AtStage(hops, {"again"}) /\ hops' \in {timer_arm_us(2), timer_cancel}

LEMMA ReadOther ==
  ASSUME NEW r \in Times, NEW ops, NEW after, NEW now \in Nat, NEW later \in Nat, now <= later, Reading(r, ops, now),
         Leads(ops),
         \/ after = ops
         \/ ops # <<>> /\ Stage(Head(ops)) \notin {"hi", "lo", "hi2"} /\ after = Tail(ops)
         \/ ~AtStage(after, {"lo", "hi2", "target"})
  PROVE  Reading(r, after, later)
<1>1. CASE after = ops
  BY <1>1, ReadWaits
<1>2. ASSUME ~AtStage(after, {"lo", "hi2", "target"})
      PROVE  Reading(r, after, later)
  BY <1>2 DEF Reading, AtStage
<1>3. CASE ops # <<>> /\ Stage(Head(ops)) \notin {"hi", "lo", "hi2"} /\ after = Tail(ops)
  <2>1. CASE Stage(Head(ops)) \in Opened
    <3>1. AtStage(after, {"st_lo", "MTIMECMP_LO", "cancel_hi", "st_hi"})
      BY <1>3, <2>1 DEF Leads, Opened, AtStage
    <3>2. ~AtStage(after, {"lo", "hi2", "target"})
      BY <3>1 DEF AtStage
    <3> QED BY <1>2, <3>2
  <2>2. CASE Stage(Head(ops)) \notin Opened
    <3>1. ~AtStage(after, Inner)
      BY <1>3, <2>2 DEF Leads
    <3>2. ~AtStage(after, {"lo", "hi2", "target"})
      BY <3>1 DEF AtStage, Inner
    <3> QED BY <1>2, <3>2
  <2> QED BY <2>1, <2>2
<1> QED BY <1>1, <1>2, <1>3

LEMMA CodeLeads ==
  ASSUME TickTypeOK
  PROVE  Leads(prog) /\ Leads(hops) /\ mt["main"] \in Times /\ mt["isr"] \in Times
<1>1. prog \in Seq(MainOps) /\ Running(prog) /\ hops \in Seq(PlainOps) \cup Cancels \cup Arms
      /\ mt \in [{"main", "isr"} -> Times]
  BY DEF TickTypeOK
<1> QED BY <1>1, RunningLeads, PlainTail, HandlerTail

LEMMA PlainStep ==
  ASSUME TickInv, TimeLeft, NEW land \in BOOLEAN, NEW advance \in BOOLEAN, TimerSees(land, advance), NoPost(land),
         in_isr' = in_isr, due' = due, spurious' = spurious, in_isr => ~pmie', mt' = mt, TablesOK',
         isr_tab'["MTI"] = "tick" => isr_tab["MTI"] = "tick" \/ Rearms(prog),
         in_isr => isr_tab' = isr_tab,
         OpsGo
  PROVE  TickInv'
<1>1. TickTypeOK /\ Reading(mt["main"], prog, mtime) /\ Reading(mt["isr"], hops, mtime) /\ (~in_isr => hops = <<>>)
  BY DEF TickInv
<1>2. Leads(prog) /\ Leads(hops) /\ mt["main"] \in Times /\ mt["isr"] \in Times
  BY <1>1, CodeLeads
<1>3. mtime \in Nat /\ mtime' \in Nat /\ mtime <= mtime' /\ mt' \in [{"main", "isr"} -> Times]
  BY <1>1, TimerMoves DEF TickTypeOK
<1>4. in_isr => prog' = prog
  BY DEF OpsGo, Todo
<1>5. ~in_isr => hops' = hops
  BY DEF OpsGo, Todo
<1>6. \/ prog' = prog
      \/ /\ ~in_isr /\ prog # <<>> /\ Stage(Head(prog)) \notin TimerStores \cup {"hi", "lo", "hi2", "again"}
         /\ prog' = Tail(prog)
      \/ AtStage(prog, {"seen"}) /\ prog' = <<Op("wfi", 0)>> \o prog
  BY <1>4 DEF OpsGo, Todo, Ops
<1>7. \/ hops' = hops
      \/ /\ in_isr /\ hops # <<>> /\ Stage(Head(hops)) \notin TimerStores \cup {"hi", "lo", "hi2", "again"}
         /\ hops' = Tail(hops)
      \/ hops \in Seq(PlainOps) /\ hops' \in Seq(PlainOps)
      \/ AtStage(hops, {"again"}) /\ hops' \in {timer_arm_us(2), timer_cancel}
  BY <1>5 DEF OpsGo, Todo, Ops
<1>8. ProgramGoes
  BY <1>6 DEF ProgramGoes
<1>9. HandlerGoes
  BY <1>7 DEF HandlerGoes
<1>10. Reading(mt'["main"], prog', mtime')
  <2>1. AtStage(prog, {"seen"}) /\ prog' = <<Op("wfi", 0)>> \o prog => ~AtStage(prog', {"lo", "hi2", "target"})
    <3>1. prog \in Seq(MainOps) /\ Op("wfi", 0) \in MainOps
      BY <1>1 DEF TickTypeOK, MainOps
    <3>2. prog' = <<Op("wfi", 0)>> \o prog => Head(prog') = Op("wfi", 0)
      BY <3>1, Push
    <3> QED BY <3>2 DEF AtStage, Stage, Op
  <2> QED BY <1>1, <1>2, <1>3, <1>6, <2>1, ReadOther
<1>11. Reading(mt'["isr"], hops', mtime')
  <2>1. hops' \in Seq(PlainOps) => ~AtStage(hops', {"lo", "hi2", "target"})
    BY PlainTail
  <2>2. hops' \in {timer_arm_us(2), timer_cancel} => ~AtStage(hops', {"lo", "hi2", "target"})
    BY Handlers DEF AtStage
  <2> QED BY <1>1, <1>2, <1>3, <1>7, <2>1, <2>2, ReadOther
<1> QED BY <1>3, <1>4, <1>5, <1>8, <1>9, <1>10, <1>11, QuietStep

-----------------------------------------------------------------------------
(***************************************************************************)
(* The hart.                                                               *)
(***************************************************************************)
LEMMA StageOf ==
  ASSUME NEW o
  PROVE  /\ o.k # "st" => Stage(o) = o.k
         /\ o.k = "st" /\ o.reg \in {"MTIMECMP_HI", "MTIMECMP_LO"} => Stage(o) = o.reg
         /\ o.k = "st" /\ o.reg \notin {"MTIMECMP_HI", "MTIMECMP_LO"} => Stage(o) = "st"
BY DEF Stage

LEMMA HandlerHeads ==
  ASSUME TickTypeOK, hops # <<>>
  PROVE  /\ Head(hops).k \in {"irq_seen", "claim", "gie-", "flush", "st", "again", "hi", "lo", "hi2", "target",
                              "st_lo", "st_hi", "cancel_hi"}
         /\ Head(hops).k \in {"claim", "gie-", "flush"} => hops \in Seq(PlainOps)
         /\ Head(hops).k = "again" => Head(hops).v = 2 /\ Tail(hops) = <<>>
         /\ Head(hops).k = "target" => Head(hops).v = 2
         /\ Head(hops).k = "st" /\ Head(hops).reg \in {"MTIMECMP_HI", "MTIMECMP_LO"} => Head(hops).v = ONES
<1>1. hops \in Seq(PlainOps) \cup Cancels \cup Arms
  BY DEF TickTypeOK
<1>2. CASE hops \in Seq(PlainOps)
  BY <1>2, PlainTail
<1>3. CASE hops \in Cancels \cup Arms
  <2>1. /\ \A k, v : Op(k, v).k = k /\ Op(k, v).v = v
        /\ \A k : Csr(k).k = k
        /\ \A r, v : St(r, v).k = "st" /\ St(r, v).reg = r /\ St(r, v).v = v
    BY DEF Op, Csr, St
  <2>2. \/ Head(hops) = Csr("irq_seen")
        \/ Head(hops) = Op("again", 2) /\ Tail(hops) = <<>>
        \/ Head(hops) \in {Op("hi", 0), Op("lo", 0), Op("hi2", 0), Op("target", 2)}
        \/ Head(hops) = St("MTIMECMP_HI", ONES)
        \/ Head(hops) = St("MTIMECMP_LO", ONES)
        \/ Head(hops) = Csr("st_lo")
        \/ Head(hops) = Csr("st_hi")
        \/ Head(hops) = Csr("cancel_hi")
    BY <1>3, HandlerTail
  <2> QED BY <2>1, <2>2
<1> QED BY <1>1, <1>2, <1>3

LEMMA ProgramHeads ==
  ASSUME TickTypeOK, TimerScripts, prog # <<>>
  PROVE  Allowed(Head(prog))
<1>1. Head(prog) \in MainOps
  BY Peel DEF TickTypeOK
<1>2. \A s \in IrqScripts : \A i \in 1 .. Len(s.ops) : Allowed(s.ops[i])
  BY DEF TimerScripts, UsesTimerLib
<1>3. Allowed(Op("lo", 0)) /\ Allowed(Op("wfi", 0))
  BY DEF Allowed, Op, Stage
<1> QED BY <1>1, <1>2, <1>3 DEF MainOps

LEMMA CycleParts ==
  ASSUME NEW land \in BOOLEAN, NEW advance \in BOOLEAN, NEW finish \in BOOLEAN, NEW arrive \in BOOLEAN,
         PCycle(land, advance, finish, arrive)
  PROVE  TimerSees(land, advance) /\ Hart1 /\ (~Posts => NoPost(land)) /\ (Posts => posted' = ToPost)
<1>1. TimerSees(land, advance) /\ Hart1
  BY DEF PCycle, TimerSees
<1>2. posted' = IF Posts THEN ToPost ELSE IF land \/ posted = None THEN None ELSE [posted EXCEPT !.age = 1]
  BY DEF PCycle
<1>3. land => posted # None
  BY DEF PCycle
<1>4. /\ None.reg \notin {"MTIMECMP_HI", "MTIMECMP_LO"} /\ None.age \in {0, 1}
      /\ None = [reg |-> None.reg, val |-> None.val, age |-> None.age]
  BY DEF None
<1>5. ~Posts /\ posted = None => posted' = None
  BY <1>2
<1>6. posted' = None => OtherStore' /\ posted'.age \in {0, 1}
                        /\ posted' = [reg |-> posted'.reg, val |-> posted'.val, age |-> posted'.age]
  BY <1>4 DEF OtherStore
<1>7. ~Posts /\ posted # None => IF land THEN posted' = None ELSE posted' = [posted EXCEPT !.age = 1]
  BY <1>2
<1>8. ~Posts => NoPost(land)
  BY <1>5, <1>6, <1>7 DEF NoPost
<1> QED BY <1>1, <1>2, <1>8

LEMMA BlockedStep ==
  ASSUME TickInv, TimeLeft, NEW land \in BOOLEAN, NEW advance \in BOOLEAN, NEW finish \in BOOLEAN, NEW arrive \in BOOLEAN,
         PCycle(land, advance, finish, arrive), Blocked
  PROVE  TickInv'
<1>1. ~Posts
  BY DEF Blocked, Posts, Executes, IsStore
<1>2. TimerSees(land, advance) /\ NoPost(land)
  BY <1>1, CycleParts
<1>3. /\ prog' = prog /\ hops' = hops /\ in_isr' = in_isr /\ pmie' = pmie /\ isr_tab' = isr_tab /\ plic_tab' = plic_tab
      /\ mt' = mt /\ due' = due /\ spurious' = spurious
  BY DEF Blocked, ctlVars, histVars
<1>4. TablesOK'
  BY <1>3 DEF TickInv, TickTypeOK, TablesOK
<1>5. in_isr => ~pmie'
  BY <1>3 DEF TickInv
<1>6. OpsGo
  BY <1>3 DEF OpsGo
<1> QED BY <1>2, <1>3, <1>4, <1>5, <1>6, PlainStep

LEMMA MretStep ==
  ASSUME TickInv, TimeLeft, NEW land \in BOOLEAN, NEW advance \in BOOLEAN, NEW finish \in BOOLEAN, NEW arrive \in BOOLEAN,
         PCycle(land, advance, finish, arrive), Mret
  PROVE  TickInv'
<1>1. /\ in_isr /\ hops = <<>> /\ ~in_isr'
      /\ prog' = prog /\ hops' = hops /\ isr_tab' = isr_tab /\ plic_tab' = plic_tab
      /\ mt' = mt /\ due' = due /\ spurious' = spurious
  BY DEF Mret, histVars
<1>2. ~Posts
  BY <1>1 DEF Posts, IsStore, Ops
<1>3. TimerSees(land, advance) /\ NoPost(land)
  BY <1>2, CycleParts
<1>4. /\ TickTypeOK /\ (~Pending => Main) /\ Alone /\ ~spurious
      /\ Reading(mt["main"], prog, mtime) /\ Reading(mt["isr"], hops, mtime)
  BY DEF TickInv
<1>5. <<>> \in Seq(PlainOps)
  BY Handlers
<1>6. Pending' <=> hops' \in Cancels \cup Arms
  BY DEF Pending, Cancels, Arms, timer_cancel, timer_arm_us, timer_mtime, Op, Csr, St, ONES
<1>7. ~Pending /\ ~Pending'
  BY <1>1, <1>5, <1>6, PlainTail DEF Pending
<1>8. Main' /\ Alone'
  BY <1>1, <1>3, <1>4, <1>7, QuietProgram
<1>9. /\ mtime' \in Nat /\ mtimecmp' \in [hi : Nat, lo : Nat] /\ pmip' \subseteq {"MTI", "MEI"} /\ mtime <= mtime' /\ mtime \in Nat
  BY <1>3, <1>4, TimerMoves DEF TickTypeOK
<1>10. /\ posted' = [reg |-> posted'.reg, val |-> posted'.val, age |-> posted'.age] /\ posted'.age \in {0, 1}
       /\ ~OtherStore' => posted'.val \in Nat /\ (posted'.reg = "MTIMECMP_LO" => posted'.val < WORD)
  BY <1>1, <1>3, <1>4, Keeps
<1>11. TickTypeOK'
  <2>1. TablesOK'
    BY <1>1, <1>4 DEF TickTypeOK, TablesOK
  <2>2. Running(prog)' <=> Running(prog')
    BY DEF Running, Follows, Stage
  <2> QED BY <1>1, <1>4, <1>5, <1>9, <1>10, <2>1, <2>2 DEF TickTypeOK
<1>12. Reading(mt["main"], prog, mtime') /\ Reading(mt["isr"], hops, mtime')
  BY <1>4, <1>9, CodeLeads, ReadWaits
<1>13. Reading(mt["main"], prog, mtime)' /\ Reading(mt["isr"], hops, mtime)'
  BY <1>1, <1>12 DEF Reading, AtStage
<1> QED BY <1>1, <1>4, <1>7, <1>8, <1>11, <1>13 DEF TickInv

\* What every instruction but a store leaves alone.
LEMMA Instructs ==
  ASSUME TickInv, NEW land \in BOOLEAN, NEW advance \in BOOLEAN, NEW finish \in BOOLEAN, NEW arrive \in BOOLEAN,
         PCycle(land, advance, finish, arrive), ~IsStore
  PROVE  /\ TimerSees(land, advance) /\ NoPost(land)
         /\ TickTypeOK /\ TablesOK /\ (in_isr => ~pmie) /\ (~in_isr => hops = <<>>)
<1>1. ~Posts
  BY DEF Posts
<1> QED BY <1>1, CycleParts DEF TickInv, TickTypeOK

LEMMA LookStep ==
  ASSUME TickInv, TimeLeft, NEW land \in BOOLEAN, NEW advance \in BOOLEAN, NEW finish \in BOOLEAN, NEW arrive \in BOOLEAN,
         PCycle(land, advance, finish, arrive), Look1
  PROVE  TickInv'
<1>1. Ops # <<>> /\ Head(Ops).k \in {"await", "check"}
  BY DEF Look1, Load, At1
<1>2. ~IsStore
  BY <1>1 DEF IsStore
<1>3. TimerSees(land, advance) /\ NoPost(land) /\ TickTypeOK /\ TablesOK /\ (in_isr => ~pmie)
  BY <1>2, Instructs
<1>4. /\ in_isr' = in_isr /\ pmie' = pmie /\ isr_tab' = isr_tab /\ plic_tab' = plic_tab
      /\ mt' = mt /\ due' = due /\ spurious' = spurious
  BY DEF Look1, ctlVars, histVars
<1>5. Stage(Head(Ops)) \notin TimerStores \cup {"hi", "lo", "hi2", "again"}
  BY <1>1, StageOf DEF TimerStores
<1>6. Go \/ (prog' = prog /\ hops' = hops)
  BY DEF Look1
<1>7. OpsGo
  BY <1>1, <1>5, <1>6 DEF OpsGo, Go
<1>8. TablesOK'
  BY <1>3, <1>4 DEF TablesOK
<1> QED BY <1>3, <1>4, <1>7, <1>8, PlainStep

LEMMA ReadWordsStep ==
  ASSUME TickInv, TimeLeft, NEW land \in BOOLEAN, NEW advance \in BOOLEAN, NEW finish \in BOOLEAN, NEW arrive \in BOOLEAN,
         PCycle(land, advance, finish, arrive), ReadWords
  PROVE  TickInv'
<1>1. Ops # <<>> /\ Head(Ops).k \in {"flush", "read", "align", "right"}
  BY DEF ReadWords, Load, At1
<1>2. ~IsStore
  BY <1>1 DEF IsStore
<1>3. TimerSees(land, advance) /\ NoPost(land) /\ TickTypeOK /\ TablesOK /\ (in_isr => ~pmie)
  BY <1>2, Instructs
<1>4. /\ in_isr' = in_isr /\ pmie' = pmie /\ isr_tab' = isr_tab /\ plic_tab' = plic_tab
      /\ mt' = mt /\ due' = due /\ spurious' = spurious
  BY DEF ReadWords, ctlVars, histVars
<1>5. Stage(Head(Ops)) \notin TimerStores \cup {"hi", "lo", "hi2", "again"}
  BY <1>1, StageOf DEF TimerStores
<1>6. Go \/ (prog' = prog /\ hops' = hops)
  BY DEF ReadWords
<1>7. OpsGo
  BY <1>1, <1>5, <1>6 DEF OpsGo, Go
<1>8. TablesOK'
  BY <1>3, <1>4 DEF TablesOK
<1> QED BY <1>3, <1>4, <1>7, <1>8, PlainStep

LEMMA LoopsStep ==
  ASSUME TickInv, TimeLeft, NEW land \in BOOLEAN, NEW advance \in BOOLEAN, NEW finish \in BOOLEAN, NEW arrive \in BOOLEAN,
         PCycle(land, advance, finish, arrive), Loops
  PROVE  TickInv'
<1>1. Ops # <<>> /\ Head(Ops).k \in {"seen", "wfi", "until", "slot", "cut"}
  BY DEF Loops, Load, At1
<1>2. ~IsStore
  BY <1>1 DEF IsStore
<1>3. TimerSees(land, advance) /\ NoPost(land) /\ TickTypeOK /\ TablesOK /\ (in_isr => ~pmie) /\ (~in_isr => hops = <<>>)
  BY <1>2, Instructs
<1>4. ~in_isr
  BY <1>1, <1>3, HandlerHeads DEF Ops
<1>5. /\ in_isr' = in_isr /\ pmie' = pmie /\ isr_tab' = isr_tab /\ plic_tab' = plic_tab
      /\ mt' = mt /\ due' = due /\ spurious' = spurious
  BY DEF Loops, histVars
<1>6. Stage(Head(Ops)) \notin TimerStores \cup {"hi", "lo", "hi2", "again"}
      /\ (Head(Ops).k = "seen" => Stage(Head(Ops)) = "seen")
  BY <1>1, StageOf DEF TimerStores
<1>7. \/ Go
      \/ prog' = prog /\ hops' = hops
      \/ At1("seen") /\ Todo(<<Op("wfi", 0)>> \o Ops)
  BY DEF Loops, Go
<1>8. At1("seen") /\ Todo(<<Op("wfi", 0)>> \o Ops) =>
        AtStage(prog, {"seen"}) /\ prog' = <<Op("wfi", 0)>> \o prog /\ hops' = hops
  BY <1>4, <1>6 DEF At1, Todo, Ops, AtStage
<1>9. OpsGo
  BY <1>1, <1>4, <1>6, <1>7, <1>8 DEF OpsGo, Go
<1>10. TablesOK'
  BY <1>3, <1>5 DEF TablesOK
<1> QED BY <1>3, <1>4, <1>5, <1>9, <1>10, PlainStep

LEMMA LocalStep ==
  ASSUME TickInv, TimeLeft, TimerScripts,
         NEW land \in BOOLEAN, NEW advance \in BOOLEAN, NEW finish \in BOOLEAN, NEW arrive \in BOOLEAN,
         PCycle(land, advance, finish, arrive), Local
  PROVE  TickInv'
<1>1. Ops # <<>> /\ Head(Ops).k \in {"gie+", "gie-", "src+", "attach", "plic"}
  BY DEF Local, At1
<1>2. ~IsStore
  BY <1>1 DEF IsStore
<1>3. TimerSees(land, advance) /\ NoPost(land) /\ TickTypeOK /\ TablesOK /\ (in_isr => ~pmie) /\ (~in_isr => hops = <<>>)
  BY <1>2, Instructs
<1>4. in_isr => Head(Ops).k = "gie-"
  BY <1>1, <1>3, HandlerHeads DEF Ops
<1>5. /\ in_isr' = in_isr /\ mt' = mt /\ due' = due /\ spurious' = spurious /\ Go
  BY DEF Local, histVars
<1>6. Stage(Head(Ops)) \notin TimerStores \cup {"hi", "lo", "hi2", "again"}
  BY <1>1, StageOf DEF TimerStores
<1>7. OpsGo
  BY <1>1, <1>5, <1>6 DEF OpsGo, Go
<1>8. in_isr => ~pmie'
  BY <1>3, <1>4 DEF Local, At1
<1>9. in_isr => isr_tab' = isr_tab
  BY <1>4 DEF Local, At1
<1>10. \/ isr_tab' = isr_tab /\ plic_tab' = plic_tab
       \/ At1("attach") /\ isr_tab' = [isr_tab EXCEPT ![Head(Ops).cause] = V] /\ plic_tab' = plic_tab
       \/ At1("plic") /\ isr_tab' = isr_tab /\ plic_tab' = [plic_tab EXCEPT ![Head(Ops).src] = V]
  BY DEF Local
<1>11. At1("attach") \/ At1("plic") => ~in_isr /\ prog # <<>> /\ Allowed(Head(prog)) /\ Ops = prog /\ V = Head(prog).v
  <2>1. At1("attach") \/ At1("plic") => ~in_isr
    BY <1>4 DEF At1
  <2>2. ~in_isr => Ops = prog
    BY DEF Ops
  <2> QED BY <1>1, <1>3, <2>1, <2>2, ProgramHeads DEF V
<1>12. CASE isr_tab' = isr_tab /\ plic_tab' = plic_tab
  BY <1>3, <1>5, <1>7, <1>8, <1>12, PlainStep DEF TablesOK
<1>13. CASE At1("attach") /\ isr_tab' = [isr_tab EXCEPT ![Head(Ops).cause] = V] /\ plic_tab' = plic_tab
  <2> DEFINE o == Head(prog)
  <2>1. o.k = "attach" /\ ((o.cause = "MTI" /\ o.v \in {"once", "tick"}) \/ (o.cause = "MEI" /\ o.v = "plic_mei_isr"))
    BY <1>11, <1>13 DEF At1, Allowed
  <2>2. isr_tab' = [isr_tab EXCEPT ![o.cause] = o.v]
    BY <1>11, <1>13
  <2>3. TablesOK'
    <3>1. /\ isr_tab'["MTI"] = (IF o.cause = "MTI" THEN o.v ELSE isr_tab["MTI"])
          /\ isr_tab'["MEI"] = (IF o.cause = "MEI" THEN o.v ELSE isr_tab["MEI"])
      BY <1>3, <2>1, <2>2 DEF TablesOK
    <3>2. isr_tab' \in [{"MTI", "MEI"} -> {"none", "once", "tick", "plic_mei_isr"}]
      BY <1>3, <2>1, <2>2 DEF TablesOK
    <3> QED BY <1>3, <1>13, <2>1, <3>1, <3>2 DEF TablesOK
  <2>4. isr_tab'["MTI"] = "tick" => isr_tab["MTI"] = "tick" \/ Rearms(prog)
    <3>1. o = prog[1] /\ 1 \in 1 .. Len(prog)
      BY <1>3, <1>11, <1>13, Peel DEF TickTypeOK
    <3>2. o.v = "tick" => Rearms(prog)
      BY <2>1, <3>1 DEF Rearms
    <3>3. isr_tab'["MTI"] = IF o.cause = "MTI" THEN o.v ELSE isr_tab["MTI"]
      BY <1>3, <2>1, <2>2 DEF TablesOK
    <3> QED BY <3>2, <3>3
  <2> QED BY <1>3, <1>5, <1>7, <1>8, <1>9, <2>3, <2>4, PlainStep
<1>14. CASE At1("plic") /\ isr_tab' = isr_tab /\ plic_tab' = [plic_tab EXCEPT ![Head(Ops).src] = V]
  <2>1. V \in {"fft_isr", "i2s_isr"}
    BY <1>11, <1>14 DEF At1, Allowed
  <2>2. DOMAIN plic_tab' = DOMAIN plic_tab
    BY <1>14
  <2>3. \A s \in DOMAIN plic_tab : plic_tab'[s] \in {"none", "fft_isr", "i2s_isr"}
    BY <1>3, <1>14, <2>1 DEF TablesOK
  <2>4. TablesOK'
    BY <1>3, <1>14, <2>2, <2>3 DEF TablesOK
  <2> QED BY <1>3, <1>5, <1>7, <1>8, <1>14, <2>4, PlainStep
<1> QED BY <1>10, <1>12, <1>13, <1>14

LEMMA Claims ==
  plic_claim \in {0, PLIC_SRC_FFT, PLIC_SRC_I2S}
<1>1. plic_lines \in {{}, {5}, {6}, {5, 6}}
  BY DEF plic_lines, PLIC_SRC_FFT, PLIC_SRC_I2S
<1>2. \A L \in {{5}, {6}, {5, 6}} : \E s \in L : \A t \in L : s <= t
  OBVIOUS
<1>3. plic_lines # {} => plic_claim \in plic_lines
  BY <1>1, <1>2 DEF plic_claim
<1> HIDE DEF plic_lines
<1>4. plic_lines = {} => plic_claim = 0
  BY DEF plic_claim
<1> QED BY <1>1, <1>3, <1>4 DEF PLIC_SRC_FFT, PLIC_SRC_I2S

LEMMA HandleStep ==
  ASSUME TickInv, TimeLeft, TimerScripts,
         NEW land \in BOOLEAN, NEW advance \in BOOLEAN, NEW finish \in BOOLEAN, NEW arrive \in BOOLEAN,
         PCycle(land, advance, finish, arrive), Handle
  PROVE  TickInv'
<1>1. Ops # <<>> /\ Head(Ops).k \in {"irq_seen", "claim", "again"}
  BY DEF Handle, Load, At1
<1>2. ~IsStore
  BY <1>1 DEF IsStore
<1>3. TimerSees(land, advance) /\ NoPost(land) /\ TickTypeOK /\ TablesOK /\ (in_isr => ~pmie) /\ (~in_isr => hops = <<>>)
  BY <1>2, Instructs
<1>4. in_isr /\ Ops = hops
  <2>1. ~in_isr => Ops = prog /\ prog # <<>> /\ Allowed(Head(prog))
    BY <1>1, <1>3, ProgramHeads DEF Ops
  <2>2. in_isr
    BY <1>1, <2>1 DEF Allowed
  <2> QED BY <2>2 DEF Ops
<1>5. /\ in_isr' = in_isr /\ pmie' = pmie /\ isr_tab' = isr_tab /\ plic_tab' = plic_tab
      /\ mt' = mt /\ due' = due /\ spurious' = spurious
  BY DEF Handle, ctlVars, histVars
<1>6. \/ At1("irq_seen") /\ Go
      \/ At1("claim") /\ Go
      \/ /\ At1("claim") /\ plic_claim # 0 /\ plic_tab[plic_claim] # "none"
         /\ Todo(Serve(plic_tab[plic_claim]) \o Tail(Ops))
      \/ At1("again") /\ \E c \in {timer_arm_us(2), timer_cancel} : Todo(c \o Tail(Ops))
  BY DEF Handle, Load
<1>7. TablesOK'
  BY <1>3, <1>5 DEF TablesOK
<1>8. CASE (At1("irq_seen") \/ At1("claim")) /\ Go
  <2>1. Stage(Head(Ops)) \notin TimerStores \cup {"hi", "lo", "hi2", "again"}
    BY <1>8, StageOf DEF TimerStores, At1
  <2>2. OpsGo
    BY <1>1, <1>8, <2>1 DEF OpsGo, Go
  <2> QED BY <1>3, <1>5, <1>7, <2>2, PlainStep
<1>9. CASE /\ At1("claim") /\ plic_claim # 0 /\ plic_tab[plic_claim] # "none"
           /\ Todo(Serve(plic_tab[plic_claim]) \o Tail(Ops))
  <2>1. hops \in Seq(PlainOps) /\ Tail(hops) \in Seq(PlainOps)
    <3>1. hops \in Seq(PlainOps) /\ hops # <<>>
      BY <1>1, <1>3, <1>4, <1>9, HandlerHeads DEF At1
    <3> QED BY <3>1, PlainTail
  <2>2. plic_tab[plic_claim] \in {"fft_isr", "i2s_isr"}
    <3>1. plic_claim \in DOMAIN plic_tab
      BY <1>3, <1>9, Claims DEF TablesOK
    <3> QED BY <1>3, <1>9, <3>1 DEF TablesOK
  <2>3. Serve(plic_tab[plic_claim]) \in Seq(PlainOps)
    BY <2>2, Handlers
  <2>4. hops' = Serve(plic_tab[plic_claim]) \o Tail(hops) /\ prog' = prog
    BY <1>4, <1>9 DEF Todo
  <2>5. hops' \in Seq(PlainOps)
    BY <2>1, <2>3, <2>4, PlainSeqs
  <2>6. OpsGo
    BY <1>4, <2>1, <2>4, <2>5 DEF OpsGo
  <2> QED BY <1>3, <1>5, <1>7, <2>6, PlainStep
<1>10. CASE At1("again") /\ \E c \in {timer_arm_us(2), timer_cancel} : Todo(c \o Tail(Ops))
  <2>1. Head(hops).k = "again" /\ Tail(hops) = <<>> /\ hops # <<>>
    BY <1>1, <1>3, <1>4, <1>10, HandlerHeads DEF At1
  <2>2. prog' = prog /\ \E c \in {timer_arm_us(2), timer_cancel} : hops' = c \o <<>>
    BY <1>4, <1>10, <2>1 DEF Todo
  <2>3. hops' \in {timer_arm_us(2), timer_cancel}
    BY <2>2, Calls
  <2>4. AtStage(hops, {"again"})
    BY <2>1, StageOf DEF AtStage
  <2>5. OpsGo
    BY <1>4, <2>2, <2>3, <2>4 DEF OpsGo
  <2> QED BY <1>3, <1>5, <1>7, <2>5, PlainStep
<1> QED BY <1>6, <1>8, <1>9, <1>10

\* The steps of timer_mtime, in the program and in a handler.
LEMMA TimeStep ==
  ASSUME TickInv, TimeLeft, NEW land \in BOOLEAN, NEW advance \in BOOLEAN, NEW finish \in BOOLEAN, NEW arrive \in BOOLEAN,
         PCycle(land, advance, finish, arrive), Ops # <<>>, Head(Ops).k \in {"hi", "lo", "hi2", "target"},
         UNCHANGED <<ctlVars, histVars>>,
         NEW r \in Times, mt' = [mt EXCEPT ![Ctx] = r],
         NEW after, Todo(after), Reading(r, after, mtime'),
         after = Tail(Ops) \/ (Head(Ops).k = "hi2" /\ after = <<Op("lo", 0)>> \o Tail(Ops))
  PROVE  TickInv'
<1>1. ~IsStore
  BY DEF IsStore
<1>2. TimerSees(land, advance) /\ NoPost(land) /\ TickTypeOK /\ TablesOK /\ (in_isr => ~pmie) /\ (~in_isr => hops = <<>>)
  BY <1>1, Instructs
<1>3. /\ in_isr' = in_isr /\ pmie' = pmie /\ isr_tab' = isr_tab /\ plic_tab' = plic_tab
      /\ due' = due /\ spurious' = spurious
  BY DEF ctlVars, histVars
<1>4. TablesOK'
  BY <1>2, <1>3 DEF TablesOK
<1>5. mt \in [{"main", "isr"} -> Times]
  BY <1>2 DEF TickTypeOK
<1>6. mt' \in [{"main", "isr"} -> Times]
  BY <1>5 DEF Ctx
<1>7. /\ in_isr => mt'["isr"] = r /\ mt'["main"] = mt["main"]
      /\ ~in_isr => mt'["main"] = r /\ mt'["isr"] = mt["isr"]
  BY <1>5 DEF Ctx
<1>8. /\ in_isr => prog' = prog /\ hops' = after /\ Ops = hops
      /\ ~in_isr => prog' = after /\ hops' = hops /\ Ops = prog
  BY DEF Todo, Ops
<1>9. Stage(Head(Ops)) \notin TimerStores \cup {"again"} /\ (Head(Ops).k = "hi2" => Stage(Head(Ops)) = "hi2")
  BY StageOf DEF TimerStores
<1>10. ProgramGoes
  BY <1>7, <1>8, <1>9 DEF ProgramGoes, AtStage
<1>11. HandlerGoes
  BY <1>7, <1>8, <1>9 DEF HandlerGoes, AtStage
<1>12. mtime \in Nat /\ mtime' \in Nat /\ mtime <= mtime'
  BY <1>2, TimerMoves DEF TickTypeOK
<1>13. Reading(mt["main"], prog, mtime') /\ Reading(mt["isr"], hops, mtime')
  BY <1>2, <1>12, CodeLeads, ReadWaits DEF TickInv
<1>14. Reading(mt'["main"], prog', mtime') /\ Reading(mt'["isr"], hops', mtime')
  BY <1>7, <1>8, <1>13
<1> QED BY <1>2, <1>3, <1>4, <1>6, <1>7, <1>8, <1>10, <1>11, <1>14, QuietStep

LEMMA CtxReads ==
  ASSUME TickInv
  PROVE  /\ mt \in [{"main", "isr"} -> Times] /\ Ctx \in {"main", "isr"} /\ mt[Ctx] \in Times
         /\ Leads(Ops) /\ Reading(mt[Ctx], Ops, mtime) /\ mtime \in Nat
<1>1. TickTypeOK /\ Reading(mt["main"], prog, mtime) /\ Reading(mt["isr"], hops, mtime)
  BY DEF TickInv
<1>2. mt \in [{"main", "isr"} -> Times] /\ mtime \in Nat
  BY <1>1 DEF TickTypeOK
<1>3. Leads(prog) /\ Leads(hops)
  BY <1>1, CodeLeads
<1>4. CASE in_isr
  BY <1>1, <1>2, <1>3, <1>4 DEF Ctx, Ops
<1>5. CASE ~in_isr
  BY <1>1, <1>2, <1>3, <1>5 DEF Ctx, Ops
<1> QED BY <1>4, <1>5

LEMMA TargetStep ==
  ASSUME TickInv, TimeLeft, TimerScripts,
         NEW land \in BOOLEAN, NEW advance \in BOOLEAN, NEW finish \in BOOLEAN, NEW arrive \in BOOLEAN,
         PCycle(land, advance, finish, arrive), Target
  PROVE  TickInv'
<1>1. Ops # <<>> /\ Head(Ops).k = "target" /\ Todo(Tail(Ops)) /\ UNCHANGED <<ctlVars, histVars>>
  BY DEF Target, At1, Go
<1>2. /\ mt \in [{"main", "isr"} -> Times] /\ Ctx \in {"main", "isr"} /\ mt[Ctx] \in Times
      /\ Leads(Ops)
  BY CtxReads
<1>3. V \in Nat
  <2>1. TickTypeOK
    BY DEF TickInv
  <2>2. in_isr => V = 2
    BY <1>1, <2>1, HandlerHeads DEF V, Ops
  <2>3. ~in_isr => V \in Nat
    BY <1>1, <2>1, ProgramHeads DEF V, Ops, Allowed
  <2> QED BY <2>2, <2>3
<1>4. TimeRead \in Nat
  <2>1. mt[Ctx].hi \in Nat /\ mt[Ctx].lo \in Nat /\ WORD \in Nat
    BY <1>2, WordAssumption DEF Times
  <2> QED BY <2>1 DEF TimeRead
<1> DEFINE r == [mt[Ctx] EXCEPT !.target = TimeRead + V]
<1>5. r \in Times
  BY <1>2, <1>3, <1>4 DEF Times
<1>6. mt' = [mt EXCEPT ![Ctx] = r]
  BY DEF Target
<1>7. ~AtStage(Tail(Ops), Inner)
  BY <1>1, <1>2, StageOf DEF Leads, Opened
<1> HIDE DEF r
<1>8. Reading(r, Tail(Ops), mtime')
  BY <1>7 DEF Reading, AtStage, Inner
<1> QED BY <1>1, <1>5, <1>6, <1>8, TimeStep

LEMMA ReadTimeStep ==
  ASSUME TickInv, TimeLeft, NEW land \in BOOLEAN, NEW advance \in BOOLEAN, NEW finish \in BOOLEAN, NEW arrive \in BOOLEAN,
         PCycle(land, advance, finish, arrive), ReadTime
  PROVE  TickInv'
<1>1. Ops # <<>> /\ UNCHANGED <<ctlVars, histVars>>
  BY DEF ReadTime, Load, At1
<1>2. /\ mt \in [{"main", "isr"} -> Times] /\ Ctx \in {"main", "isr"} /\ mt[Ctx] \in Times
      /\ Leads(Ops) /\ Reading(mt[Ctx], Ops, mtime) /\ mtime \in Nat
  BY CtxReads
<1>3. mtime' \in Nat /\ mtime <= mtime'
  <2>1. TickTypeOK /\ TimerSees(land, advance)
    BY CycleParts DEF TickInv
  <2> QED BY <1>2, <2>1, TimerMoves
<1>4. hi_of(mtime) \in Nat /\ lo_of(mtime) \in Nat
  BY <1>2, Words
<1>5. \A k : Head(Ops).k = k /\ k # "st" => AtStage(Ops, {k})
  BY <1>1, StageOf DEF AtStage
<1>6. CASE At1("hi") /\ mt' = [mt EXCEPT ![Ctx].hi = hi_of(mtime), ![Ctx].at = mtime, ![Ctx].from = mtime] /\ Go
  <2> DEFINE r == [[[mt[Ctx] EXCEPT !.hi = hi_of(mtime)] EXCEPT !.at = mtime] EXCEPT !.from = mtime]
  <2>1. r \in Times
    BY <1>2, <1>4 DEF Times
  <2>2. mt' = [mt EXCEPT ![Ctx] = r]
    BY <1>2, <1>6
  <2>3. Reading(r, Tail(Ops), mtime')
    BY <1>2, <1>3, <1>5, <1>6, ReadHigh DEF At1
  <2> HIDE DEF r
  <2> QED BY <1>1, <1>6, <2>1, <2>2, <2>3, TimeStep DEF At1, Go
<1>7. CASE At1("lo") /\ mt' = [mt EXCEPT ![Ctx].lo = lo_of(mtime)] /\ Go
  <2> DEFINE r == [mt[Ctx] EXCEPT !.lo = lo_of(mtime)]
  <2>1. r \in Times
    BY <1>2, <1>4 DEF Times
  <2>2. mt' = [mt EXCEPT ![Ctx] = r]
    BY <1>2, <1>7
  <2>3. Reading(r, Tail(Ops), mtime')
    BY <1>2, <1>3, <1>5, <1>7, ReadLow DEF At1
  <2> HIDE DEF r
  <2> QED BY <1>1, <1>7, <2>1, <2>2, <2>3, TimeStep DEF At1, Go
<1>8. CASE At1("hi2") /\ hi_of(mtime) = mt[Ctx].hi /\ Go /\ UNCHANGED mt
  <2>1. mt' = [mt EXCEPT ![Ctx] = mt[Ctx]]
    BY <1>2, <1>8
  <2>2. Reading(mt[Ctx], Tail(Ops), mtime')
    BY <1>2, <1>3, <1>5, <1>8, ReadSame DEF At1
  <2> QED BY <1>1, <1>2, <1>8, <2>1, <2>2, TimeStep DEF At1, Go
<1>9. CASE /\ At1("hi2") /\ hi_of(mtime) # mt[Ctx].hi /\ Todo(<<Op("lo", 0)>> \o Tail(Ops))
           /\ mt' = [mt EXCEPT ![Ctx].hi = hi_of(mtime), ![Ctx].at = mtime]
  <2> DEFINE r == [[mt[Ctx] EXCEPT !.hi = hi_of(mtime)] EXCEPT !.at = mtime]
  <2>1. r \in Times
    BY <1>2, <1>4 DEF Times
  <2>2. mt' = [mt EXCEPT ![Ctx] = r]
    BY <1>2, <1>9
  <2>3. AtStage(<<Op("lo", 0)>> \o Tail(Ops), {"lo"})
    <3>1. TickTypeOK
      BY DEF TickInv
    <3>2. ASSUME ~in_isr
          PROVE  AtStage(<<Op("lo", 0)>> \o Tail(Ops), {"lo"})
      <4>1. Ops = prog /\ prog \in Seq(MainOps) /\ Op("lo", 0) \in MainOps
        BY <3>1, <3>2 DEF Ops, TickTypeOK, MainOps
      <4>2. Tail(Ops) \in Seq(MainOps)
        BY <1>1, <4>1, Peel
      <4>3. Head(<<Op("lo", 0)>> \o Tail(Ops)) = Op("lo", 0) /\ <<Op("lo", 0)>> \o Tail(Ops) # <<>>
        BY <4>1, <4>2, Push
      <4> QED BY <4>3, Stages DEF AtStage
    <3>3. ASSUME in_isr
          PROVE  AtStage(<<Op("lo", 0)>> \o Tail(Ops), {"lo"})
      <4>1. Ops = hops /\ hops \in Seq(PlainOps) \cup Cancels \cup Arms
        BY <3>1, <3>3 DEF Ops, TickTypeOK
      <4>2. AtStage(hops, {"hi2"})
        BY <1>5, <1>9, <4>1 DEF At1
      <4>3. hops \notin Seq(PlainOps)
        BY <4>2, PlainTail DEF AtStage
      <4> QED BY <4>1, <4>2, <4>3, HandlerTail
    <3> QED BY <3>2, <3>3
  <2>4. Reading(r, <<Op("lo", 0)>> \o Tail(Ops), mtime')
    BY <1>2, <1>3, <1>5, <1>9, <2>3, ReadAgain DEF At1
  <2> HIDE DEF r
  <2> QED BY <1>1, <1>9, <2>1, <2>2, <2>4, TimeStep DEF At1
<1> QED BY <1>6, <1>7, <1>8, <1>9 DEF ReadTime, Load

LEMMA StoreKinds ==
  ASSUME TickInv, TimerScripts,
         NEW land \in BOOLEAN, NEW advance \in BOOLEAN, NEW finish \in BOOLEAN, NEW arrive \in BOOLEAN,
         PCycle(land, advance, finish, arrive), PStore
  PROVE  \/ /\ Stage(Head(Ops)) \notin TimerStores \cup {"hi", "lo", "hi2", "again"} /\ due' = due
            /\ OtherStore' /\ posted'.age \in {0, 1}
            /\ posted' = [reg |-> posted'.reg, val |-> posted'.val, age |-> posted'.age]
         \/ Stage(Head(Ops)) = "MTIMECMP_HI" /\ posted' = [reg |-> "MTIMECMP_HI", val |-> ONES, age |-> 0] /\ due' = due
         \/ Stage(Head(Ops)) = "MTIMECMP_LO" /\ posted' = [reg |-> "MTIMECMP_LO", val |-> ONES, age |-> 0] /\ due' = due
         \/ /\ Stage(Head(Ops)) = "st_lo" /\ due' = due
            /\ posted' = [reg |-> "MTIMECMP_LO", val |-> lo_of(mt[Ctx].target), age |-> 0]
         \/ /\ Stage(Head(Ops)) = "st_hi" /\ due' = mt[Ctx].target
            /\ posted' = [reg |-> "MTIMECMP_HI", val |-> hi_of(mt[Ctx].target), age |-> 0]
         \/ Stage(Head(Ops)) = "cancel_hi" /\ posted' = [reg |-> "MTIMECMP_HI", val |-> ONES, age |-> 0] /\ due' = NEVER
<1> DEFINE o == Head(Ops)
<1>1. Ops # <<>> /\ o.k \in {"st", "st_lo", "st_hi", "cancel_hi", "ctrl", "begin"}
  BY DEF PStore, Posts, IsStore
<1>2. posted' = ToPost
  BY CycleParts DEF PStore
<1>3. due' = IF At1("st_hi") THEN mt[Ctx].target ELSE IF At1("cancel_hi") THEN NEVER ELSE due
  BY DEF PStore
<1>4. \A k : At1(k) <=> o.k = k
  BY <1>1 DEF At1
<1>5. CASE o.k = "st_lo"
  BY <1>2, <1>3, <1>4, <1>5, StageOf DEF ToPost
<1>6. CASE o.k = "st_hi"
  BY <1>2, <1>3, <1>4, <1>6, StageOf DEF ToPost
<1>7. CASE o.k = "cancel_hi"
  BY <1>2, <1>3, <1>4, <1>7, StageOf DEF ToPost
<1>8. CASE o.k = "st"
  <2>1. posted' = [reg |-> o.reg, val |-> V, age |-> 0] /\ due' = due
    BY <1>2, <1>3, <1>4, <1>8 DEF ToPost
  <2>2. CASE o.reg \in {"MTIMECMP_HI", "MTIMECMP_LO"}
    <3>1. V = ONES
      <4>1. TickTypeOK
        BY DEF TickInv
      <4>2. in_isr => V = ONES
        BY <1>1, <1>8, <2>2, <4>1, HandlerHeads DEF V, Ops
      <4>3. ~in_isr => V = ONES
        BY <1>1, <1>8, <2>2, <4>1, ProgramHeads, StageOf DEF V, Ops, Allowed
      <4> QED BY <4>2, <4>3
    <3> QED BY <1>8, <2>1, <2>2, <3>1, StageOf
  <2>3. CASE o.reg \notin {"MTIMECMP_HI", "MTIMECMP_LO"}
    <3>1. Stage(o) = "st"
      BY <1>8, <2>3, StageOf
    <3>2. OtherStore' /\ posted'.age \in {0, 1}
          /\ posted' = [reg |-> posted'.reg, val |-> posted'.val, age |-> posted'.age]
      BY <2>1, <2>3 DEF OtherStore
    <3> QED BY <2>1, <3>1, <3>2 DEF TimerStores
  <2> QED BY <2>2, <2>3
<1>9. CASE o.k \in {"ctrl", "begin"}
  <2>1. due' = due
    BY <1>3, <1>4, <1>9
  <2>2. \E v : posted' = [reg |-> "I2S_CTRL", val |-> v, age |-> 0]
    <3>1. CASE o.k = "ctrl"
      <4>1. posted' = [reg |-> "I2S_CTRL", val |-> [ictrl EXCEPT ![Head(Ops).f] = V], age |-> 0]
        BY <1>2, <1>4, <3>1 DEF ToPost
      <4> QED BY <4>1
    <3>2. CASE o.k = "begin"
      <4>1. posted' = [reg |-> "I2S_CTRL", age |-> 0,
                       val |-> [I2sReset EXCEPT !.enable = TRUE, !.chan = V, !.master = ictrl.master]]
        BY <1>2, <1>4, <3>2 DEF ToPost
      <4> DEFINE v == [I2sReset EXCEPT !.enable = TRUE, !.chan = V, !.master = ictrl.master]
      <4> HIDE DEF v
      <4>2. posted' = [reg |-> "I2S_CTRL", val |-> v, age |-> 0]
        BY <4>1 DEF v
      <4> QED BY <4>2
    <3> QED BY <1>9, <3>1, <3>2
  <2>3. OtherStore' /\ posted'.age \in {0, 1}
        /\ posted' = [reg |-> posted'.reg, val |-> posted'.val, age |-> posted'.age]
    BY <2>2 DEF OtherStore
  <2>4. Stage(o) = o.k
    BY <1>9, StageOf
  <2> QED BY <1>9, <2>1, <2>3, <2>4 DEF TimerStores
<1> QED BY <1>1, <1>5, <1>6, <1>7, <1>8, <1>9

LEMMA StoreStep ==
  ASSUME TickInv, TimeLeft, TimerScripts,
         NEW land \in BOOLEAN, NEW advance \in BOOLEAN, NEW finish \in BOOLEAN, NEW arrive \in BOOLEAN,
         PCycle(land, advance, finish, arrive), PStore
  PROVE  TickInv'
<1>1. /\ Ops # <<>> /\ posted = None /\ Todo(Tail(Ops))
      /\ in_isr' = in_isr /\ pmie' = pmie /\ isr_tab' = isr_tab /\ plic_tab' = plic_tab
      /\ mt' = mt /\ spurious' = spurious
  BY DEF PStore, Posts, IsStore, Go, ctlVars
<1>2. /\ TickTypeOK /\ (Pending => Handler) /\ (~Pending => Main) /\ Alone /\ ~spurious
      /\ (~in_isr => hops = <<>>) /\ (in_isr => ~pmie)
      /\ Reading(mt["main"], prog, mtime) /\ Reading(mt["isr"], hops, mtime)
  BY DEF TickInv
<1>3. TimerSees(land, advance)
  BY CycleParts
<1>4. /\ in_isr => Ops = hops /\ Ctx = "isr" /\ prog' = prog /\ hops' = Tail(hops)
      /\ ~in_isr => Ops = prog /\ Ctx = "main" /\ prog' = Tail(prog) /\ hops' = hops
  BY <1>1 DEF Ops, Ctx, Todo
<1>5. Leads(prog) /\ Leads(hops) /\ mt["main"] \in Times /\ mt["isr"] \in Times
  BY <1>2, CodeLeads
<1>6. prog \in Seq(MainOps) /\ Running(prog) /\ hops \in Seq(PlainOps) \cup Cancels \cup Arms
  BY <1>2 DEF TickTypeOK
<1>7. TablesOK'
  BY <1>1, <1>2 DEF TickTypeOK, TablesOK
<1>8. CASE /\ Stage(Head(Ops)) \notin TimerStores \cup {"hi", "lo", "hi2", "again"} /\ due' = due
           /\ OtherStore' /\ posted'.age \in {0, 1}
           /\ posted' = [reg |-> posted'.reg, val |-> posted'.val, age |-> posted'.age]
  <2>1. NoPost(land)
    BY <1>1, <1>8 DEF NoPost
  <2>2. OpsGo
    BY <1>1, <1>8 DEF OpsGo
  <2> QED BY <1>1, <1>2, <1>3, <1>7, <1>8, <2>1, <2>2, PlainStep
<1>9. ASSUME \/ /\ Stage(Head(Ops)) = "MTIMECMP_HI" /\ due' = due
                /\ posted' = [reg |-> "MTIMECMP_HI", val |-> ONES, age |-> 0]
             \/ /\ Stage(Head(Ops)) = "MTIMECMP_LO" /\ due' = due
                /\ posted' = [reg |-> "MTIMECMP_LO", val |-> ONES, age |-> 0]
             \/ /\ Stage(Head(Ops)) = "st_lo" /\ due' = due
                /\ posted' = [reg |-> "MTIMECMP_LO", val |-> lo_of(mt[Ctx].target), age |-> 0]
             \/ /\ Stage(Head(Ops)) = "st_hi" /\ due' = mt[Ctx].target
                /\ posted' = [reg |-> "MTIMECMP_HI", val |-> hi_of(mt[Ctx].target), age |-> 0]
             \/ /\ Stage(Head(Ops)) = "cancel_hi" /\ due' = NEVER
                /\ posted' = [reg |-> "MTIMECMP_HI", val |-> ONES, age |-> 0]
      PROVE  TickInv'
  <2>1. Stage(Head(Ops)) \in TimerStores /\ Stage(Head(Ops)) \notin {"hi", "lo", "hi2"}
    BY <1>9 DEF TimerStores
  <2>2. mtime \in Nat /\ mtime' \in Nat /\ mtime <= mtime' /\ mtimecmp' \in [hi : Nat, lo : Nat] /\ pmip' \subseteq {"MTI", "MEI"}
    BY <1>2, <1>3, TimerMoves DEF TickTypeOK
  <2>3. Reading(mt["main"], prog', mtime') /\ Reading(mt["isr"], hops', mtime')
    BY <1>1, <1>2, <1>4, <1>5, <2>1, <2>2, ReadOther
  <2>4. Reading(mt["main"], prog, mtime)' /\ Reading(mt["isr"], hops, mtime)'
    BY <1>1, <2>3
  <2>5. mt[Ctx].target \in Nat
    BY <1>4, <1>5 DEF Times
  <2>6. /\ ONES \in Nat /\ NEVER \in Nat /\ ONES < WORD /\ lo_of(mt[Ctx].target) \in Nat /\ hi_of(mt[Ctx].target) \in Nat
        /\ lo_of(mt[Ctx].target) < WORD
    <3>1. ONES < WORD
      BY WordAssumption DEF ONES
    <3> QED BY <2>5, <3>1, Words, Never
  <2>7. /\ posted' = [reg |-> posted'.reg, val |-> posted'.val, age |-> posted'.age] /\ posted'.age \in {0, 1}
        /\ posted'.val \in Nat /\ (posted'.reg = "MTIMECMP_LO" => posted'.val < WORD) /\ due' \in Nat
    BY <1>2, <1>9, <2>5, <2>6 DEF TickTypeOK
  <2>8. Pending' <=> hops' \in Cancels \cup Arms
    BY DEF Pending, Cancels, Arms, timer_cancel, timer_arm_us, timer_mtime, Op, Csr, St, ONES
  <2>9. <<>> \in Seq(PlainOps) /\ <<>> \notin Cancels \cup Arms
    BY Handlers, PlainTail
  <2>10. CASE ~in_isr
    <3>1. ~Pending /\ ~Pending' /\ hops' = <<>>
      BY <1>2, <1>4, <2>8, <2>9, <2>10 DEF Pending
    <3>2. prog # <<>> /\ prog' = Tail(prog) /\ Ops = prog /\ Ctx = "main"
      BY <1>1, <1>4, <2>10
    <3>3. Main' /\ Alone'
      <4>1. Main /\ Alone
        BY <1>2, <3>1
      <4> QED BY <1>1, <1>2, <1>3, <1>9, <3>1, <3>2, <4>1, StoreProgram
    <3>4. prog' \in Seq(MainOps) /\ Running(prog')
      BY <1>6, <3>2, ProgramTail
    <3>5. Running(prog)' <=> Running(prog')
      BY DEF Running, Follows, Stage
    <3>6. TickTypeOK'
      BY <1>1, <1>2, <1>7, <2>2, <2>7, <2>9, <3>1, <3>4, <3>5 DEF TickTypeOK
    <3> QED BY <1>1, <1>2, <2>4, <2>10, <3>1, <3>3, <3>6 DEF TickInv
  <2>11. CASE in_isr
    <3>1. hops # <<>> /\ hops' = Tail(hops) /\ Ops = hops /\ Ctx = "isr" /\ prog' = prog
      BY <1>1, <1>4, <2>11
    <3>2. Pending /\ Handler
      BY <1>2, <1>6, <2>1, <3>1, PlainTail DEF Pending
    <3>3. /\ hops \in Cancels => Stage(Head(hops)) \in {"irq_seen", "MTIMECMP_HI", "MTIMECMP_LO", "cancel_hi"}
          /\ hops \in Cancels => Tail(hops) \in Cancels \cup {<<>>}
      BY <3>2, HandlerTail DEF Pending
    <3>4. \/ Head(hops) \in {St("MTIMECMP_HI", ONES), St("MTIMECMP_LO", ONES), Csr("st_lo")} /\ Tail(hops) \in Cancels \cup Arms
          \/ Head(hops) \in {Csr("st_hi"), Csr("cancel_hi")} /\ Tail(hops) = <<>>
      <4>1. Stage(Head(hops)) \in TimerStores
        BY <2>1, <3>1
      <4> QED BY <3>2, <4>1, HandlerTail, Stages DEF Pending, TimerStores
    <3>5. Stage(Head(hops)) \in {"MTIMECMP_HI", "MTIMECMP_LO", "st_lo"} => Pending' /\ (Untimed(prog) \/ hops' \in Cancels)
      <4>1. Stage(Head(hops)) \in {"MTIMECMP_HI", "MTIMECMP_LO", "st_lo"} => Tail(hops) \in Cancels \cup Arms
        BY <3>4, Stages
      <4>2. Untimed(prog) \/ hops \in Cancels
        BY <3>2 DEF Handler
      <4> QED BY <2>8, <2>9, <3>1, <3>3, <4>1, <4>2
    <3>6. Stage(Head(hops)) \in {"st_hi", "cancel_hi"} => ~Pending' /\ hops' = <<>>
      BY <2>8, <2>9, <3>1, <3>4, Stages
    <3>7. Stage(Head(hops)) = "st_hi" => Untimed(prog)
      BY <3>2, <3>3 DEF Handler
    <3>8. (Pending' => Handler') /\ (~Pending' => Main') /\ Alone'
      BY <1>1, <1>2, <1>3, <1>5, <1>9, <3>1, <3>2, <3>5, <3>6, <3>7, StoreHandler
    <3>9. hops' \in Seq(PlainOps) \cup Cancels \cup Arms
      BY <2>9, <3>1, <3>4
    <3>10. Running(prog)' <=> Running(prog')
      BY DEF Running, Follows, Stage
    <3>11. TickTypeOK'
      BY <1>1, <1>6, <1>7, <1>2, <2>2, <2>7, <3>1, <3>9, <3>10 DEF TickTypeOK
    <3> QED BY <1>1, <1>2, <2>4, <2>11, <3>8, <3>11 DEF TickInv
  <2> QED BY <2>10, <2>11
<1> QED BY <1>8, <1>9, StoreKinds

LEMMA PostedKept ==
  ASSUME TickTypeOK, NEW land \in BOOLEAN, NEW advance \in BOOLEAN, TimerSees(land, advance), NoPost(land)
  PROVE  /\ posted' = [reg |-> posted'.reg, val |-> posted'.val, age |-> posted'.age] /\ posted'.age \in {0, 1}
         /\ ~OtherStore' => posted'.val \in Nat /\ (posted'.reg = "MTIMECMP_LO" => posted'.val < WORD)
<1>1. posted = [reg |-> posted.reg, val |-> posted.val, age |-> posted.age]
      /\ (~OtherStore => posted.val \in Nat /\ (posted.reg = "MTIMECMP_LO" => posted.val < WORD))
  BY DEF TickTypeOK
<1>2. CASE posted = None /\ OtherStore' /\ posted'.age \in {0, 1}
           /\ posted' = [reg |-> posted'.reg, val |-> posted'.val, age |-> posted'.age]
  BY <1>2
<1>3. CASE posted' = None
  BY <1>3 DEF None, OtherStore
<1>4. CASE posted' = [posted EXCEPT !.age = 1]
  BY <1>1, <1>4 DEF OtherStore
<1> QED BY <1>2, <1>3, <1>4 DEF NoPost

\* The interrupt that is taken: the timer's only when it is due.
LEMMA TakeIrqStep ==
  ASSUME TickInv, TimeLeft,
         NEW land \in BOOLEAN, NEW advance \in BOOLEAN, NEW finish \in BOOLEAN, NEW arrive \in BOOLEAN,
         PCycle(land, advance, finish, arrive), TakeIrq
  PROVE  TickInv'
<1> DEFINE cause == IF "MEI" \in int_pending THEN "MEI" ELSE "MTI"
<1>1. /\ TickTypeOK /\ (~Pending => Main) /\ Alone /\ ~spurious
      /\ (~in_isr => hops = <<>>) /\ (in_isr => ~pmie)
      /\ Reading(mt["main"], prog, mtime) /\ Reading(mt["isr"], hops, mtime)
  BY DEF TickInv
<1>2. pmie /\ int_pending # {} /\ int_pending \subseteq pmip
  BY DEF TakeIrq, int_pending
<1>3. ~in_isr /\ hops = <<>>
  BY <1>1, <1>2
<1>5. /\ in_isr' /\ ~pmie' /\ hops' = sys_isr_entry(cause) /\ prog' = prog /\ mt' = mt
      /\ isr_tab' = isr_tab /\ plic_tab' = plic_tab
      /\ IF cause = "MTI" /\ isr_tab[cause] # "none"
         THEN spurious' = (spurious \/ mtime < due) /\ due' = NEVER
         ELSE due' = due /\ spurious' = spurious
  BY DEF TakeIrq, histVars
<1>6. ~Posts
  BY <1>2 DEF Posts, Executes
<1>7. TimerSees(land, advance) /\ NoPost(land)
  BY <1>6, CycleParts
<1>8. <<>> \in Seq(PlainOps)
  BY Handlers
<1>9. ~Pending /\ Main
  BY <1>1, <1>3, <1>8, PlainTail DEF Pending
<1>10. Pending' <=> hops' \in Cancels \cup Arms
  BY DEF Pending, Cancels, Arms, timer_cancel, timer_arm_us, timer_mtime, Op, Csr, St, ONES
<1>11. /\ mtime \in Nat /\ due \in Nat /\ isr_tab \in [{"MTI", "MEI"} -> {"none", "once", "tick", "plic_mei_isr"}]
       /\ isr_tab["MTI"] # "plic_mei_isr" /\ isr_tab["MEI"] \in {"none", "plic_mei_isr"}
       /\ prog \in Seq(MainOps) /\ Running(prog) /\ pmip \subseteq {"MTI", "MEI"}
  BY <1>1 DEF TickTypeOK, TablesOK
<1>12. /\ mtime' \in Nat /\ mtimecmp' \in [hi : Nat, lo : Nat] /\ pmip' \subseteq {"MTI", "MEI"} /\ mtime <= mtime'
  BY <1>1, <1>7, TimerMoves DEF TickTypeOK
<1>13. TablesOK' /\ (Running(prog)' <=> Running(prog'))
  <2>1. TablesOK'
    BY <1>1, <1>5 DEF TickTypeOK, TablesOK
  <2> QED BY <2>1 DEF Running, Follows, Stage
<1>14. Reading(mt["main"], prog, mtime)'
  <2>1. Reading(mt["main"], prog, mtime')
    BY <1>1, <1>11, <1>12, CodeLeads, ReadWaits
  <2> QED BY <1>5, <2>1
<1>15. CASE cause = "MTI" /\ isr_tab["MTI"] # "none"
  <2>1. "MTI" \in pmip
    BY <1>2, <1>11, <1>15
  <2>2. mtime >= due
    BY <1>9, <2>1 DEF Main, OnTime
  <2>3. ~spurious' /\ due' = NEVER /\ NEVER \in Nat
    <3>1. ~(mtime < due)
      BY <1>11, <2>2
    <3>2. spurious' = (spurious \/ mtime < due) /\ due' = NEVER
      BY <1>5, <1>15
    <3>3. ~spurious'
      BY <1>1, <3>1, <3>2, Zenon
    <3> QED BY <3>2, <3>3, Never
  <2>4. isr_tab["MTI"] \in {"once", "tick"} /\ hops' = Serve(isr_tab["MTI"])
    BY <1>5, <1>11, <1>15 DEF sys_isr_entry
  <2>5. hops' \in Cancels \cup Arms /\ AtStage(hops', {"irq_seen"})
    BY <2>4, Handlers
  <2>6. Pending'
    BY <1>10, <2>5
  <2>7. ~Fresh
    BY <2>1 DEF Fresh, Silent
  <2>8. Untimed(prog) \/ hops' \in Cancels
    BY <1>1, <2>4, <2>7, Handlers DEF Alone
  <2>9. Handler'
    <3>1. /\ ~AtStage(hops', {"st_lo", "MTIMECMP_LO"}) /\ ~AtStage(hops', {"st_hi"}) /\ ~AtStage(hops', {"cancel_hi"})
      BY <2>5 DEF AtStage
    <3> QED BY <1>5, <2>3, <2>8, <3>1 DEF Handler
  <2>10. Alone'
    BY <1>1, <1>5, <2>7 DEF Alone
  <2>11. Reading(mt["isr"], hops, mtime)'
    BY <2>5 DEF Reading, AtStage
  <2>12. /\ posted' = [reg |-> posted'.reg, val |-> posted'.val, age |-> posted'.age] /\ posted'.age \in {0, 1}
         /\ ~OtherStore' => posted'.val \in Nat /\ (posted'.reg = "MTIMECMP_LO" => posted'.val < WORD)
    BY <1>1, <1>7, PostedKept
  <2>13. TickTypeOK'
    BY <1>1, <1>5, <1>11, <1>12, <1>13, <2>3, <2>5, <2>12 DEF TickTypeOK
  <2> QED BY <1>5, <1>14, <2>3, <2>6, <2>9, <2>10, <2>11, <2>13 DEF TickInv
<1>16. CASE ~(cause = "MTI" /\ isr_tab["MTI"] # "none")
  <2>1. due' = due /\ ~spurious'
    BY <1>1, <1>5, <1>16
  <2>2. hops' \in Seq(PlainOps)
    <3>1. isr_tab[cause] = "none" => hops' = <<Csr("gie-")>>
      BY <1>5 DEF sys_isr_entry
    <3>2. isr_tab[cause] # "none" => hops' = Serve("plic_mei_isr")
      BY <1>5, <1>11, <1>16 DEF sys_isr_entry
    <3> QED BY <3>1, <3>2, Handlers
  <2>3. ~Pending'
    BY <1>10, <2>2, PlainTail
  <2>4. Main' /\ Alone'
    BY <1>1, <1>5, <1>7, <1>9, <2>1, <2>3, QuietProgram
  <2>5. Reading(mt["isr"], hops, mtime)'
    <3>1. ~AtStage(hops', {"lo", "hi2", "target"})
      BY <2>2, PlainTail
    <3> QED BY <3>1 DEF Reading, AtStage
  <2>6. /\ posted' = [reg |-> posted'.reg, val |-> posted'.val, age |-> posted'.age] /\ posted'.age \in {0, 1}
        /\ ~OtherStore' => posted'.val \in Nat /\ (posted'.reg = "MTIMECMP_LO" => posted'.val < WORD)
    BY <1>1, <1>7, PostedKept
  <2>7. TickTypeOK'
    BY <1>1, <1>5, <1>11, <1>12, <1>13, <2>1, <2>2, <2>6 DEF TickTypeOK
  <2> QED BY <1>5, <1>14, <2>1, <2>3, <2>4, <2>5, <2>7 DEF TickInv
<1> QED BY <1>15, <1>16

-----------------------------------------------------------------------------
(***************************************************************************)
(* The invariant and what follows from it.                                 *)
(***************************************************************************)
LEMMA TickInit ==
  ASSUME TimerScripts, IrqInit
  PROVE  TickInv
<1>1. PICK s \in IrqScripts : prog = s.ops
  BY DEF IrqInit
<1>2. /\ hops = <<>> /\ in_isr = FALSE /\ posted = None /\ pmie = FALSE /\ pmip = {}
      /\ isr_tab = [c \in {"MTI", "MEI"} |-> "none"]
      /\ plic_tab = [c \in {PLIC_SRC_FFT, PLIC_SRC_I2S} |-> "none"]
      /\ mt = [c \in {"main", "isr"} |-> [hi |-> 0, lo |-> 0, at |-> 0, from |-> 0, target |-> 0]]
      /\ due = NEVER /\ spurious = FALSE
  BY DEF IrqInit, CpuReset
<1>3. /\ mtime = 0 /\ mtimecmp = [hi |-> ONES, lo |-> ONES] /\ mtip = FALSE /\ ~Matches
  BY DEF IrqInit, TimerInit, Matches
<1>4. ONES \in Nat /\ NEVER \in Nat /\ hi_of(NEVER) = ONES /\ lo_of(NEVER) = 0
  BY Never
<1>5. UsesTimerLib(prog)
  BY <1>1 DEF TimerScripts
<1>6. prog \in Seq(MainOps)
  <2> DEFINE T == {prog[i] : i \in 1 .. Len(prog)}
  <2>1. prog \in Seq(T)
    BY <1>5 DEF UsesTimerLib
  <2>2. T \subseteq MainOps
    BY <1>1 DEF MainOps
  <2> HIDE DEF T
  <2>3. \A i \in 1 .. Len(prog) : prog[i] \in MainOps
    BY <2>1, <2>2
  <2> QED BY <2>1, <2>3
<1>7. Running(prog)
  BY <1>5 DEF UsesTimerLib, CallsWhole, Running
<1>8. ~AtStage(prog, Inner)
  <2>1. prog # <<>> => Head(prog) = prog[1]
    BY <1>6
  <2> QED BY <1>5, <2>1 DEF UsesTimerLib, CallsWhole, AtStage
<1>9. <<>> \in Seq(PlainOps) /\ hops \in Seq(PlainOps)
  BY <1>2, Handlers
<1>10. ~Pending
  BY <1>9, PlainTail DEF Pending
<1>11. TickTypeOK
  <2>1. TablesOK
    BY <1>2 DEF TablesOK
  <2>2. mt \in [{"main", "isr"} -> Times]
    BY <1>2 DEF Times
  <2>3. posted = [reg |-> posted.reg, val |-> posted.val, age |-> posted.age] /\ posted.age \in {0, 1} /\ OtherStore
    BY <1>2 DEF None, OtherStore
  <2> QED BY <1>2, <1>3, <1>4, <1>6, <1>7, <1>9, <2>1, <2>2, <2>3 DEF TickTypeOK
<1>12. Silent /\ Off /\ OtherStore
  BY <1>2, <1>3 DEF Silent, Off, OtherStore, None
<1>13. Main
  <2>1. OnTime
    BY <1>2, <1>3 DEF OnTime
  <2>2. Safe /\ Armed
    BY <1>12 DEF Safe, Armed
  <2>3. ~AtStage(prog, {"st_lo", "MTIMECMP_LO"}) /\ ~AtStage(prog, {"st_hi"}) /\ ~AtStage(prog, {"cancel_hi"})
    BY <1>8 DEF AtStage, Inner
  <2> QED BY <2>1, <2>2, <2>3 DEF Main
<1>14. Alone
  <2>1. Fresh
    BY <1>2, <1>10, <1>12 DEF Fresh, OtherStore
  <2> QED BY <1>2, <1>5, <2>1 DEF Alone, UsesTimerLib
<1>15. Reading(mt["main"], prog, mtime) /\ Reading(mt["isr"], hops, mtime)
  BY <1>2, <1>8 DEF Reading, AtStage, Inner
<1> QED BY <1>2, <1>10, <1>11, <1>13, <1>14, <1>15 DEF TickInv

LEMMA TickStutters ==
  ASSUME TickInv, UNCHANGED <<deviceVars, irqVars>>
  PROVE  TickInv'
<1>1. /\ UNCHANGED <<prog, hops, in_isr, posted, pmie, pmip, isr_tab, plic_tab, mt, due, spurious>>
      /\ UNCHANGED <<mtime, mtimecmp, ge, mtip>>
  BY DEF deviceVars, irqVars, timerVars
<1>2. /\ OnTime' <=> OnTime
      /\ Safe' <=> Safe
      /\ HiGoes' <=> HiGoes
      /\ Silent' <=> Silent
      /\ Armed' <=> Armed
      /\ OtherStore' <=> OtherStore
      /\ LoGoes(0)' <=> LoGoes(0)
      /\ LoGoes(ONES)' <=> LoGoes(ONES)
      /\ LoGoes(lo_of(mt["main"].target))' <=> LoGoes(lo_of(mt["main"].target))
      /\ LoGoes(lo_of(mt["isr"].target))' <=> LoGoes(lo_of(mt["isr"].target))
  BY <1>1 DEF OnTime, Safe, HiGoes, Silent, Armed, OtherStore, LoGoes, OffGoes, Off, Matches, hi_of, lo_of, ONES
<1>3. (Running(prog)' <=> Running(prog)) /\ (Untimed(prog)' <=> Untimed(prog)) /\ (OneCall(prog)' <=> OneCall(prog))
      /\ (Rearms(prog)' <=> Rearms(prog))
  BY <1>1 DEF Running, Untimed, OneCall, Rearms, Stage, Follows
<1>4. Pending' <=> Pending
  BY <1>1 DEF Pending, Cancels, Arms, timer_cancel, timer_arm_us, timer_mtime, Op, Csr, St, ONES
<1>5. TablesOK' <=> TablesOK
  BY <1>1 DEF TablesOK
<1>6. \A S : (AtStage(prog', S) <=> AtStage(prog, S)) /\ (AtStage(hops', S) <=> AtStage(hops, S))
  BY <1>1
<1>7. Reading(mt["main"], prog, mtime)' /\ Reading(mt["isr"], hops, mtime)'
  <2>1. Reading(mt["main"], prog, mtime) /\ Reading(mt["isr"], hops, mtime)
    BY DEF TickInv
  <2> QED BY <1>1, <2>1 DEF Reading, AtStage, Stage, hi_of, lo_of
<1>8. TickTypeOK'
  BY <1>1, <1>2, <1>3, <1>5 DEF TickInv, TickTypeOK
<1>9. Main => Main'
  BY <1>1, <1>2, <1>6 DEF Main
<1>10. Handler => Handler'
  BY <1>1, <1>2, <1>3, <1>6 DEF Handler
<1>11. Alone => Alone'
  <2>1. Fresh => Fresh'
    BY <1>1, <1>2, <1>4 DEF Fresh
  <2> QED BY <1>1, <1>3, <2>1 DEF Alone
<1> QED BY <1>1, <1>4, <1>7, <1>8, <1>9, <1>10, <1>11 DEF TickInv

LEMMA TickStep ==
  ASSUME TimerScripts, TickInv, TimeLeft, [IrqNext]_<<deviceVars, irqVars>>
  PROVE  TickInv'
<1>1. CASE UNCHANGED <<deviceVars, irqVars>>
  BY <1>1, TickStutters
<1>2. CASE IrqNext
  <2>1. PICK land \in BOOLEAN, advance \in BOOLEAN, finish \in BOOLEAN, arrive \in BOOLEAN :
               PCycle(land, advance, finish, arrive)
    BY <1>2 DEF IrqNext
  <2>2. Hart1
    BY <2>1, CycleParts
  <2>3. CASE PStore
    BY <2>1, <2>3, StoreStep
  <2>4. CASE ReadTime
    BY <2>1, <2>4, ReadTimeStep
  <2>5. CASE Target
    BY <2>1, <2>5, TargetStep
  <2>6. CASE Look1
    BY <2>1, <2>6, LookStep
  <2>7. CASE ReadWords
    BY <2>1, <2>7, ReadWordsStep
  <2>8. CASE Local
    BY <2>1, <2>8, LocalStep
  <2>9. CASE Loops
    BY <2>1, <2>9, LoopsStep
  <2>10. CASE Handle
    BY <2>1, <2>10, HandleStep
  <2>11. CASE Blocked
    BY <2>1, <2>11, BlockedStep
  <2>12. CASE TakeIrq
    BY <2>1, <2>12, TakeIrqStep
  <2>13. CASE Mret
    BY <2>1, <2>13, MretStep
  <2> QED BY <2>2, <2>3, <2>4, <2>5, <2>6, <2>7, <2>8, <2>9, <2>10, <2>11, <2>12, <2>13 DEF Hart1, Instruction
<1> QED BY <1>1, <1>2

\* The phases of the comparison, the programs and the handlers agree at every cycle, for every
\* program that uses the timer through timer.h.
THEOREM TickInvariant == IrqSpec /\ []TimeLeft => []TickInv
<1>0. TimerScripts
  BY TimerAssumption DEF TimerScripts
<1>1. IrqInit => TickInv
  BY <1>0, TickInit
<1>2. TickInv /\ TimeLeft /\ [IrqNext]_<<deviceVars, irqVars>> => TickInv'
  BY <1>0, TickStep
<1> QED BY <1>1, <1>2, PTL DEF IrqSpec

\* TickWhenDue: no order of the word stores, the two stages of the comparison, mip and mret makes
\* the timer interrupt come before the deadline of the last timer_arm_us, or after timer_cancel.
THEOREM TickIsDue == IrqSpec /\ []TimeLeft => []TickWhenDue
<1>1. TickInv => TickWhenDue
  BY DEF TickInv, TickWhenDue
<1> QED BY <1>1, TickInvariant, PTL

\* TimeReadInCall: whatever interrupts timer_mtime between its three reads, the time it returns
\* lies between the call and the return.
THEOREM TimeReadIsInCall == IrqSpec /\ []TimeLeft => []TimeReadInCall
<1>1. ASSUME TickInv
      PROVE  TimeReadInCall
  <2>1. Reading(mt[Ctx], Ops, mtime)
    BY <1>1, CtxReads
  <2>2. At1("target") => AtStage(Ops, {"target"})
    BY StageOf DEF At1, AtStage
  <2> QED BY <2>1, <2>2 DEF Reading, TimeReadInCall, TimeRead
<1> QED BY <1>1, TickInvariant, PTL
=============================================================================
