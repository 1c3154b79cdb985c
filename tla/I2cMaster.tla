----------------------------- MODULE I2cMaster -----------------------------
(* The engine of axi4_lite_i2c.sv, one step per START, byte, acknowledge and *)
(* STOP, and the device on the bus: a register file that acknowledges its    *)
(* own address, as the bench model I2cSlave and sim/i2c_slave_model.sv do.   *)
(* SDA is a wired AND: a START, a STOP or a bit of the master gets through   *)
(* only where a device that is sending leaves the line alone.                *)
(* Bytes are naturals below 256; an address byte is 2 * address + R/W.       *)
EXTENDS Naturals, Sequences
CONSTANTS
  FIFO_DEPTH,      \* entries of the TX and of the RX FIFO
  SLAVE,           \* the address that answers
  NREGS            \* registers of the device; its pointer wraps
ASSUME I2cAssumption == FIFO_DEPTH \in Nat \ {0} /\ NREGS \in Nat \ {0} /\ SLAVE \in Nat

VARIABLES
  st,              \* state_q: idle, start, byte (SHIFT and the ACK sample), ack, stop, done
  op,              \* latched command bits: a subset of {"start","stop","read","nack"}
  cur,             \* the byte in the shift register
  byteNack,        \* byte_nack_q
  bus,             \* bus_active_q
  cmd,             \* the one-deep command latch: {} when cmd_valid_q is 0
  tx, rx,          \* the FIFOs
  flags,           \* sticky "nack", "arb", "ovr"
  slave,           \* the device
  wire             \* what the bus carried since the current call began

START == 1000
STOP == 1001
BUSY == st # "idle"
TX_FULL == Len(tx) = FIFO_DEPTH

(* init(), reset contents 0x10 + i in the source; bit counts the clocks of the byte being sent *)
SlaveInit(base) ==
  [mode |-> "idle", first |-> TRUE, bit |-> 0, ptr |-> 0, regs |-> [i \in 0..NREGS - 1 |-> base + i]]

(* what the device leaves on SDA: its next bit while it sends, elsewhere it lets the line go *)
Sda(d) == IF d.mode = "rd" /\ d.bit < 8 THEN (d.regs[d.ptr] \div 2^(7 - d.bit)) % 2 ELSE 1
(* one SCL clock while it sends; m is what the master leaves on SDA: the ninth bit is the ACK *)
Clocked(d, m) ==
  CASE d.mode = "rd" /\ d.bit < 8 -> [d EXCEPT !.bit = d.bit + 1]
    [] d.mode = "rd" /\ d.bit = 8 /\ m = 1 -> [d EXCEPT !.mode = "idle", !.bit = 0]
    [] d.mode = "rd" /\ d.bit = 8 /\ m = 0 -> [d EXCEPT !.ptr = (d.ptr + 1) % NREGS, !.bit = 0]
    [] OTHER -> d
(* the device after each clock of a byte written over what it sends, the ACK slot released *)
WriteBits(b) == [i \in 1..9 |-> IF i < 9 THEN (b \div 2^(8 - i)) % 2 ELSE 1]
During(b) ==
  LET d[i \in 0..9] == IF i = 0 THEN slave ELSE Clocked(d[i - 1], WriteBits(b)[i]) IN d
(* the bits of b released to 1 where the line stays 0 *)
Lost(b) == {i \in 1..8 : WriteBits(b)[i] = 1 /\ Sda(During(b)[i - 1]) = 0}
Contended == slave.mode = "rd" /\ Lost(cur) # {}

(* I2cSlave::step at byte granularity *)
SlaveAcks(b) ==
  CASE slave.mode = "addr" -> b \div 2 = SLAVE
    [] slave.mode = "wr" -> TRUE
    [] slave.mode = "rd" -> Sda(During(b)[8]) = 0
    [] OTHER -> FALSE
SlaveAfter(b) ==
  CASE slave.mode = "addr" ->
         [slave EXCEPT !.mode = IF b \div 2 # SLAVE THEN "idle" ELSE IF b % 2 = 1 THEN "rd" ELSE "wr"]
    [] slave.mode = "wr" /\ slave.first -> [slave EXCEPT !.ptr = b % NREGS, !.first = FALSE]
    [] slave.mode = "wr" /\ ~slave.first ->
         [slave EXCEPT !.regs[slave.ptr] = b, !.ptr = (slave.ptr + 1) % NREGS]
    [] slave.mode = "rd" -> During(b)[9]
    [] OTHER -> slave
(* a released line reads as ones; a byte clocked from its middle ends in ones, the last its NACK *)
SlaveDrives ==
  CASE slave.mode = "rd" /\ slave.bit = 0 -> slave.regs[slave.ptr]
    [] slave.mode = "rd" /\ slave.bit # 0 -> ((slave.regs[slave.ptr] + 1) * 2^slave.bit - 1) % 256
    [] OTHER -> 255
SlaveAfterRead(masterNack) ==
  CASE slave.mode = "rd" /\ (masterNack \/ slave.bit # 0) -> [slave EXCEPT !.mode = "idle", !.bit = 0]
    [] slave.mode = "rd" /\ ~masterNack /\ slave.bit = 0 -> [slave EXCEPT !.ptr = (slave.ptr + 1) % NREGS]
    [] OTHER -> slave

LoadByte == cur' = Head(tx) /\ tx' = Tail(tx) /\ byteNack' = FALSE /\ st' = "byte"

(* cmd_consume_idle: latch the command out of ST_IDLE *)
Consume ==
  /\ st = "idle" /\ cmd # {}
  /\ op' = cmd /\ cmd' = {}
  /\ \/ /\ "start" \in cmd
        /\ st' = "start" /\ bus' = TRUE /\ byteNack' = FALSE
        /\ UNCHANGED <<cur, tx>>
     \/ /\ "start" \notin cmd /\ "read" \in cmd
        /\ st' = "byte" /\ byteNack' = FALSE
        /\ UNCHANGED <<cur, tx, bus>>
     \/ /\ cmd \cap {"start", "read"} = {} /\ tx # <<>>
        /\ LoadByte /\ UNCHANGED bus
     \/ /\ cmd \cap {"start", "read"} = {} /\ tx = <<>>
        /\ byteNack' = FALSE /\ UNCHANGED <<st, cur, tx, bus>>
  /\ UNCHANGED <<rx, flags, slave, wire>>

(* ST_START up to phase 3; a write with nothing queued goes straight to STOP. SDA falls while SCL *)
(* is high, unless a device already holds it low: then that was one more clock of its byte.       *)
StartDone ==
  /\ st = "start"
  /\ slave' = IF Sda(slave) = 1 THEN [slave EXCEPT !.mode = "addr", !.first = TRUE, !.bit = 0]
              ELSE Clocked(slave, 1)
  /\ wire' = IF Sda(slave) = 1 THEN Append(wire, START) ELSE wire
  /\ \/ "read" \in op /\ st' = "byte" /\ byteNack' = FALSE /\ UNCHANGED <<cur, tx>>
     \/ "read" \notin op /\ tx # <<>> /\ LoadByte
     \/ "read" \notin op /\ tx = <<>> /\ st' = "stop" /\ UNCHANGED <<cur, tx, byteNack>>
  /\ UNCHANGED <<op, bus, cmd, rx, flags>>

(* a written byte leaves and its ACK bit is sampled; busy is a device that refuses a data byte *)
WriteByte(busy) ==
  /\ st = "byte" /\ "read" \notin op /\ ~Contended
  /\ busy => slave.mode = "wr"
  /\ LET nack == busy \/ ~SlaveAcks(cur) IN
       /\ byteNack' = nack
       /\ flags' = IF nack THEN flags \cup {"nack"} ELSE flags
  /\ slave' = IF busy THEN slave ELSE SlaveAfter(cur)
  /\ wire' = Append(wire, cur) /\ st' = "ack"
  /\ UNCHANGED <<op, cur, bus, cmd, tx, rx>>
(* another driver, a second master or the device itself, holds SDA low: abort to DONE, the queue *)
(* untouched                                                                                      *)
LoseArbitration ==
  /\ st = "byte" /\ "read" \notin op
  /\ slave' = IF Contended THEN During(cur)[CHOOSE i \in Lost(cur) : \A j \in Lost(cur) : i <= j] ELSE slave
  /\ flags' = flags \cup {"arb"} /\ bus' = FALSE /\ st' = "done"
  /\ UNCHANGED <<op, cur, byteNack, cmd, tx, rx, wire>>
(* a byte read goes to the RX FIFO, or is dropped when it is full *)
ReadByte ==
  /\ st = "byte" /\ "read" \in op
  /\ \/ Len(rx) < FIFO_DEPTH /\ rx' = Append(rx, SlaveDrives) /\ UNCHANGED flags
     \/ Len(rx) = FIFO_DEPTH /\ flags' = flags \cup {"ovr"} /\ UNCHANGED rx
  /\ slave' = SlaveAfterRead("nack" \in op)
  /\ wire' = Append(wire, SlaveDrives) /\ st' = "ack"
  /\ UNCHANGED <<op, cur, byteNack, bus, cmd, tx>>

(* Mutant: the bytes behind a refused one stay queued. *)
WriteAckKeepsQueue ==
  /\ st = "ack" /\ "read" \notin op
  /\ \/ byteNack /\ st' = "stop" /\ UNCHANGED <<tx, cur, byteNack>>
     \/ ~byteNack /\ tx # <<>> /\ LoadByte
     \/ ~byteNack /\ tx = <<>> /\ st' = (IF "stop" \in op THEN "stop" ELSE "done")
        /\ UNCHANGED <<tx, cur, byteNack>>
  /\ UNCHANGED <<op, bus, cmd, rx, flags, slave, wire>>
(* ST_ACK phase 3 of a write: abort and drain, next byte, STOP, or hold the bus *)
WriteAck ==
  /\ st = "ack" /\ "read" \notin op
  /\ \/ byteNack /\ tx' = <<>> /\ st' = "stop" /\ UNCHANGED <<cur, byteNack>>
     \/ ~byteNack /\ tx # <<>> /\ LoadByte
     \/ ~byteNack /\ tx = <<>> /\ st' = (IF "stop" \in op THEN "stop" ELSE "done")
        /\ UNCHANGED <<tx, cur, byteNack>>
  /\ UNCHANGED <<op, bus, cmd, rx, flags, slave, wire>>
(* ST_ACK phase 3 of a read: a queued command continues it *)
ReadAck ==
  /\ st = "ack" /\ "read" \in op
  /\ \/ op \cap {"stop", "nack"} # {} /\ st' = "stop" /\ UNCHANGED <<op, cmd>>
     \/ op \cap {"stop", "nack"} = {} /\ cmd # {} /\ st' = "byte"
        /\ op' = {"read"} \cup (cmd \cap {"stop", "nack"}) /\ cmd' = {}
     \/ op \cap {"stop", "nack"} = {} /\ cmd = {} /\ st' = "done" /\ UNCHANGED <<op, cmd>>
  /\ UNCHANGED <<cur, byteNack, bus, tx, rx, flags, slave, wire>>

(* the engine lets go of the bus; SDA rises, a STOP, unless a device holds it low *)
StopDone ==
  /\ st = "stop"
  /\ bus' = FALSE /\ st' = "done"
  /\ slave' = IF Sda(slave) = 1 THEN [slave EXCEPT !.mode = "idle", !.bit = 0] ELSE Clocked(slave, 0)
  /\ wire' = IF Sda(slave) = 1 THEN Append(wire, STOP) ELSE wire
  /\ UNCHANGED <<op, cur, byteNack, cmd, tx, rx, flags>>
Done == st = "done" /\ st' = "idle" /\ UNCHANGED <<op, cur, byteNack, bus, cmd, tx, rx, flags, slave, wire>>
=============================================================================
