----------------------------- MODULE I2cDriver -----------------------------
(* common/i2c.h on one CPU: every function is the sequence of register       *)
(* accesses it makes, executed one access at a time against the engine.      *)
(* A script is the list of calls one program makes, each with what the       *)
(* program checks of it.                                                     *)
EXTENDS I2cMaster, SequencesExt
CONSTANTS
  Scripts,         \* the programs, sequences of calls
  Faults           \* what the bus may do: a subset of {"busy", "arb"}

VARIABLES
  script,          \* the calls still to make
  code,            \* the accesses left in the current call
  rc,              \* its return code
  got,             \* the bytes it popped
  fails            \* checks that failed
cpuVars == <<script, code, rc, got, fails>>
vars == <<st, op, cur, byteNack, bus, cmd, tx, rx, flags, slave, wire, script, code, rc, got, fails>>

(* The accesses *)
Clear == [k |-> "clear", f |-> {"nack", "arb"}]            \* i2c_clear_err
Push(b) == [k |-> "push", b |-> b]                         \* i2c_push: spins while TX_FULL
Cmd(c) == [k |-> "cmd", c |-> c]
WaitIdle == [k |-> "wait"]                                 \* i2c_wait_idle
Check == [k |-> "check"]                                   \* return when i2c_check_err says so
Pop == [k |-> "pop"]
Expect(f) == [k |-> "expect", f |-> f]                     \* a bench check of the sticky flags

(* The functions of i2c.h *)
i2c_stop == <<Cmd({"start", "stop"}), WaitIdle>>
i2c_write(a, buf) ==
  <<Clear, Push(2 * a), Cmd({"start", "stop"})>> \o [i \in 1..Len(buf) |-> Push(buf[i])] \o <<WaitIdle, Check>>
ReadBytes(n) ==
  IF n = 0 THEN i2c_stop
  ELSE [i \in 1..3 * n |->
         CASE i % 3 = 1 -> Cmd({"read"} \cup (IF i = 3 * n - 2 THEN {"nack", "stop"} ELSE {}))
           [] i % 3 = 2 -> WaitIdle
           [] OTHER -> Pop]
i2c_read(a, n) ==
  <<Clear, Push(2 * a + 1), Cmd({"start"}), WaitIdle, Check>> \o ReadBytes(n) \o <<Check>>
i2c_probe(a) == i2c_write(a, <<>>)
i2c_write_reg(a, r, v) == i2c_write(a, <<r, v>>)
i2c_write_regs(a, r, buf) ==
  <<Clear, Push(2 * a), Push(r), Cmd({"start", "stop"})>>
    \o [i \in 1..Len(buf) |-> Push(buf[i])] \o <<WaitIdle, Check>>
(* Mutant: a STOP between the register pointer and the read. *)
ReadRegsStops(a, r, n) ==
  <<Clear, Push(2 * a), Push(r), Cmd({"start", "stop"}), WaitIdle, Check,
    Push(2 * a + 1), Cmd({"start"}), WaitIdle, Check>> \o ReadBytes(n) \o <<Check>>
i2c_read_regs(a, r, n) ==
  <<Clear, Push(2 * a), Push(r), Cmd({"start"}), WaitIdle, Check,
    Push(2 * a + 1), Cmd({"start"}), WaitIdle, Check>> \o ReadBytes(n) \o <<Check>>
i2c_read_reg(a, r) == i2c_read_regs(a, r, 1)

(* The bench's own functions queue everything before the command and pop after the last read *)
tb_write(a, bytes) ==
  <<Push(2 * a)>> \o [i \in 1..Len(bytes) |-> Push(bytes[i])] \o <<Cmd({"start", "stop"}), WaitIdle>>
tb_read_burst(a, r, n) ==
  <<Push(2 * a), Push(r), Cmd({"start"}), WaitIdle, Push(2 * a + 1), Cmd({"start"}), WaitIdle>>
    \o FlattenSeq([i \in 1..n |->
         <<Cmd({"read"} \cup (IF i = n THEN {"nack", "stop"} ELSE {})), WaitIdle>>])
    \o [i \in 1..n |-> Pop]

(* A call and what the program checks of it: the code it returns and the bytes it read;  *)
(* "any" checks nothing. frame is the bus traffic of the whole call (see FrameIsTheCall). *)
Call(ops, x, data, frame) == [ops |-> ops, x |-> x, data |-> data, frame |-> frame]
WriteFrame(a, bytes) == <<START, 2 * a>> \o bytes \o <<STOP>>
ReadFrame(a, r, data) == <<START, 2 * a, r, START, 2 * a + 1>> \o data \o <<STOP>>
CallWrite(a, buf, x) == Call(i2c_write(a, buf), x, <<>>, WriteFrame(a, buf))
CallWriteRegs(a, r, buf, x) == Call(i2c_write_regs(a, r, buf), x, <<>>, WriteFrame(a, <<r>> \o buf))
CallRead(a, data, x) == Call(i2c_read(a, Len(data)), x, data, <<START, 2 * a + 1>> \o data \o <<STOP>>)
CallReadRegs(a, r, data, x) == Call(i2c_read_regs(a, r, Len(data)), x, data, ReadFrame(a, r, data))

(* The calls of i2c.h. What may be refused fits the FIFO and the shift register: i2c_write pushes  *)
(* on behind a refused byte, and what the FIFO has not taken by then is queued for the next call.   *)
(* A read has a byte to read: with none, nothing takes the first one off the device, which holds    *)
(* SDA against the STOP and the next START (EmptyRead in MCSerial).                                 *)
MayRefuse(a, x) == a # SLAVE \/ (x = "any" /\ "busy" \in Faults)
IsCall(c) ==
  \E a \in Nat :
    \/ \E buf \in Seq(Nat) : c.ops = i2c_write(a, buf) /\ (MayRefuse(a, c.x) => Len(buf) <= FIFO_DEPTH)
    \/ \E r \in Nat, buf \in Seq(Nat) :
         c.ops = i2c_write_regs(a, r, buf) /\ (MayRefuse(a, c.x) => Len(buf) < FIFO_DEPTH)
    \/ \E n \in Nat \ {0} : c.ops = i2c_read(a, n)
    \/ \E r \in Nat, n \in Nat \ {0} : c.ops = i2c_read_regs(a, r, n)
CallsFit ==
  \A s \in Scripts : s # <<>> /\ s \in Seq({s[i] : i \in 1..Len(s)}) /\ \A i \in 1..Len(s) : IsCall(s[i])

Init ==
  /\ st = "idle" /\ op = {} /\ cur = 0 /\ byteNack = FALSE /\ bus = FALSE /\ cmd = {}
  /\ tx = <<>> /\ rx = <<>> /\ flags = {} /\ slave = SlaveInit(16) /\ wire = <<>>
  /\ script \in Scripts /\ code = Head(script).ops
  /\ rc = "ok" /\ got = <<>> /\ fails = 0

(* One access of the CPU. It lands only once the engine has taken a command written before: a   *)
(* store and the next access are at least two clocks apart, the engine needs one.               *)
Now(k) == code # <<>> /\ Head(code).k = k /\ ~(st = "idle" /\ cmd # {})
Step(k) == Now(k) /\ code' = Tail(code) /\ UNCHANGED script
CpuClear ==
  /\ Step("clear") /\ flags' = flags \ Head(code).f
  /\ UNCHANGED <<st, op, cur, byteNack, bus, cmd, tx, rx, slave, wire, rc, got, fails>>
CpuPush ==
  /\ Step("push") /\ ~TX_FULL /\ tx' = Append(tx, Head(code).b)
  /\ UNCHANGED <<st, op, cur, byteNack, bus, cmd, rx, flags, slave, wire, rc, got, fails>>
CpuCmd ==
  /\ Step("cmd") /\ cmd' = Head(code).c
  /\ UNCHANGED <<st, op, cur, byteNack, bus, tx, rx, flags, slave, wire, rc, got, fails>>
CpuWait ==
  /\ Step("wait") /\ ~BUSY
  /\ UNCHANGED <<st, op, cur, byteNack, bus, cmd, tx, rx, flags, slave, wire, rc, got, fails>>
CpuPop ==
  /\ Step("pop")
  /\ got' = Append(got, IF rx = <<>> THEN 0 ELSE Head(rx))
  /\ rx' = IF rx = <<>> THEN rx ELSE Tail(rx)
  /\ UNCHANGED <<st, op, cur, byteNack, bus, cmd, tx, flags, slave, wire, rc, fails>>
CpuExpect ==
  /\ Step("expect") /\ fails' = fails + IF flags = Head(code).f THEN 0 ELSE 1
  /\ UNCHANGED <<st, op, cur, byteNack, bus, cmd, tx, rx, flags, slave, wire, rc, got>>
(* i2c_check_err: arbitration before NACK; an error ends the call *)
i2c_check_err == IF "arb" \in flags THEN "arb" ELSE IF "nack" \in flags THEN "nack" ELSE "ok"
CpuCheck ==
  /\ Now("check") /\ rc' = i2c_check_err
  /\ code' = IF rc' = "ok" THEN Tail(code) ELSE <<>>
  /\ UNCHANGED <<st, op, cur, byteNack, bus, cmd, tx, rx, flags, slave, wire, script, got, fails>>
(* the call returns, the program checks the result and makes the next call *)
Return ==
  /\ code = <<>> /\ script # <<>>
  /\ fails' = fails + (IF Head(script).x \in {"any", rc} THEN 0 ELSE 1)
                    + (IF Head(script).x = "ok" /\ got # Head(script).data THEN 1 ELSE 0)
  /\ script' = Tail(script)
  /\ code' = IF script' = <<>> THEN <<>> ELSE Head(script').ops
  /\ rc' = "ok" /\ got' = <<>> /\ wire' = <<>>
  /\ UNCHANGED <<st, op, cur, byteNack, bus, cmd, tx, rx, flags, slave>>
Cpu == \/ CpuClear \/ CpuPush \/ CpuCmd \/ CpuWait \/ CpuPop \/ CpuExpect \/ CpuCheck \/ Return

(* A byte takes 9 SCL periods, over a thousand clocks at 400 kHz; a push takes a few tens. So *)
(* a CPU in the middle of its push loop has filled the FIFO before the byte is acknowledged.  *)
CpuKeptUp == Now("push") => TX_FULL
(* Faults of other parties on the bus strike only calls the program does not check; an arbitration  *)
(* loss leaves the TX FIFO as it is, so a second master waits for the last one. The device's own    *)
(* hold on the line (Contended) is no fault: it costs a call its arbitration whenever it happens.   *)
Faulty(f) == f \in Faults /\ script # <<>> /\ Head(script).x = "any" /\ (f = "arb" => Len(script) = 1)
Engine ==
  /\ \/ Consume \/ StartDone \/ ReadByte \/ ReadAck \/ StopDone \/ Done
     \/ WriteByte(FALSE)
     \/ Faulty("busy") /\ WriteByte(TRUE)
     \/ (Contended \/ Faulty("arb")) /\ LoseArbitration
     \/ CpuKeptUp /\ WriteAck
  /\ UNCHANGED cpuVars
Spec == Init /\ [][Cpu \/ Engine]_vars
-----------------------------------------------------------------------------
(* No call leaves the engine busy, the bus held, by it or by the device, or a byte in either FIFO  *)
(* when it returns: the next transaction starts clean. i2c.h: "a failed transaction never leaves   *)
(* bytes queued for the next one", i2c_stop: "this is a clean bus release" (a lost arbitration     *)
(* keeps its bytes in the TX FIFO).                                                                *)
Returned == code = <<>> /\ script # <<>>
CleanReturn ==
  Returned => ~BUSY /\ ~bus /\ Sda(slave) = 1 /\ cmd = {} /\ (tx = <<>> \/ rc = "arb") /\ rx = <<>>

(* The bus carries exactly the frame of the call when it returns I2C_OK, repeated START, read      *)
(* acknowledges and STOP included, and a prefix of it closed by a STOP when it returns NACK.      *)
FrameIsTheCall ==
  Returned /\ Head(script).frame # <<>> =>
    \/ rc = "ok" /\ wire = Head(script).frame
    \/ rc = "arb"
    \/ rc = "nack" /\ IsPrefix(Front(wire), Head(script).frame) /\ Last(wire) = STOP

=============================================================================
