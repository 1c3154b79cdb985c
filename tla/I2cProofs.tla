------------------------------ MODULE I2cProofs ------------------------------
(***************************************************************************)
(* Every call of i2c.h leaves the engine clean, for every FIFO depth and   *)
(* every sequence of calls whose reads take a byte at least, to a device   *)
(* that is there, absent or busy, on a bus that may be lost in the last of *)
(* them.                                                                   *)
(*                                                                         *)
(* The inductive invariant pairs the accesses a call has still to make     *)
(* with what the engine can be doing meanwhile. A second one, on it, keeps *)
(* what the bus has carried and what is still to go to it equal to the     *)
(* frame of the call.                                                      *)
(***************************************************************************)
EXTENDS I2cDriver, TLAPS

Whole == {"start", "stop"}
Open == {"start"}
LastRead == {"read", "nack", "stop"}
Accesses ==
  {Clear, WaitIdle, Check, Pop} \cup [k : {"push"}, b : Nat]
    \cup [k : {"cmd"}, c : {Whole, Open, {"read"}, LastRead}]

(***************************************************************************)
(* Codes: what is left of a call, by the number of accesses still behind   *)
(* each.                                                                   *)
(***************************************************************************)
\* Bytes to push, the wait and the check.
WriteTail(s) ==
  /\ s \in Seq(Accesses)
  /\ \A i \in 1..Len(s) :
       s[i].k = IF i = Len(s) THEN "check" ELSE IF i = Len(s) - 1 THEN "wait" ELSE "push"

\* The bytes of a read, the last of them refused, and the check.
ReadAt(d) ==
  IF d = 0 THEN Check
  ELSE IF d % 3 = 1 THEN Pop
  ELSE IF d % 3 = 2 THEN WaitIdle
  ELSE Cmd(IF d = 3 THEN LastRead ELSE {"read"})
ReadTail(s) ==
  /\ s \in Seq(Accesses) /\ Len(s) >= 1
  /\ \A i \in 1..Len(s) : s[i] = ReadAt(Len(s) - i)

At(s, x) == s # <<>> /\ Head(s) = x
AtPush(s) == s # <<>> /\ Head(s).k = "push"

\* After the address of a read: its bytes.
Rest(s) == ReadTail(s) /\ Len(s) >= 4 /\ Len(s) % 3 = 1

\* After an address without STOP: that, or a repeated START first.
AfterWait(s) == At(s, Check) /\ Rest(Tail(s))
AfterAddress(s) ==
  \/ Rest(s)
  \/ AtPush(s) /\ At(Tail(s), Cmd(Open)) /\ At(Tail(Tail(s)), WaitIdle) /\ AfterWait(Tail(Tail(Tail(s))))

\* A START command: a write, or an address alone. What is pushed behind it.
AtStart(c, s) ==
  /\ At(s, Cmd(c))
  /\ \/ c = Whole /\ WriteTail(Tail(s)) /\ Len(s) >= 3
     \/ c = Open /\ At(Tail(s), WaitIdle) /\ At(Tail(Tail(s)), Check) /\ AfterAddress(Tail(Tail(Tail(s))))
Behind(c, s) == IF c = Whole THEN Len(s) - 3 ELSE 0

(***************************************************************************)
(* The engine.                                                             *)
(***************************************************************************)
NoErr == "nack" \notin flags /\ "arb" \notin flags
Quiet == st = "idle" /\ cmd = {} /\ rx = <<>>
OneRead == rx # <<>> /\ Tail(rx) = <<>>

\* Nothing can refuse a byte of the call but an absent device, and the device takes all it gets.
Heeds(x) == ~(x = "any" /\ "busy" \in Faults)
Answers ==
  /\ Heeds(Head(script).x)
  /\ st \in {"idle", "start"} => Head(tx) = 2 * SLAVE
  /\ st = "byte" => slave.mode = "wr" \/ (slave.mode = "addr" /\ cur = 2 * SLAVE)
  /\ st = "ack" => slave.mode = "wr" /\ ~byteNack
\* A refusal finds the rest of the call in the FIFO, or there is none.
Room(k, shift) == k = 0 \/ Len(tx) + k <= FIFO_DEPTH + shift \/ Answers

Over(c, k) ==
  \/ "arb" \in flags /\ ~bus /\ Len(script) = 1
  \/ /\ k = 0 /\ tx = <<>> /\ "arb" \notin flags
     /\ \/ "nack" \in flags /\ ~bus
        \/ "nack" \notin flags /\ (bus <=> c = Open)

\* A START command c with bytes to send, k of them not yet pushed.
Addressing(c, k) ==
  /\ rx = <<>>
  /\ \/ st = "idle" /\ cmd = c /\ tx # <<>> /\ NoErr /\ Room(k, 1)
     \/ st = "start" /\ op = c /\ cmd = {} /\ tx # <<>> /\ NoErr /\ bus /\ Room(k, 1)
     \/ st = "byte" /\ op = c /\ cmd = {} /\ NoErr /\ bus /\ Room(k, 0)
     \/ /\ st = "ack" /\ op = c /\ cmd = {} /\ bus /\ Room(k, 0)
        /\ "arb" \notin flags /\ ("nack" \in flags <=> byteNack)
     \/ /\ st = "stop" /\ cmd = {} /\ k = 0 /\ tx = <<>> /\ bus
        /\ "arb" \notin flags /\ ("nack" \in flags \/ c = Whole)
     \/ st \in {"done", "idle"} /\ cmd = {} /\ Over(c, k)

\* A READ command c.
Reading(c) ==
  /\ tx = <<>> /\ NoErr
  /\ \/ st = "idle" /\ cmd = c /\ bus /\ rx = <<>>
     \/ st = "byte" /\ op = c /\ cmd = {} /\ bus /\ rx = <<>>
     \/ st = "ack" /\ op = c /\ cmd = {} /\ bus /\ OneRead
     \/ st = "stop" /\ c = LastRead /\ cmd = {} /\ bus /\ OneRead
     \/ st \in {"done", "idle"} /\ cmd = {} /\ (bus <=> c # LastRead) /\ OneRead

(***************************************************************************)
(* Where the program is.                                                   *)
(***************************************************************************)
\* n bytes are queued before the command of s, the first of them is first. Where that asks the device
\* to send, it is the only one, and the device has a byte to send.
FitsCall(x, first, n, c, s) ==
  /\ Behind(c, s) = 0 \/ n + Behind(c, s) <= FIFO_DEPTH + 1 \/ (Heeds(x) /\ first = 2 * SLAVE)
  /\ first % 2 = 1 => n = 1 /\ c = Open /\ Rest(Tail(Tail(Tail(s))))
Fits(first, n, c, s) == FitsCall(Head(script).x, first, n, c, s)
Queued(c) == AtStart(c, code) /\ tx # <<>> /\ Fits(Head(tx), Len(tx), c, code)
LastByte(c) ==
  /\ AtPush(code) /\ AtStart(c, Tail(code))
  /\ Fits(IF tx = <<>> THEN Head(code).b ELSE Head(tx), Len(tx) + 1, c, Tail(code))
TwoBytes(c) ==
  /\ AtPush(code) /\ AtPush(Tail(code)) /\ AtStart(c, Tail(Tail(code)))
  /\ tx = <<>> /\ Fits(Head(code).b, 2, c, Tail(Tail(code)))
Loading(c) == Quiet /\ NoErr /\ (Queued(c) \/ LastByte(c) \/ TwoBytes(c))

\* The command has been written.
Writing == WriteTail(code) /\ Len(code) >= 2 /\ Addressing(Whole, Len(code) - 2)
Waiting == At(code, WaitIdle) /\ At(Tail(code), Check) /\ AfterAddress(Tail(Tail(code))) /\ Addressing(Open, 0)
Checking == At(code, Check) /\ AfterAddress(Tail(code)) /\ Quiet /\ Over(Open, 0)

\* The address has been acknowledged.
Addressed == AfterAddress(code) /\ Quiet /\ tx = <<>> /\ bus /\ NoErr
ReadWaits ==
  /\ ReadTail(code) /\ Len(code) >= 3 /\ Len(code) % 3 = 0
  /\ Reading(IF Len(code) = 3 THEN LastRead ELSE {"read"})
ReadPops ==
  /\ ReadTail(code) /\ Len(code) % 3 = 2
  /\ st = "idle" /\ cmd = {} /\ tx = <<>> /\ NoErr /\ (bus <=> Len(code) > 2) /\ OneRead

\* The call has yet to begin; it is over but for its result.
Clean == Quiet /\ ~bus /\ tx = <<>>
BusLost == Quiet /\ ~bus /\ Len(script) = 1
Beginning == code = Head(script).ops /\ Clean
LastCheck == At(code, Check) /\ Tail(code) = <<>> /\ (Clean \/ ("arb" \in flags /\ BusLost))
CallOver == code = <<>> /\ (Clean \/ (rc = "arb" /\ BusLost))

AtEachAccess ==
  \/ Beginning \/ (\E c \in {Whole, Open} : Loading(c)) \/ Writing \/ Waiting \/ Checking
  \/ Addressed \/ ReadWaits \/ ReadPops \/ LastCheck \/ CallOver

CallsMade == UNION {{s[i] : i \in 1..Len(s)} : s \in Scripts}
I2cTypeOK ==
  /\ script \in Seq(CallsMade) /\ code \in Seq(Accesses) /\ tx \in Seq(Nat)
  /\ slave = [mode |-> slave.mode, first |-> slave.first, bit |-> 0, ptr |-> slave.ptr, regs |-> slave.regs]

(***************************************************************************)
(* The device. It sends from the address of a read to the last byte of it, *)
(* and the engine has nothing to say meanwhile.                            *)
(***************************************************************************)
ReadsNext == Waiting /\ Rest(Tail(Tail(code)))
Sends ==
  \/ ReadsNext /\ tx = <<>> /\ NoErr /\ cmd = {} /\ st \in {"ack", "done", "idle"}
  \/ Checking /\ Rest(Tail(code)) /\ NoErr
  \/ Addressed /\ Rest(code)
  \/ ReadWaits /\ (Len(code) = 3 => (st = "idle" /\ cmd # {}) \/ st = "byte")
  \/ ReadPops /\ Len(code) > 2
\* An address of a read goes out alone.
AsksToSend ==
  /\ (st = "start" \/ (st = "idle" /\ "start" \in cmd)) /\ Head(tx) % 2 = 1 => Len(tx) = 1 /\ ReadsNext
  /\ st = "byte" /\ "read" \notin op /\ slave.mode = "addr" /\ cur % 2 = 1 => tx = <<>> /\ ReadsNext
  /\ st = "ack" /\ "read" \notin op => slave.mode # "addr"
SlaveInv == (slave.mode = "rd" => Sends) /\ AsksToSend
\* A START, a STOP and a byte written find the line free.
Meets == st \in {"start", "stop"} \/ (st = "byte" /\ "read" \notin op) => slave.mode # "rd"

\* A program that has returned from its last call leaves the engine alone.
I2cInv ==
  /\ I2cTypeOK
  /\ script = <<>> => code = <<>> /\ st = "idle" /\ cmd = {}
  /\ script # <<>> => AtEachAccess /\ SlaveInv

(***************************************************************************)
(* The frame of a call on the bus.                                         *)
(***************************************************************************)
Frame == Head(script).frame
Data == Head(script).data
HasFrame == script # <<>> /\ Frame # <<>>

\* What the accesses s add to the first p of a frame f: the bytes of a write, or the bytes d of a
\* read, the second address first where there is one, and the STOP.
PushesAt(f, s, p) ==
  /\ WriteTail(s) /\ Len(s) >= 2 /\ Len(f) = p + Len(s) - 1 /\ f[Len(f)] = STOP
  /\ \A i \in 1..Len(s) - 2 : s[i].b = f[p + i]
DataAt(f, d, p) ==
  /\ Len(f) = p + Len(d) + 1 /\ f[Len(f)] = STOP
  /\ \A j \in 1..Len(d) : f[p + j] = d[j]
ReadsAt(f, d, s, p) == DataAt(f, d, p) /\ ReadTail(s) /\ Len(s) = 3 * Len(d) + 1
AddressAt(f, d, s, p) ==
  \/ ReadsAt(f, d, s, p) /\ d # <<>>
  \/ /\ AtPush(s) /\ f[p + 1] = START /\ Head(s).b = f[p + 2]
     /\ ReadsAt(f, d, Tail(Tail(Tail(Tail(s)))), p + 2) /\ d # <<>>
StartAt(f, d, c, s, p) ==
  \/ c = Whole /\ PushesAt(f, Tail(s), p)
  \/ c = Open /\ AddressAt(f, d, Tail(Tail(Tail(s))), p)

\* The bus has carried the first bytes of the frame; these and a STOP; all of it.
Sent(q) == \A i \in 1..q : wire[i] = Frame[i]
Closed(q) == Len(wire) = q + 1 /\ wire[q + 1] = STOP /\ Sent(q)
Refused == \E q \in Nat : q < Len(Frame) /\ Closed(q)
Complete == Len(wire) = Len(Frame) /\ (got = Data => Sent(Len(Frame)))

\* A START and the bytes queued make p of the frame.
InQueue(q) == \A i \in 1..Len(tx) : tx[i] = Frame[q + i]
Starts(p) ==
  /\ p = Len(wire) + 1 + Len(tx) /\ Sent(Len(wire))
  /\ Frame[Len(wire) + 1] = START /\ InQueue(Len(wire) + 1)
Sending(p) ==
  \/ "arb" \in flags
  \/ (st = "start" \/ (st = "idle" /\ cmd # {})) /\ Starts(p)
  \/ /\ st = "byte" /\ p = Len(wire) + 1 + Len(tx) /\ Sent(Len(wire))
     /\ cur = Frame[Len(wire) + 1] /\ InQueue(Len(wire) + 1)
  \/ st = "ack" /\ p = Len(wire) + Len(tx) /\ Sent(Len(wire)) /\ InQueue(Len(wire))
  \/ st = "stop" /\ Len(wire) <= p /\ Sent(Len(wire)) /\ ("nack" \notin flags => Len(wire) = p)
  \/ /\ st \in {"done", "idle"} /\ cmd = {}
     /\ IF "nack" \in flags THEN Refused ELSE IF bus THEN Len(wire) = p /\ Sent(p) ELSE Closed(p)

\* Bytes popped, and the byte in the FIFO, behind the first h of the frame.
Popped(h) ==
  DataAt(Frame, Data, h) /\ Sent(h) /\ \A j \in 1..Len(got) : wire[h + j] = got[j]
InRx(n) ==
  /\ rx = <<>> => Len(wire) = n
  /\ rx # <<>> => /\ wire[n + 1] = Head(rx)
                  /\ IF bus THEN Len(wire) = n + 1 ELSE Len(wire) = n + 2 /\ wire[n + 2] = STOP
\* k accesses of the current byte are left, then those of the bytes behind it.
ToRead(k) == Len(code) = 3 * (Len(Data) - Len(got) - 1) + 1 + k

FrameBegins == Beginning /\ wire = <<>> /\ got = <<>>
FrameLoads(c) ==
  /\ Loading(c) /\ got = <<>>
  /\ \E p \in Nat :
       /\ Starts(p)
       /\ \/ Queued(c) /\ StartAt(Frame, Data, c, code, p)
          \/ LastByte(c) /\ Head(code).b = Frame[p + 1] /\ StartAt(Frame, Data, c, Tail(code), p + 1)
          \/ /\ TwoBytes(c) /\ Head(code).b = Frame[p + 1] /\ Head(Tail(code)).b = Frame[p + 2]
             /\ StartAt(Frame, Data, c, Tail(Tail(code)), p + 2)
FrameWrites == Writing /\ got = <<>> /\ \E p \in Nat : Sending(p) /\ PushesAt(Frame, code, p)
FrameWaits == Waiting /\ got = <<>> /\ \E p \in Nat : Sending(p) /\ AddressAt(Frame, Data, Tail(Tail(code)), p)
FrameChecks == Checking /\ got = <<>> /\ \E p \in Nat : Sending(p) /\ AddressAt(Frame, Data, Tail(code), p)
FrameAddressed ==
  /\ Addressed
  /\ \/ got = <<>> /\ AtPush(code) /\ Sent(Len(wire)) /\ AddressAt(Frame, Data, code, Len(wire))
     \/ ReadTail(code) /\ ToRead(3) /\ \E h \in Nat : Popped(h) /\ Len(wire) = h + Len(got)
FrameReadWaits == ReadWaits /\ ToRead(2) /\ \E h \in Nat : Popped(h) /\ InRx(h + Len(got))
FrameReadPops == ReadPops /\ ToRead(1) /\ \E h \in Nat : Popped(h) /\ InRx(h + Len(got))
FrameLastCheck ==
  /\ LastCheck
  /\ \/ "arb" \in flags
     \/ "arb" \notin flags /\ "nack" \in flags /\ Refused
     \/ NoErr /\ Complete
FrameOver ==
  /\ CallOver
  /\ \/ rc = "arb"
     \/ rc = "nack" /\ Refused
     \/ rc = "ok" /\ Complete
FrameAtEachAccess ==
  \/ FrameBegins \/ (\E c \in {Whole, Open} : FrameLoads(c)) \/ FrameWrites \/ FrameWaits \/ FrameChecks
  \/ FrameAddressed \/ FrameReadWaits \/ FrameReadPops \/ FrameLastCheck \/ FrameOver

\* The device and what is on the bus, in bytes.
WireTypeOK ==
  /\ slave \in [mode : {"idle", "addr", "wr", "rd"}, first : BOOLEAN, bit : {0}, ptr : 0..NREGS - 1,
               regs : [0..NREGS - 1 -> Nat]]
  /\ cur \in Nat /\ rx \in Seq(Nat) /\ got \in Seq(Nat) /\ wire \in Seq(Nat)
FrameInv == I2cInv /\ WireTypeOK /\ (HasFrame => FrameAtEachAccess)

\* A call to which a frame is given is one of i2c.h, and the frame is its own.
IsFramed(c) ==
  \E a \in Nat, buf \in Seq(Nat) :
    \/ c = CallWrite(a, buf, c.x) /\ (MayRefuse(a, c.x) => Len(buf) <= FIFO_DEPTH)
    \/ \E r \in Nat : c = CallWriteRegs(a, r, buf, c.x) /\ (MayRefuse(a, c.x) => Len(buf) < FIFO_DEPTH)
    \/ c = CallRead(a, buf, c.x) /\ buf # <<>>
    \/ \E r \in Nat : c = CallReadRegs(a, r, buf, c.x) /\ buf # <<>>
FramesFit == \A c \in CallsMade : c.frame # <<>> => IsFramed(c)
\* The bytes read are those the program knows to be there.
ReadsBack == Returned /\ rc = "ok" => got = Head(script).data

-----------------------------------------------------------------------------
(***************************************************************************)
(* Sequences and accesses.                                                 *)
(***************************************************************************)
\* One access off the front.
LEMMA Peel ==
  ASSUME NEW S, NEW s \in Seq(S), s # <<>>
  PROVE  /\ Tail(s) \in Seq(S) /\ Len(s) \in Nat \ {0} /\ Len(Tail(s)) = Len(s) - 1
         /\ Head(s) \in S /\ Head(s) = s[1]
         /\ \A i \in 1..Len(Tail(s)) : Tail(s)[i] = s[i + 1]
<1>1. Len(s) \in Nat \ {0}
  OBVIOUS
<1>2. Tail(s) \in Seq(S) /\ Len(Tail(s)) = Len(s) - 1 /\ Head(s) = s[1]
  BY <1>1
<1>3. \A i \in 1..Len(Tail(s)) : Tail(s)[i] = s[i + 1]
  BY <1>1, <1>2
<1>4. s[1] \in S
  BY <1>1
<1> QED BY <1>1, <1>2, <1>3, <1>4

LEMMA Empty ==
  ASSUME NEW S, NEW s \in Seq(S), Len(s) = 0
  PROVE  s = <<>>
OBVIOUS

LEMMA NotEmpty == \A s : Len(s) >= 1 => s # <<>>
OBVIOUS

\* A byte more at the back.
LEMMA Queue ==
  ASSUME NEW S, NEW s \in Seq(S), NEW b \in S
  PROVE  /\ Append(s, b) \in Seq(S) /\ Append(s, b) # <<>> /\ Len(Append(s, b)) = Len(s) + 1
         /\ Head(Append(s, b)) = IF s = <<>> THEN b ELSE Head(s)
<1>1. Append(s, b) \in Seq(S) /\ Len(Append(s, b)) = Len(s) + 1 /\ Len(s) \in Nat
  OBVIOUS
<1>2. Append(s, b) # <<>> /\ Head(Append(s, b)) = Append(s, b)[1]
  BY <1>1
<1>3. CASE s = <<>>
  <2>1. Append(s, b)[1] = b
    BY <1>3
  <2> QED BY <1>1, <1>2, <1>3, <2>1
<1>4. CASE s # <<>>
  <2>1. Len(s) >= 1
    BY <1>4
  <2>2. Append(s, b)[1] = s[1] /\ Head(s) = s[1]
    BY <2>1
  <2> QED BY <1>1, <1>2, <1>4, <2>2
<1> QED BY <1>3, <1>4

\* Two sequences end to end.
LEMMA Join ==
  ASSUME NEW S, NEW s \in Seq(S), NEW t \in Seq(S)
  PROVE  /\ s \o t \in Seq(S) /\ Len(s \o t) = Len(s) + Len(t)
         /\ \A i \in 1..Len(s) : (s \o t)[i] = s[i]
         /\ \A i \in 1..Len(t) : (s \o t)[Len(s) + i] = t[i]
         /\ s # <<>> => Head(s \o t) = Head(s) /\ Tail(s \o t) = Tail(s) \o t
         /\ s = <<>> => s \o t = t
OBVIOUS

\* An access is known by its kind.
LEMMA Kinds ==
  ASSUME NEW x \in Accesses
  PROVE  /\ x.k = "check" => x = Check
         /\ x.k = "wait" => x = WaitIdle
         /\ x.k = "pop" => x = Pop
         /\ x.k = "push" => x.b \in Nat
         /\ x.k = "cmd" => x = Cmd(x.c)
         /\ x.k = "clear" => x = Clear
         /\ x.k \in {"clear", "wait", "check", "pop", "push", "cmd"}
<1>1. CASE x \in {Clear, WaitIdle, Check, Pop}
  BY <1>1 DEF Clear, WaitIdle, Check, Pop
<1>2. CASE x \in [k : {"push"}, b : Nat]
  BY <1>2
<1>3. CASE x \in [k : {"cmd"}, c : {Whole, Open, {"read"}, LastRead}]
  BY <1>3 DEF Cmd
<1> QED BY <1>1, <1>2, <1>3 DEF Accesses

LEMMA Kind ==
  /\ Check.k = "check" /\ WaitIdle.k = "wait" /\ Pop.k = "pop" /\ Clear.k = "clear"
  /\ Clear.f = {"nack", "arb"}
  /\ \A c : Cmd(c).k = "cmd" /\ Cmd(c).c = c
  /\ \A b : Push(b).k = "push" /\ Push(b).b = b
BY DEF Check, WaitIdle, Pop, Clear, Cmd, Push

LEMMA AreAccesses ==
  /\ Check \in Accesses /\ WaitIdle \in Accesses /\ Pop \in Accesses /\ Clear \in Accesses
  /\ \A b \in Nat : Push(b) \in Accesses
  /\ \A c \in {Whole, Open, {"read"}, LastRead} : Cmd(c) \in Accesses
<1>1. Check \in Accesses /\ WaitIdle \in Accesses /\ Pop \in Accesses /\ Clear \in Accesses
  BY DEF Accesses
<1>2. ASSUME NEW b \in Nat PROVE Push(b) \in Accesses
  BY DEF Accesses, Push
<1>3. ASSUME NEW c \in {Whole, Open, {"read"}, LastRead} PROVE Cmd(c) \in Accesses
  BY <1>3 DEF Accesses, Cmd
<1> QED BY <1>1, <1>2, <1>3

\* The commands are different, and what the engine asks of them.
LEMMA CommandBits ==
  /\ Whole # Open /\ Whole # {"read"} /\ Open # {"read"} /\ LastRead # {"read"}
  /\ \A c \in {Whole, Open} : "start" \in c /\ "read" \notin c /\ ("stop" \in c <=> c = Whole) /\ c # {}
  /\ \A c \in {{"read"}, LastRead} :
       /\ "start" \notin c /\ "read" \in c /\ c # {}
       /\ (c \cap {"stop", "nack"} = {} <=> c # LastRead)
<1>1. "stop" \in Whole /\ "stop" \notin Open /\ "read" \notin Whole /\ "read" \in {"read"} /\ "stop" \in LastRead
      /\ "stop" \notin {"read"} /\ "read" \notin Open /\ "start" \in Whole /\ "start" \in Open /\ "read" \in LastRead
      /\ "start" \notin {"read"} /\ "start" \notin LastRead
  BY DEF Whole, Open, LastRead
<1>2. {"read"} \cap {"stop", "nack"} = {} /\ LastRead \cap {"stop", "nack"} # {}
  BY DEF LastRead
<1> QED BY <1>1, <1>2

(***************************************************************************)
(* The calls of i2c.h.                                                     *)
(***************************************************************************)
LEMMA WriteTailIs ==
  ASSUME NEW buf \in Seq(Nat)
  PROVE  LET t == [i \in 1..Len(buf) |-> Push(buf[i])] \o <<WaitIdle, Check>>
         IN  WriteTail(t) /\ Len(t) = Len(buf) + 2 /\ \A i \in 1..Len(buf) : t[i].b = buf[i]
<1> DEFINE P == [i \in 1..Len(buf) |-> Push(buf[i])]
           W == <<WaitIdle, Check>>
<1>1. P \in Seq(Accesses) /\ Len(P) = Len(buf) /\ \A i \in 1..Len(P) : P[i].k = "push"
  <2>1. \A i \in 1..Len(buf) : Push(buf[i]) \in Accesses /\ Push(buf[i]).k = "push" /\ Push(buf[i]).b = buf[i]
    BY AreAccesses, Kind
  <2> QED BY <2>1
<1>1a. \A i \in 1..Len(buf) : P[i].b = buf[i]
  <2>1. \A i \in 1..Len(buf) : Push(buf[i]).b = buf[i]
    BY Kind
  <2> QED BY <2>1
<1>2. W \in Seq(Accesses) /\ Len(W) = 2 /\ W[1] = WaitIdle /\ W[2] = Check
  BY AreAccesses
<1> HIDE DEF P, W
<1>3. /\ P \o W \in Seq(Accesses) /\ Len(P \o W) = Len(P) + 2
      /\ \A i \in 1..Len(P) : (P \o W)[i] = P[i]
      /\ \A i \in 1..2 : (P \o W)[Len(P) + i] = W[i]
  BY <1>1, <1>2, Join
<1>4. (P \o W)[Len(P) + 1] = WaitIdle /\ (P \o W)[Len(P) + 2] = Check
  BY <1>2, <1>3
<1>5. WriteTail(P \o W)
  BY <1>1, <1>3, <1>4, Kind DEF WriteTail
<1>6. \A i \in 1..Len(buf) : (P \o W)[i].b = buf[i]
  BY <1>1, <1>1a, <1>3
<1> QED BY <1>1, <1>3, <1>5, <1>6 DEF P, W

LEMMA RestIs ==
  ASSUME NEW n \in Nat \ {0}
  PROVE  /\ ReadBytes(n) \in Seq(Accesses) /\ ReadBytes(n) \o <<Check>> \in Seq(Accesses)
         /\ Rest(ReadBytes(n) \o <<Check>>)
         /\ ReadTail(ReadBytes(n) \o <<Check>>) /\ Len(ReadBytes(n) \o <<Check>>) = 3 * n + 1
<1> DEFINE m == 3 * n
           R == ReadBytes(n)
           r == R \o <<Check>>
<1>0. m \in Nat /\ m >= 3 /\ m % 3 = 0 /\ (m + 1) % 3 = 1
  OBVIOUS
<1>1. ASSUME NEW i \in 1..m PROVE R[i] = ReadAt(m + 1 - i) /\ R[i] \in Accesses
  <2>1. R[i] = CASE i % 3 = 1 -> Cmd({"read"} \cup (IF i = m - 2 THEN {"nack", "stop"} ELSE {}))
                 [] i % 3 = 2 -> WaitIdle
                 [] OTHER -> Pop
    BY DEF ReadBytes
  <2>2. CASE i % 3 = 1
    <3>1. (m + 1 - i) % 3 = 0 /\ m + 1 - i # 0 /\ (i = m - 2 <=> m + 1 - i = 3)
      BY <2>2, <1>0
    <3>2. {"read"} \cup {"nack", "stop"} = LastRead /\ {"read"} \cup {} = {"read"}
      BY DEF LastRead
    <3>3. R[i] = Cmd(IF m + 1 - i = 3 THEN LastRead ELSE {"read"})
      <4>1. R[i] = Cmd({"read"} \cup (IF i = m - 2 THEN {"nack", "stop"} ELSE {}))
        BY <2>1, <2>2
      <4>2. CASE i = m - 2
        BY <4>1, <4>2, <3>1, <3>2
      <4>3. CASE i # m - 2
        BY <4>1, <4>3, <3>1, <3>2
      <4> QED BY <4>2, <4>3
    <3>4. R[i] = ReadAt(m + 1 - i)
      BY <3>1, <3>3 DEF ReadAt
    <3> QED BY <3>3, <3>4, AreAccesses
  <2>3. CASE i % 3 = 2
    <3>1. (m + 1 - i) % 3 = 2 /\ m + 1 - i # 0
      BY <2>3, <1>0
    <3> QED BY <2>1, <2>3, <3>1, AreAccesses DEF ReadAt
  <2>4. CASE i % 3 = 0
    <3>1. (m + 1 - i) % 3 = 1 /\ m + 1 - i # 0
      BY <2>4, <1>0
    <3> QED BY <2>1, <2>4, <3>1, AreAccesses DEF ReadAt
  <2> QED BY <2>2, <2>3, <2>4, <1>0
<1>2. R \in Seq(Accesses) /\ Len(R) = m
  <2>1. R = [i \in 1..m |-> R[i]]
    BY DEF ReadBytes
  <2> HIDE DEF R
  <2>2. \A i \in 1..m : R[i] \in Accesses
    BY <1>1
  <2> QED BY <2>1, <2>2, <1>0
<1>3. <<Check>> \in Seq(Accesses) /\ Len(<<Check>>) = 1 /\ <<Check>>[1] = Check
  BY AreAccesses
<1> HIDE DEF m, R
<1>4. r \in Seq(Accesses) /\ Len(r) = m + 1 /\ (\A i \in 1..m : r[i] = R[i]) /\ r[m + 1] = Check
  BY <1>2, <1>3, Join
<1>5. \A i \in 1..m : r[i] = ReadAt(m + 1 - i)
  BY <1>1, <1>4
<1>6. r[m + 1] = ReadAt(m + 1 - (m + 1))
  BY <1>4, <1>0 DEF ReadAt
<1>7. ReadTail(r)
  BY <1>0, <1>4, <1>5, <1>6 DEF ReadTail
<1>8. Rest(r)
  BY <1>7, <1>4, <1>0 DEF Rest
<1> QED BY <1>2, <1>4, <1>7, <1>8 DEF R, m
\* An access off the front of what is written in three pieces.
LEMMA PeelThree ==
  \A s, t, u \in Seq(Accesses) : s # <<>> =>
    /\ (s \o t) \o u \in Seq(Accesses) /\ (s \o t) \o u # <<>> /\ Head((s \o t) \o u) = Head(s)
    /\ Tail((s \o t) \o u) = (Tail(s) \o t) \o u
<1> SUFFICES ASSUME NEW s \in Seq(Accesses), NEW t \in Seq(Accesses), NEW u \in Seq(Accesses), s # <<>>
             PROVE  /\ (s \o t) \o u \in Seq(Accesses) /\ (s \o t) \o u # <<>> /\ Head((s \o t) \o u) = Head(s)
                    /\ Tail((s \o t) \o u) = (Tail(s) \o t) \o u
  OBVIOUS
<1>1. s \o t \in Seq(Accesses) /\ (s \o t) \o u \in Seq(Accesses)
  BY Join
<1>2. Len(s) \in Nat \ {0} /\ Len(s \o t) = Len(s) + Len(t) /\ Len(t) \in Nat /\ Len(u) \in Nat
      /\ Len((s \o t) \o u) = Len(s \o t) + Len(u)
  BY <1>1, Peel, Join
<1>3. s \o t # <<>> /\ (s \o t) \o u # <<>>
  BY <1>1, <1>2
<1>4. Head(s \o t) = Head(s) /\ Tail(s \o t) = Tail(s) \o t
  BY Join
<1>5. Head((s \o t) \o u) = Head(s \o t) /\ Tail((s \o t) \o u) = Tail(s \o t) \o u
  BY <1>1, <1>3, Join
<1> QED BY <1>1, <1>3, <1>4, <1>5

LEMMA NothingFirst ==
  ASSUME NEW S, NEW t \in Seq(S), NEW u
  PROVE  (<<>> \o t) \o u = t \o u
<1>1. <<>> \o t = t
  BY Join
<1> QED BY <1>1

LEMMA Tuples ==
  ASSUME NEW S, NEW a \in S, NEW b \in S, NEW c \in S, NEW d \in S, NEW e \in S
  PROVE  /\ <<a>> \in Seq(S) /\ <<a>> # <<>> /\ Head(<<a>>) = a /\ Tail(<<a>>) = <<>>
         /\ <<a, b>> \in Seq(S) /\ <<a, b>> # <<>> /\ Head(<<a, b>>) = a /\ Tail(<<a, b>>) = <<b>>
         /\ <<a, b, c>> \in Seq(S) /\ <<a, b, c>> # <<>> /\ Head(<<a, b, c>>) = a /\ Tail(<<a, b, c>>) = <<b, c>>
         /\ <<a, b, c, d>> \in Seq(S) /\ <<a, b, c, d>> # <<>> /\ Head(<<a, b, c, d>>) = a
         /\ Tail(<<a, b, c, d>>) = <<b, c, d>>
         /\ <<a, b, c, d, e>> \in Seq(S) /\ <<a, b, c, d, e>> # <<>> /\ Head(<<a, b, c, d, e>>) = a
         /\ Tail(<<a, b, c, d, e>>) = <<b, c, d, e>>
OBVIOUS

LEMMA LongTuples ==
  ASSUME NEW S, NEW a \in S, NEW b \in S, NEW c \in S, NEW d \in S, NEW e \in S,
         NEW f \in S, NEW g \in S, NEW h \in S, NEW i \in S, NEW j \in S
  PROVE  /\ <<a, b, c, d, e, f, g, h, i, j>> \in Seq(S) /\ <<a, b, c, d, e, f, g, h, i, j>> # <<>>
         /\ Head(<<a, b, c, d, e, f, g, h, i, j>>) = a
         /\ Tail(<<a, b, c, d, e, f, g, h, i, j>>) = <<b, c, d, e, f, g, h, i, j>>
         /\ <<b, c, d, e, f, g, h, i, j>> \in Seq(S) /\ <<b, c, d, e, f, g, h, i, j>> # <<>>
         /\ Head(<<b, c, d, e, f, g, h, i, j>>) = b
         /\ Tail(<<b, c, d, e, f, g, h, i, j>>) = <<c, d, e, f, g, h, i, j>>
         /\ <<c, d, e, f, g, h, i, j>> \in Seq(S) /\ <<c, d, e, f, g, h, i, j>> # <<>>
         /\ Head(<<c, d, e, f, g, h, i, j>>) = c
         /\ Tail(<<c, d, e, f, g, h, i, j>>) = <<d, e, f, g, h, i, j>>
         /\ <<d, e, f, g, h, i, j>> \in Seq(S) /\ <<d, e, f, g, h, i, j>> # <<>>
         /\ Head(<<d, e, f, g, h, i, j>>) = d
         /\ Tail(<<d, e, f, g, h, i, j>>) = <<e, f, g, h, i, j>>
         /\ <<e, f, g, h, i, j>> \in Seq(S) /\ <<e, f, g, h, i, j>> # <<>>
         /\ Head(<<e, f, g, h, i, j>>) = e
         /\ Tail(<<e, f, g, h, i, j>>) = <<f, g, h, i, j>>
OBVIOUS

\* A call clears the errors of the one before and queues its address, or that and a register;
\* if it has a frame f, that begins with them.
Begins(s, x, f, d) ==
  \E c \in {Whole, Open} :
    \/ /\ AtPush(s) /\ AtStart(c, Tail(s)) /\ FitsCall(x, Head(s).b, 1, c, Tail(s))
       /\ f # <<>> => f[1] = START /\ f[2] = Head(s).b /\ StartAt(f, d, c, Tail(s), 2)
    \/ /\ AtPush(s) /\ AtPush(Tail(s)) /\ AtStart(c, Tail(Tail(s)))
       /\ FitsCall(x, Head(s).b, 2, c, Tail(Tail(s)))
       /\ f # <<>> => /\ f[1] = START /\ f[2] = Head(s).b /\ f[3] = Head(Tail(s)).b
                      /\ StartAt(f, d, c, Tail(Tail(s)), 3)

\* The parts of a frame.
LEMMA FrameParts ==
  ASSUME NEW h \in Seq(Nat), NEW buf \in Seq(Nat), NEW f, f = h \o buf \o <<STOP>>
  PROVE  /\ f \in Seq(Nat) /\ Len(f) = Len(h) + Len(buf) + 1 /\ f[Len(f)] = STOP
         /\ \A i \in 1..Len(h) : f[i] = h[i]
         /\ \A i \in 1..Len(buf) : f[Len(h) + i] = buf[i]
<1> DEFINE g == h \o buf
           e == <<STOP>>
<1>1. e \in Seq(Nat) /\ Len(e) = 1 /\ e[1] = STOP
  BY DEF STOP
<1>2. /\ g \in Seq(Nat) /\ Len(g) = Len(h) + Len(buf)
      /\ \A i \in 1..Len(h) : g[i] = h[i]
      /\ \A i \in 1..Len(buf) : g[Len(h) + i] = buf[i]
  BY Join
<1> HIDE DEF g, e
<1>3. f = g \o e
  BY DEF g, e
<1>4. /\ f \in Seq(Nat) /\ Len(f) = Len(g) + Len(e)
      /\ \A i \in 1..Len(g) : f[i] = g[i]
      /\ \A i \in 1..Len(e) : f[Len(g) + i] = e[i]
  <2>1. g \in Seq(Nat) /\ e \in Seq(Nat)
    BY <1>1, <1>2
  <2>2. /\ g \o e \in Seq(Nat) /\ Len(g \o e) = Len(g) + Len(e)
        /\ \A i \in 1..Len(g) : (g \o e)[i] = g[i]
        /\ \A i \in 1..Len(e) : (g \o e)[Len(g) + i] = e[i]
    BY <2>1, Join
  <2> QED BY <1>3, <2>2
<1>5. Len(h) \in Nat /\ Len(buf) \in Nat
  OBVIOUS
<1>6. f[Len(f)] = STOP
  BY <1>1, <1>2, <1>4, <1>5
<1> QED BY <1>1, <1>2, <1>4, <1>5, <1>6

\* The bytes of a write stand in its frame behind the first p.
LEMMA PushesStand ==
  ASSUME NEW buf \in Seq(Nat), NEW p \in Nat, NEW f, NEW t, WriteTail(t), Len(t) = Len(buf) + 2,
         \A i \in 1..Len(buf) : t[i].b = buf[i],
         Len(f) = p + Len(buf) + 1, f[Len(f)] = STOP, \A i \in 1..Len(buf) : f[p + i] = buf[i]
  PROVE  PushesAt(f, t, p)
<1>1. Len(buf) \in Nat /\ Len(t) - 2 = Len(buf)
  OBVIOUS
<1> QED BY <1>1 DEF PushesAt

LEMMA WriteStarts ==
  ASSUME NEW s \in Seq(Accesses), At(s, Cmd(Whole)), NEW t, Tail(s) = t, WriteTail(t), NEW n \in Nat, Len(t) = n + 2
  PROVE  AtStart(Whole, s) /\ Behind(Whole, s) = n
<1>1. s # <<>> /\ Len(s) = n + 3
  <2>1. s # <<>>
    BY DEF At
  <2> QED BY <2>1, Peel
<1>2. WriteTail(Tail(s))
  OBVIOUS
<1>3. Len(s) >= 3
  BY <1>1
<1>4. AtStart(Whole, s)
  BY <1>2, <1>3 DEF AtStart
<1> QED BY <1>1, <1>4 DEF Behind

\* A call whose command follows one byte, or two.
LEMMA ByteThenStart ==
  ASSUME NEW c \in {Whole, Open}, NEW s, NEW t, NEW x, NEW b, s # <<>>, Head(s) = Push(b), Tail(s) = t,
         AtStart(c, t), FitsCall(x, b, 1, c, t), NEW f, NEW d,
         f # <<>> => f[1] = START /\ f[2] = b /\ StartAt(f, d, c, t, 2)
  PROVE  Begins(s, x, f, d)
<1>1. AtPush(s) /\ Head(s).b = b
  BY Kind DEF AtPush
<1> QED BY <1>1 DEF Begins

LEMMA BytesThenStart ==
  ASSUME NEW c \in {Whole, Open}, NEW s, NEW t, NEW u, NEW x, NEW a, NEW b,
         s # <<>>, Head(s) = Push(a), Tail(s) = t, t # <<>>, Head(t) = Push(b), Tail(t) = u,
         AtStart(c, u), FitsCall(x, a, 2, c, u), NEW f, NEW d,
         f # <<>> => f[1] = START /\ f[2] = a /\ f[3] = b /\ StartAt(f, d, c, u, 3)
  PROVE  Begins(s, x, f, d)
<1>1. AtPush(s) /\ Head(s).b = a /\ AtPush(t) /\ Head(t).b = b
  BY Kind DEF AtPush
<1> QED BY <1>1 DEF Begins

LEMMA WriteBegins ==
  ASSUME NEW a \in Nat, NEW buf \in Seq(Nat), NEW x, MayRefuse(a, x) => Len(buf) <= FIFO_DEPTH,
         NEW f, NEW d, f # <<>> => f = WriteFrame(a, buf)
  PROVE  /\ i2c_write(a, buf) \in Seq(Accesses) /\ At(i2c_write(a, buf), Clear)
         /\ Begins(Tail(i2c_write(a, buf)), x, f, d)
<1> DEFINE P == [i \in 1..Len(buf) |-> Push(buf[i])]
           W == <<WaitIdle, Check>>
           A == <<Clear, Push(2 * a), Cmd(Whole)>>
           B == <<Push(2 * a), Cmd(Whole)>>
           C == <<Cmd(Whole)>>
<1>1. P \in Seq(Accesses) /\ W \in Seq(Accesses)
  <2>1. \A i \in 1..Len(buf) : Push(buf[i]) \in Accesses
    BY AreAccesses
  <2> QED BY <2>1, AreAccesses
<1>2. Clear \in Accesses /\ Push(2 * a) \in Accesses /\ Cmd(Whole) \in Accesses
  BY AreAccesses
<1>3. A \in Seq(Accesses) /\ A # <<>> /\ Head(A) = Clear /\ Tail(A) = B
  BY <1>2, Tuples
<1>3a. B \in Seq(Accesses) /\ B # <<>> /\ Head(B) = Push(2 * a) /\ Tail(B) = C
  BY <1>2, Tuples
<1>3b. C \in Seq(Accesses) /\ C # <<>> /\ Head(C) = Cmd(Whole) /\ Tail(C) = <<>>
  BY <1>2, Tuples
<1>4. i2c_write(a, buf) = (A \o P) \o W
  BY DEF i2c_write, Whole
<1>5. WriteTail(P \o W) /\ Len(P \o W) = Len(buf) + 2 /\ \A i \in 1..Len(buf) : (P \o W)[i].b = buf[i]
  BY WriteTailIs
<1> HIDE DEF A, B, C, P, W
<1>5a. ASSUME NEW s \in Seq(Accesses), s # <<>>
       PROVE  /\ (s \o P) \o W \in Seq(Accesses) /\ (s \o P) \o W # <<>> /\ Head((s \o P) \o W) = Head(s)
              /\ Tail((s \o P) \o W) = (Tail(s) \o P) \o W
  <2>1. P \in Seq(Accesses) /\ W \in Seq(Accesses)
    BY <1>1
  <2> QED BY <1>5a, <2>1, PeelThree
<1> DEFINE a0 == (A \o P) \o W
           b0 == (B \o P) \o W
           c0 == (C \o P) \o W
<1>6. a0 \in Seq(Accesses) /\ At(a0, Clear) /\ Tail(a0) = b0
  BY <1>3, <1>5a DEF At
<1>7. b0 # <<>> /\ Head(b0) = Push(2 * a) /\ Tail(b0) = c0
  BY <1>3a, <1>5a
<1>8. (<<>> \o P) \o W = P \o W
  BY <1>1, NothingFirst
<1>9. At(c0, Cmd(Whole)) /\ Tail(c0) = P \o W /\ c0 \in Seq(Accesses)
  BY <1>3b, <1>5a, <1>8 DEF At
<1> DEFINE t0 == P \o W
<1> HIDE DEF a0, b0, c0, t0
<1>10. AtStart(Whole, c0) /\ Behind(Whole, c0) = Len(buf)
  <2>1. Len(buf) \in Nat /\ Tail(c0) = t0 /\ WriteTail(t0) /\ Len(t0) = Len(buf) + 2
    BY <1>5, <1>9 DEF t0
  <2> QED BY <2>1, <1>9, WriteStarts
<1>12. FitsCall(x, 2 * a, 1, Whole, c0)
  <2>1. (2 * a) % 2 # 1
    OBVIOUS
  <2> QED BY <1>10, <2>1, I2cAssumption DEF FitsCall, MayRefuse, Heeds
<1>11. ASSUME f # <<>>
       PROVE  f[1] = START /\ f[2] = 2 * a /\ StartAt(f, d, Whole, c0, 2)
  <2> DEFINE h == <<START, 2 * a>>
  <2>1. h \in Seq(Nat) /\ Len(h) = 2 /\ h[1] = START /\ h[2] = 2 * a
    BY DEF START
  <2>2. f = h \o buf \o <<STOP>>
    BY <1>11 DEF WriteFrame
  <2> HIDE DEF h
  <2>3. /\ Len(f) = 2 + Len(buf) + 1 /\ f[Len(f)] = STOP /\ f[1] = START /\ f[2] = 2 * a
        /\ \A i \in 1..Len(buf) : f[2 + i] = buf[i]
    <3>1. h \in Seq(Nat)
      BY <2>1
    <3>2. /\ Len(f) = Len(h) + Len(buf) + 1 /\ f[Len(f)] = STOP
          /\ \A i \in 1..Len(h) : f[i] = h[i]
          /\ \A i \in 1..Len(buf) : f[Len(h) + i] = buf[i]
      BY <3>1, <2>2, FrameParts
    <3> QED BY <2>1, <3>2
  <2>4. PushesAt(f, t0, 2)
    BY <1>5, <2>3, PushesStand DEF t0
  <2> QED BY <1>9, <2>3, <2>4 DEF StartAt, t0
<1>13. Begins(b0, x, f, d)
  BY <1>7, <1>10, <1>11, <1>12, ByteThenStart
<1> QED BY <1>4, <1>6, <1>13 DEF a0

LEMMA OpenStarts ==
  ASSUME NEW s, NEW t, NEW u, NEW v, At(s, Cmd(Open)), Tail(s) = t, At(t, WaitIdle), Tail(t) = u,
         At(u, Check), Tail(u) = v, AfterAddress(v)
  PROVE  AtStart(Open, s) /\ Behind(Open, s) = 0
<1>1. At(Tail(s), WaitIdle) /\ At(Tail(Tail(s)), Check) /\ AfterAddress(Tail(Tail(Tail(s))))
  OBVIOUS
<1>2. Open # Whole
  BY CommandBits
<1> QED BY <1>1, <1>2 DEF AtStart, Behind

LEMMA RestartsThen ==
  ASSUME NEW s, NEW b, NEW t, NEW u, NEW v, NEW w, At(s, Push(b)), Tail(s) = t, At(t, Cmd(Open)), Tail(t) = u,
         At(u, WaitIdle), Tail(u) = v, At(v, Check), Tail(v) = w, Rest(w)
  PROVE  AfterAddress(s)
<1>1. AtPush(s)
  BY Kind DEF At, AtPush
<1>2. At(Tail(s), Cmd(Open)) /\ At(Tail(Tail(s)), WaitIdle) /\ At(Tail(Tail(Tail(s))), Check)
      /\ Rest(Tail(Tail(Tail(Tail(s)))))
  OBVIOUS
<1> QED BY <1>1, <1>2 DEF AfterAddress, AfterWait

LEMMA ReadBegins ==
  ASSUME NEW a \in Nat, NEW n \in Nat \ {0}, NEW x, NEW f, NEW d \in Seq(Nat),
         f # <<>> => f = <<START, 2 * a + 1>> \o d \o <<STOP>> /\ n = Len(d) /\ d # <<>>
  PROVE  /\ i2c_read(a, n) \in Seq(Accesses) /\ At(i2c_read(a, n), Clear)
         /\ Begins(Tail(i2c_read(a, n)), x, f, d)
<1> DEFINE R == ReadBytes(n)
           W == <<Check>>
           A == <<Clear, Push(2 * a + 1), Cmd(Open), WaitIdle, Check>>
           B == <<Push(2 * a + 1), Cmd(Open), WaitIdle, Check>>
           C == <<Cmd(Open), WaitIdle, Check>>
           D == <<WaitIdle, Check>>
           E == <<Check>>
<1>1. R \in Seq(Accesses) /\ Rest(R \o W) /\ ReadTail(R \o W) /\ Len(R \o W) = 3 * n + 1
  BY RestIs
<1>2. W \in Seq(Accesses)
  BY AreAccesses
<1>3. Clear \in Accesses /\ Push(2 * a + 1) \in Accesses /\ Cmd(Open) \in Accesses /\ WaitIdle \in Accesses /\ Check \in Accesses
  BY AreAccesses
<1>4A. A \in Seq(Accesses) /\ A # <<>> /\ Head(A) = Clear /\ Tail(A) = B
  BY <1>3, Tuples
<1>4B. B \in Seq(Accesses) /\ B # <<>> /\ Head(B) = Push(2 * a + 1) /\ Tail(B) = C
  BY <1>3, Tuples
<1>4C. C \in Seq(Accesses) /\ C # <<>> /\ Head(C) = Cmd(Open) /\ Tail(C) = D
  BY <1>3, Tuples
<1>4D. D \in Seq(Accesses) /\ D # <<>> /\ Head(D) = WaitIdle /\ Tail(D) = E
  BY <1>3, Tuples
<1>4E. E \in Seq(Accesses) /\ E # <<>> /\ Head(E) = Check /\ Tail(E) = <<>>
  BY <1>3, Tuples
<1>5. i2c_read(a, n) = (A \o R) \o W
  BY DEF i2c_read, Open
<1> HIDE DEF R, W, A, B, C, D, E
<1>6. ASSUME NEW s \in Seq(Accesses), s # <<>>
      PROVE  /\ (s \o R) \o W \in Seq(Accesses) /\ (s \o R) \o W # <<>> /\ Head((s \o R) \o W) = Head(s)
             /\ Tail((s \o R) \o W) = (Tail(s) \o R) \o W
  <2>1. R \in Seq(Accesses)
    BY <1>1
  <2>2. s # <<>>
    BY <1>6
  <2> QED BY <2>1, <2>2, <1>2, PeelThree
<1>7. (<<>> \o R) \o W = R \o W
  BY <1>1, NothingFirst
<1> DEFINE a0 == (A \o R) \o W
           b0 == (B \o R) \o W
           c0 == (C \o R) \o W
           d0 == (D \o R) \o W
           e0 == (E \o R) \o W
           z0 == R \o W
<1>8A. At(a0, Clear) /\ Tail(a0) = b0 /\ a0 \in Seq(Accesses)
  BY <1>4A, <1>6 DEF At
<1>8B. At(b0, Push(2 * a + 1)) /\ Tail(b0) = c0
  BY <1>4B, <1>6 DEF At
<1>8C. At(c0, Cmd(Open)) /\ Tail(c0) = d0
  BY <1>4C, <1>6 DEF At
<1>8D. At(d0, WaitIdle) /\ Tail(d0) = e0
  BY <1>4D, <1>6 DEF At
<1>8E. At(e0, Check) /\ Tail(e0) = z0
  BY <1>4E, <1>6, <1>7 DEF At
<1>9. Rest(z0) /\ ReadTail(z0) /\ Len(z0) = 3 * n + 1
  BY <1>1
<1> HIDE DEF a0, b0, c0, d0, e0, z0
<1>10. AtStart(Open, c0) /\ Behind(Open, c0) = 0
  BY <1>8C, <1>8D, <1>8E, <1>9, OpenStarts DEF AfterAddress
<1>11. b0 # <<>> /\ Head(b0) = Push(2 * a + 1) /\ FitsCall(x, 2 * a + 1, 1, Open, c0)
  <2>1. Tail(Tail(Tail(c0))) = z0
    BY <1>8C, <1>8D, <1>8E
  <2> QED BY <1>8B, <1>9, <1>10, <2>1 DEF At, FitsCall
<1>13. ASSUME f # <<>>
       PROVE  f[1] = START /\ f[2] = 2 * a + 1 /\ StartAt(f, d, Open, c0, 2)
  <2> DEFINE h == <<START, 2 * a + 1>>
  <2>1. h \in Seq(Nat) /\ Len(h) = 2 /\ h[1] = START /\ h[2] = 2 * a + 1
    BY DEF START
  <2>2. f = h \o d \o <<STOP>> /\ n = Len(d) /\ d # <<>>
    BY <1>13
  <2> HIDE DEF h
  <2>3. /\ Len(f) = 2 + Len(d) + 1 /\ f[Len(f)] = STOP /\ f[1] = START /\ f[2] = 2 * a + 1
        /\ \A i \in 1..Len(d) : f[2 + i] = d[i]
    BY <2>1, <2>2, FrameParts
  <2>4. ReadsAt(f, d, z0, 2)
    BY <1>9, <2>2, <2>3 DEF ReadsAt, DataAt
  <2>5. Tail(Tail(Tail(c0))) = z0
    BY <1>8C, <1>8D, <1>8E
  <2> QED BY <2>2, <2>3, <2>4, <2>5 DEF StartAt, AddressAt
<1>12. Begins(b0, x, f, d)
  BY <1>8B, <1>10, <1>11, <1>13, ByteThenStart
<1> QED BY <1>5, <1>8A, <1>12 DEF a0

LEMMA ReadRegsBegins ==
  ASSUME NEW a \in Nat, NEW r \in Nat, NEW n \in Nat \ {0}, NEW x, NEW f, NEW d \in Seq(Nat),
         f # <<>> => f = ReadFrame(a, r, d) /\ n = Len(d) /\ d # <<>>
  PROVE  /\ i2c_read_regs(a, r, n) \in Seq(Accesses) /\ At(i2c_read_regs(a, r, n), Clear)
         /\ Begins(Tail(i2c_read_regs(a, r, n)), x, f, d)
<1> DEFINE R == ReadBytes(n)
           W == <<Check>>
           A == <<Clear, Push(2 * a), Push(r), Cmd(Open), WaitIdle, Check, Push(2 * a + 1), Cmd(Open), WaitIdle, Check>>
           B == <<Push(2 * a), Push(r), Cmd(Open), WaitIdle, Check, Push(2 * a + 1), Cmd(Open), WaitIdle, Check>>
           C == <<Push(r), Cmd(Open), WaitIdle, Check, Push(2 * a + 1), Cmd(Open), WaitIdle, Check>>
           D == <<Cmd(Open), WaitIdle, Check, Push(2 * a + 1), Cmd(Open), WaitIdle, Check>>
           E == <<WaitIdle, Check, Push(2 * a + 1), Cmd(Open), WaitIdle, Check>>
           F == <<Check, Push(2 * a + 1), Cmd(Open), WaitIdle, Check>>
           G == <<Push(2 * a + 1), Cmd(Open), WaitIdle, Check>>
           H == <<Cmd(Open), WaitIdle, Check>>
           I == <<WaitIdle, Check>>
           J == <<Check>>
<1>1. R \in Seq(Accesses) /\ Rest(R \o W) /\ ReadTail(R \o W) /\ Len(R \o W) = 3 * n + 1
  BY RestIs
<1>2. W \in Seq(Accesses)
  BY AreAccesses
<1>3. /\ Clear \in Accesses /\ Push(2 * a) \in Accesses /\ Push(r) \in Accesses /\ Cmd(Open) \in Accesses
      /\ WaitIdle \in Accesses /\ Check \in Accesses /\ Push(2 * a + 1) \in Accesses
  BY AreAccesses
<1>4A. A \in Seq(Accesses) /\ A # <<>> /\ Head(A) = Clear /\ Tail(A) = B
  BY <1>3, LongTuples
<1>4B. B \in Seq(Accesses) /\ B # <<>> /\ Head(B) = Push(2 * a) /\ Tail(B) = C
  BY <1>3, LongTuples
<1>4C. C \in Seq(Accesses) /\ C # <<>> /\ Head(C) = Push(r) /\ Tail(C) = D
  BY <1>3, LongTuples
<1>4D. D \in Seq(Accesses) /\ D # <<>> /\ Head(D) = Cmd(Open) /\ Tail(D) = E
  BY <1>3, LongTuples
<1>4E. E \in Seq(Accesses) /\ E # <<>> /\ Head(E) = WaitIdle /\ Tail(E) = F
  BY <1>3, LongTuples
<1>4F. F \in Seq(Accesses) /\ F # <<>> /\ Head(F) = Check /\ Tail(F) = G
  BY <1>3, Tuples
<1>4G. G \in Seq(Accesses) /\ G # <<>> /\ Head(G) = Push(2 * a + 1) /\ Tail(G) = H
  BY <1>3, Tuples
<1>4H. H \in Seq(Accesses) /\ H # <<>> /\ Head(H) = Cmd(Open) /\ Tail(H) = I
  BY <1>3, Tuples
<1>4I. I \in Seq(Accesses) /\ I # <<>> /\ Head(I) = WaitIdle /\ Tail(I) = J
  BY <1>3, Tuples
<1>4J. J \in Seq(Accesses) /\ J # <<>> /\ Head(J) = Check /\ Tail(J) = <<>>
  BY <1>3, Tuples
<1>5. i2c_read_regs(a, r, n) = (A \o R) \o W
  BY DEF i2c_read_regs, Open
<1> HIDE DEF R, W, A, B, C, D, E, F, G, H, I, J
<1>6. ASSUME NEW s \in Seq(Accesses), s # <<>>
      PROVE  /\ (s \o R) \o W \in Seq(Accesses) /\ (s \o R) \o W # <<>> /\ Head((s \o R) \o W) = Head(s)
             /\ Tail((s \o R) \o W) = (Tail(s) \o R) \o W
  <2>1. R \in Seq(Accesses)
    BY <1>1
  <2>2. s # <<>>
    BY <1>6
  <2> QED BY <2>1, <2>2, <1>2, PeelThree
<1>7. (<<>> \o R) \o W = R \o W
  BY <1>1, NothingFirst
<1> DEFINE a0 == (A \o R) \o W
           b0 == (B \o R) \o W
           c0 == (C \o R) \o W
           d0 == (D \o R) \o W
           e0 == (E \o R) \o W
           f0 == (F \o R) \o W
           g0 == (G \o R) \o W
           h0 == (H \o R) \o W
           i0 == (I \o R) \o W
           j0 == (J \o R) \o W
           z0 == R \o W
<1>8A. At(a0, Clear) /\ Tail(a0) = b0 /\ a0 \in Seq(Accesses)
  BY <1>4A, <1>6 DEF At
<1>8B. At(b0, Push(2 * a)) /\ Tail(b0) = c0
  BY <1>4B, <1>6 DEF At
<1>8C. At(c0, Push(r)) /\ Tail(c0) = d0
  BY <1>4C, <1>6 DEF At
<1>8D. At(d0, Cmd(Open)) /\ Tail(d0) = e0
  BY <1>4D, <1>6 DEF At
<1>8E. At(e0, WaitIdle) /\ Tail(e0) = f0
  BY <1>4E, <1>6 DEF At
<1>8F. At(f0, Check) /\ Tail(f0) = g0
  BY <1>4F, <1>6 DEF At
<1>8G. At(g0, Push(2 * a + 1)) /\ Tail(g0) = h0
  BY <1>4G, <1>6 DEF At
<1>8H. At(h0, Cmd(Open)) /\ Tail(h0) = i0
  BY <1>4H, <1>6 DEF At
<1>8I. At(i0, WaitIdle) /\ Tail(i0) = j0
  BY <1>4I, <1>6 DEF At
<1>8J. At(j0, Check) /\ Tail(j0) = z0
  BY <1>4J, <1>6, <1>7 DEF At
<1>9. Rest(z0) /\ ReadTail(z0) /\ Len(z0) = 3 * n + 1
  BY <1>1
<1> HIDE DEF a0, b0, c0, d0, e0, f0, g0, h0, i0, j0, z0
<1>10. AfterAddress(g0)
  BY <1>8G, <1>8H, <1>8I, <1>8J, <1>9, RestartsThen
<1>11. AtStart(Open, d0) /\ Behind(Open, d0) = 0
  BY <1>8D, <1>8E, <1>8F, <1>10, OpenStarts
<1>13. b0 # <<>> /\ Head(b0) = Push(2 * a) /\ c0 # <<>> /\ Head(c0) = Push(r)
  BY <1>8B, <1>8C DEF At
<1>14. FitsCall(x, 2 * a, 2, Open, d0)
  <2>1. (2 * a) % 2 # 1
    OBVIOUS
  <2> QED BY <1>11, <2>1 DEF FitsCall
<1>15. ASSUME f # <<>>
       PROVE  f[1] = START /\ f[2] = 2 * a /\ f[3] = r /\ StartAt(f, d, Open, d0, 3)
  <2> DEFINE h == <<START, 2 * a, r, START, 2 * a + 1>>
  <2>1. h \in Seq(Nat) /\ Len(h) = 5 /\ h[1] = START /\ h[2] = 2 * a /\ h[3] = r /\ h[4] = START /\ h[5] = 2 * a + 1
    BY DEF START
  <2>2. f = h \o d \o <<STOP>> /\ n = Len(d) /\ d # <<>>
    BY <1>15 DEF ReadFrame
  <2> HIDE DEF h
  <2>3. /\ Len(f) = 5 + Len(d) + 1 /\ f[Len(f)] = STOP
        /\ f[1] = START /\ f[2] = 2 * a /\ f[3] = r /\ f[4] = START /\ f[5] = 2 * a + 1
        /\ \A i \in 1..Len(d) : f[5 + i] = d[i]
    <3>1. h \in Seq(Nat)
      BY <2>1
    <3>2. /\ Len(f) = Len(h) + Len(d) + 1 /\ f[Len(f)] = STOP
          /\ \A i \in 1..Len(h) : f[i] = h[i]
          /\ \A i \in 1..Len(d) : f[Len(h) + i] = d[i]
      BY <3>1, <2>2, FrameParts
    <3> QED BY <2>1, <3>2
  <2>4. ReadsAt(f, d, z0, 5)
    <3>1. DataAt(f, d, 5)
      BY <2>3 DEF DataAt
    <3>2. Len(d) # 0 /\ Len(d) \in Nat
      BY <2>2, Empty
    <3>3. ReadTail(z0) /\ Len(z0) = 3 * Len(d) + 1
      BY <1>9, <2>2, <3>2
    <3> QED BY <3>1, <3>3 DEF ReadsAt
  <2>5. Tail(Tail(Tail(d0))) = g0 /\ Tail(Tail(Tail(Tail(g0)))) = z0
    BY <1>8D, <1>8E, <1>8F, <1>8G, <1>8H, <1>8I, <1>8J
  <2>6. AtPush(g0) /\ Head(g0).b = 2 * a + 1
    BY <1>8G, Kind DEF At, AtPush
  <2>7. AddressAt(f, d, g0, 3)
    <3>1. f[3 + 1] = START /\ Head(g0).b = f[3 + 2]
      BY <2>3, <2>6
    <3>2. ReadsAt(f, d, Tail(Tail(Tail(Tail(g0)))), 3 + 2)
      <4>1. 3 + 2 = 5
        OBVIOUS
      <4> QED BY <2>4, <2>5, <4>1, Zenon
    <3> QED BY <2>2, <2>6, <3>1, <3>2 DEF AddressAt
  <2> QED BY <2>3, <2>5, <2>7 DEF StartAt
<1>12. Begins(b0, x, f, d)
  BY <1>8B, <1>8C, <1>11, <1>13, <1>14, <1>15, BytesThenStart
<1> QED BY <1>5, <1>8A, <1>12 DEF a0

LEMMA WriteRegsBegins ==
  ASSUME NEW a \in Nat, NEW r \in Nat, NEW buf \in Seq(Nat), NEW x, MayRefuse(a, x) => Len(buf) < FIFO_DEPTH,
         NEW f, NEW d, f # <<>> => f = WriteFrame(a, <<r>> \o buf)
  PROVE  /\ i2c_write_regs(a, r, buf) \in Seq(Accesses) /\ At(i2c_write_regs(a, r, buf), Clear)
         /\ Begins(Tail(i2c_write_regs(a, r, buf)), x, f, d)
<1> DEFINE P == [i \in 1..Len(buf) |-> Push(buf[i])]
           W == <<WaitIdle, Check>>
           A == <<Clear, Push(2 * a), Push(r), Cmd(Whole)>>
           B == <<Push(2 * a), Push(r), Cmd(Whole)>>
           C == <<Push(r), Cmd(Whole)>>
           D == <<Cmd(Whole)>>
<1>1. P \in Seq(Accesses) /\ W \in Seq(Accesses)
  <2>1. \A i \in 1..Len(buf) : Push(buf[i]) \in Accesses
    BY AreAccesses
  <2> QED BY <2>1, AreAccesses
<1>2. Clear \in Accesses /\ Push(2 * a) \in Accesses /\ Push(r) \in Accesses /\ Cmd(Whole) \in Accesses
  BY AreAccesses
<1>3A. A \in Seq(Accesses) /\ A # <<>> /\ Head(A) = Clear /\ Tail(A) = B
  BY <1>2, Tuples
<1>3B. B \in Seq(Accesses) /\ B # <<>> /\ Head(B) = Push(2 * a) /\ Tail(B) = C
  BY <1>2, Tuples
<1>3C. C \in Seq(Accesses) /\ C # <<>> /\ Head(C) = Push(r) /\ Tail(C) = D
  BY <1>2, Tuples
<1>3D. D \in Seq(Accesses) /\ D # <<>> /\ Head(D) = Cmd(Whole) /\ Tail(D) = <<>>
  BY <1>2, Tuples
<1>4. i2c_write_regs(a, r, buf) = (A \o P) \o W
  BY DEF i2c_write_regs, Whole
<1>5. WriteTail(P \o W) /\ Len(P \o W) = Len(buf) + 2 /\ \A i \in 1..Len(buf) : (P \o W)[i].b = buf[i]
  BY WriteTailIs
<1> HIDE DEF A, B, C, D, P, W
<1>6. ASSUME NEW s \in Seq(Accesses), s # <<>>
      PROVE  /\ (s \o P) \o W \in Seq(Accesses) /\ (s \o P) \o W # <<>> /\ Head((s \o P) \o W) = Head(s)
             /\ Tail((s \o P) \o W) = (Tail(s) \o P) \o W
  BY <1>6, <1>1, PeelThree
<1>7. (<<>> \o P) \o W = P \o W
  BY <1>1, NothingFirst
<1> DEFINE a0 == (A \o P) \o W
           b0 == (B \o P) \o W
           c0 == (C \o P) \o W
           d0 == (D \o P) \o W
           t0 == P \o W
<1>8A. a0 \in Seq(Accesses) /\ At(a0, Clear) /\ Tail(a0) = b0
  BY <1>3A, <1>6 DEF At
<1>8B. b0 # <<>> /\ Head(b0) = Push(2 * a) /\ Tail(b0) = c0
  BY <1>3B, <1>6
<1>8C. c0 # <<>> /\ Head(c0) = Push(r) /\ Tail(c0) = d0
  BY <1>3C, <1>6
<1>8D. At(d0, Cmd(Whole)) /\ Tail(d0) = t0 /\ d0 \in Seq(Accesses)
  BY <1>3D, <1>6, <1>7 DEF At
<1> HIDE DEF a0, b0, c0, d0, t0
<1>9. AtStart(Whole, d0) /\ Behind(Whole, d0) = Len(buf)
  <2>1. Len(buf) \in Nat /\ WriteTail(t0) /\ Len(t0) = Len(buf) + 2
    BY <1>5 DEF t0
  <2> QED BY <2>1, <1>8D, WriteStarts
<1>10. FitsCall(x, 2 * a, 2, Whole, d0)
  <2>1. (2 * a) % 2 # 1
    OBVIOUS
  <2> QED BY <1>9, <2>1, I2cAssumption DEF FitsCall, MayRefuse, Heeds
<1>12. ASSUME f # <<>>
       PROVE  f[1] = START /\ f[2] = 2 * a /\ f[3] = r /\ StartAt(f, d, Whole, d0, 3)
  <2> DEFINE h == <<START, 2 * a>>
             e == <<r>>
             g == e \o buf
  <2>1. h \in Seq(Nat) /\ Len(h) = 2 /\ h[1] = START /\ h[2] = 2 * a /\ e \in Seq(Nat) /\ Len(e) = 1 /\ e[1] = r
    BY DEF START
  <2>2. f = h \o g \o <<STOP>>
    BY <1>12 DEF WriteFrame
  <2> HIDE DEF h, e
  <2>3. /\ g \in Seq(Nat) /\ Len(g) = Len(e) + Len(buf)
        /\ \A i \in 1..Len(e) : g[i] = e[i]
        /\ \A i \in 1..Len(buf) : g[Len(e) + i] = buf[i]
    <3>1. e \in Seq(Nat)
      BY <2>1
    <3> QED BY <3>1, Join
  <2> HIDE DEF g
  <2>4. /\ Len(f) = Len(h) + Len(g) + 1 /\ f[Len(f)] = STOP
        /\ \A i \in 1..Len(h) : f[i] = h[i]
        /\ \A i \in 1..Len(g) : f[Len(h) + i] = g[i]
    <3>1. h \in Seq(Nat) /\ g \in Seq(Nat)
      BY <2>1, <2>3
    <3> QED BY <3>1, <2>2, FrameParts
  <2>5. Len(buf) \in Nat
    OBVIOUS
  <2>6. f[1] = START /\ f[2] = 2 * a /\ f[2 + 1] = r /\ Len(f) = 3 + Len(buf) + 1
    BY <2>1, <2>3, <2>4, <2>5
  <2>7. ASSUME NEW i \in 1..Len(buf) PROVE f[3 + i] = buf[i]
    <3>1. 1 + i \in 1..Len(g) /\ g[1 + i] = buf[i]
      BY <2>1, <2>3, <2>5
    <3>2. f[2 + (1 + i)] = g[1 + i] /\ 2 + (1 + i) = 3 + i
      BY <2>1, <2>4, <3>1
    <3> QED BY <3>1, <3>2
  <2>8. PushesAt(f, t0, 3)
    <3>1. WriteTail(t0) /\ Len(t0) = Len(buf) + 2 /\ \A i \in 1..Len(buf) : t0[i].b = buf[i]
      BY <1>5 DEF t0
    <3>2. f[Len(f)] = STOP /\ Len(f) = 3 + Len(buf) + 1 /\ \A i \in 1..Len(buf) : f[3 + i] = buf[i]
      BY <2>4, <2>6, <2>7
    <3>3. Len(t0) - 2 = Len(buf) /\ Len(t0) >= 2 /\ Len(f) = 3 + Len(t0) - 1
      BY <2>5, <3>1, <3>2
    <3>4. \A i \in 1..Len(t0) - 2 : t0[i].b = f[3 + i]
      BY <3>1, <3>2, <3>3
    <3> QED BY <3>1, <3>2, <3>3, <3>4 DEF PushesAt
  <2>9. Tail(d0) = t0
    BY <1>8D
  <2>10. StartAt(f, d, Whole, d0, 3)
    BY <2>8, <2>9, Zenon DEF StartAt
  <2>11. f[3] = r
    BY <2>6
  <2> QED BY <2>6, <2>10, <2>11
<1>11. Begins(b0, x, f, d)
  BY <1>8B, <1>8C, <1>9, <1>10, <1>12, BytesThenStart
<1> QED BY <1>4, <1>8A, <1>11 DEF a0

LEMMA CallBegins ==
  ASSUME NEW c, IsCall(c)
  PROVE  c.ops \in Seq(Accesses) /\ At(c.ops, Clear) /\ Begins(Tail(c.ops), c.x, <<>>, <<>>)
<1> PICK a \in Nat :
    \/ \E buf \in Seq(Nat) : c.ops = i2c_write(a, buf) /\ (MayRefuse(a, c.x) => Len(buf) <= FIFO_DEPTH)
    \/ \E r \in Nat, buf \in Seq(Nat) :
         c.ops = i2c_write_regs(a, r, buf) /\ (MayRefuse(a, c.x) => Len(buf) < FIFO_DEPTH)
    \/ \E n \in Nat \ {0} : c.ops = i2c_read(a, n)
    \/ \E r \in Nat, n \in Nat \ {0} : c.ops = i2c_read_regs(a, r, n)
  BY DEF IsCall
<1>1. ASSUME NEW buf \in Seq(Nat), c.ops = i2c_write(a, buf), MayRefuse(a, c.x) => Len(buf) <= FIFO_DEPTH
      PROVE  c.ops \in Seq(Accesses) /\ At(c.ops, Clear) /\ Begins(Tail(c.ops), c.x, <<>>, <<>>)
  BY <1>1, WriteBegins
<1>2. ASSUME NEW r \in Nat, NEW buf \in Seq(Nat), c.ops = i2c_write_regs(a, r, buf),
             MayRefuse(a, c.x) => Len(buf) < FIFO_DEPTH
      PROVE  c.ops \in Seq(Accesses) /\ At(c.ops, Clear) /\ Begins(Tail(c.ops), c.x, <<>>, <<>>)
  BY <1>2, WriteRegsBegins
<1>3. ASSUME NEW n \in Nat \ {0}, c.ops = i2c_read(a, n)
      PROVE  c.ops \in Seq(Accesses) /\ At(c.ops, Clear) /\ Begins(Tail(c.ops), c.x, <<>>, <<>>)
  <2>1. <<>> \in Seq(Nat)
    OBVIOUS
  <2> QED BY <1>3, <2>1, ReadBegins
<1>4. ASSUME NEW r \in Nat, NEW n \in Nat \ {0}, c.ops = i2c_read_regs(a, r, n)
      PROVE  c.ops \in Seq(Accesses) /\ At(c.ops, Clear) /\ Begins(Tail(c.ops), c.x, <<>>, <<>>)
  <2>1. <<>> \in Seq(Nat)
    OBVIOUS
  <2> QED BY <1>4, <2>1, ReadRegsBegins
<1> QED BY <1>1, <1>2, <1>3, <1>4

LEMMA CallFields ==
  \A o, x, d, f : LET c == Call(o, x, d, f) IN c.ops = o /\ c.x = x /\ c.data = d /\ c.frame = f
BY DEF Call

\* A call with a frame begins it.
LEMMA FramedBegins ==
  ASSUME NEW c, IsFramed(c)
  PROVE  /\ Begins(Tail(c.ops), c.x, c.frame, c.data) /\ At(c.ops, Clear)
         /\ c.frame \in Seq(Nat) /\ c.data \in Seq(Nat) /\ c.frame # <<>>
<1> PICK a \in Nat, buf \in Seq(Nat) :
    \/ c = CallWrite(a, buf, c.x) /\ (MayRefuse(a, c.x) => Len(buf) <= FIFO_DEPTH)
    \/ \E r \in Nat : c = CallWriteRegs(a, r, buf, c.x) /\ (MayRefuse(a, c.x) => Len(buf) < FIFO_DEPTH)
    \/ c = CallRead(a, buf, c.x) /\ buf # <<>>
    \/ \E r \in Nat : c = CallReadRegs(a, r, buf, c.x) /\ buf # <<>>
  BY DEF IsFramed
<1>0. ASSUME NEW h \in Seq(Nat), NEW b \in Seq(Nat), NEW f, f = h \o b \o <<STOP>>
      PROVE  f \in Seq(Nat) /\ f # <<>>
  <2>1. f \in Seq(Nat) /\ Len(f) = Len(h) + Len(b) + 1
    BY <1>0, FrameParts
  <2> QED BY <2>1
<1>1. CASE c = CallWrite(a, buf, c.x) /\ (MayRefuse(a, c.x) => Len(buf) <= FIFO_DEPTH)
  <2>1. c.ops = i2c_write(a, buf) /\ c.data = <<>> /\ c.frame = WriteFrame(a, buf)
    BY <1>1, CallFields DEF CallWrite
  <2>2. <<START, 2 * a>> \in Seq(Nat)
    BY DEF START
  <2>3. c.frame \in Seq(Nat) /\ c.frame # <<>>
    BY <1>0, <2>1, <2>2 DEF WriteFrame
  <2>4. At(i2c_write(a, buf), Clear) /\ Begins(Tail(i2c_write(a, buf)), c.x, c.frame, c.data)
    BY <1>1, <2>1, WriteBegins
  <2>5. <<>> \in Seq(Nat)
    OBVIOUS
  <2> QED BY <2>1, <2>3, <2>4, <2>5
<1>2. ASSUME NEW r \in Nat, c = CallWriteRegs(a, r, buf, c.x), MayRefuse(a, c.x) => Len(buf) < FIFO_DEPTH
      PROVE  /\ Begins(Tail(c.ops), c.x, c.frame, c.data) /\ At(c.ops, Clear)
             /\ c.frame \in Seq(Nat) /\ c.data \in Seq(Nat) /\ c.frame # <<>>
  <2>1. c.ops = i2c_write_regs(a, r, buf) /\ c.data = <<>> /\ c.frame = WriteFrame(a, <<r>> \o buf)
    BY <1>2, CallFields DEF CallWriteRegs
  <2>2. <<START, 2 * a>> \in Seq(Nat) /\ <<r>> \o buf \in Seq(Nat)
    BY DEF START
  <2>3. c.frame \in Seq(Nat) /\ c.frame # <<>>
    BY <1>0, <2>1, <2>2 DEF WriteFrame
  <2>4. At(i2c_write_regs(a, r, buf), Clear) /\ Begins(Tail(i2c_write_regs(a, r, buf)), c.x, c.frame, c.data)
    BY <1>2, <2>1, WriteRegsBegins
  <2>5. <<>> \in Seq(Nat)
    OBVIOUS
  <2> QED BY <2>1, <2>3, <2>4, <2>5
<1>3. CASE c = CallRead(a, buf, c.x) /\ buf # <<>>
  <2>1. c.ops = i2c_read(a, Len(buf)) /\ c.data = buf /\ c.frame = <<START, 2 * a + 1>> \o buf \o <<STOP>>
    <3> DEFINE fr == <<START, 2 * a + 1>> \o buf \o <<STOP>>
               ops == i2c_read(a, Len(buf))
    <3>1. c = Call(ops, c.x, buf, fr)
      BY <1>3 DEF CallRead
    <3> HIDE DEF fr, ops
    <3>2. c.ops = ops /\ c.data = buf /\ c.frame = fr
      BY <3>1, CallFields
    <3> QED BY <3>2 DEF fr, ops
  <2>2. <<START, 2 * a + 1>> \in Seq(Nat) /\ Len(buf) \in Nat \ {0}
    BY <1>3, Empty DEF START
  <2>3. c.frame \in Seq(Nat) /\ c.frame # <<>>
    BY <1>0, <2>1, <2>2
  <2> QED BY <1>3, <2>1, <2>2, <2>3, ReadBegins
<1>4. ASSUME NEW r \in Nat, c = CallReadRegs(a, r, buf, c.x), buf # <<>>
      PROVE  /\ Begins(Tail(c.ops), c.x, c.frame, c.data) /\ At(c.ops, Clear)
             /\ c.frame \in Seq(Nat) /\ c.data \in Seq(Nat) /\ c.frame # <<>>
  <2>1. c.ops = i2c_read_regs(a, r, Len(buf)) /\ c.data = buf /\ c.frame = ReadFrame(a, r, buf)
    BY <1>4, CallFields DEF CallReadRegs
  <2>2. <<START, 2 * a, r, START, 2 * a + 1>> \in Seq(Nat) /\ Len(buf) \in Nat \ {0}
    BY <1>4, Empty DEF START
  <2>3. c.frame \in Seq(Nat) /\ c.frame # <<>>
    BY <1>0, <2>1, <2>2 DEF ReadFrame
  <2> QED BY <1>4, <2>1, <2>2, <2>3, ReadRegsBegins
<1> QED BY <1>1, <1>2, <1>3, <1>4

(***************************************************************************)
(* Steps.                                                                  *)
(***************************************************************************)
\* The kind of the next access says which step the CPU can take.
LEMMA OneAccess ==
  ASSUME Cpu, code # <<>>
  PROVE  /\ ~(st = "idle" /\ cmd # {})
         /\ \/ Head(code).k = "clear" /\ CpuClear
            \/ Head(code).k = "push" /\ CpuPush
            \/ Head(code).k = "cmd" /\ CpuCmd
            \/ Head(code).k = "wait" /\ CpuWait
            \/ Head(code).k = "pop" /\ CpuPop
            \/ Head(code).k = "check" /\ CpuCheck
            \/ Head(code).k = "expect" /\ CpuExpect
BY DEF Cpu, CpuClear, CpuPush, CpuCmd, CpuWait, CpuPop, CpuCheck, CpuExpect, Return, Step, Now

\* With no command to run the engine is still.
LEMMA EngineRests ==
  ASSUME st = "idle", cmd = {}
  PROVE  ~Engine
BY DEF Engine, Consume, StartDone, ReadByte, ReadAck, StopDone, Done, WriteByte, LoseArbitration, WriteAck

\* What the engine is doing says which step it can take.
LEMMA OneStep ==
  ASSUME Engine, Meets
  PROVE  /\ UNCHANGED cpuVars
         /\ \/ st = "idle" /\ Consume
            \/ /\ st = "start" /\ StartDone /\ slave.mode # "rd"
               /\ slave' = [slave EXCEPT !.mode = "addr", !.first = TRUE, !.bit = 0]
               /\ wire' = Append(wire, START)
            \/ /\ st = "byte"
               /\ \/ ReadByte \/ WriteByte(FALSE)
                  \/ Faulty("busy") /\ WriteByte(TRUE)
                  \/ Faulty("arb") /\ LoseArbitration /\ slave' = slave
            \/ st = "ack" /\ (ReadAck \/ (CpuKeptUp /\ WriteAck))
            \/ /\ st = "stop" /\ StopDone /\ slave.mode # "rd"
               /\ slave' = [slave EXCEPT !.mode = "idle", !.bit = 0]
               /\ wire' = Append(wire, STOP)
            \/ st = "done" /\ Done
<1>1. slave.mode # "rd" => Sda(slave) = 1 /\ ~Contended
  BY DEF Sda, Contended
<1>2. ASSUME StartDone
      PROVE  /\ st = "start" /\ slave.mode # "rd"
             /\ slave' = [slave EXCEPT !.mode = "addr", !.first = TRUE, !.bit = 0]
             /\ wire' = Append(wire, START)
  BY <1>1, <1>2 DEF StartDone, Meets
<1>3. ASSUME StopDone
      PROVE  /\ st = "stop" /\ slave.mode # "rd"
             /\ slave' = [slave EXCEPT !.mode = "idle", !.bit = 0]
             /\ wire' = Append(wire, STOP)
  BY <1>1, <1>3 DEF StopDone, Meets
<1>4. ASSUME LoseArbitration
      PROVE  ~Contended /\ slave' = slave
  BY <1>1, <1>4 DEF LoseArbitration, Meets
<1> QED BY <1>2, <1>3, <1>4 DEF Engine, Consume, ReadByte, ReadAck, Done, WriteByte, LoseArbitration, WriteAck

\* The next byte into the shift register.
LEMMA Loads ==
  ASSUME tx \in Seq(Nat), tx # <<>>, LoadByte, NEW k \in Nat, NEW n \in Nat, Room(k, n), n \in {0, 1}
  PROVE  tx' \in Seq(Nat) /\ (k = 0 \/ Len(tx') + k <= FIFO_DEPTH \/ Answers)
<1>1. tx' = Tail(tx) /\ Len(tx) \in Nat \ {0} /\ Len(tx') = Len(tx) - 1 /\ tx' \in Seq(Nat)
  BY Peel DEF LoadByte
<1> QED BY <1>1, I2cAssumption DEF Room

LEMMA AddressingStep ==
  ASSUME NEW c \in {Whole, Open}, NEW k \in Nat, I2cTypeOK, script # <<>>, Addressing(c, k), Engine, Meets,
         k > 0 => code # <<>> /\ Head(code).k = "push"
  PROVE  Addressing(c, k)'
<1> USE CommandBits
<1>0. UNCHANGED <<script, code>> /\ tx \in Seq(Nat) /\ rx = <<>>
  BY OneStep DEF cpuVars, I2cTypeOK, Addressing
<1>1. CASE st = "idle" /\ cmd = c /\ tx # <<>> /\ NoErr /\ Room(k, 1)
  <2>1. Consume
    BY <1>1, OneStep
  <2>2. st' = "start" /\ op' = c /\ cmd' = {} /\ bus' = TRUE /\ UNCHANGED <<tx, rx, flags, slave>>
    BY <1>1, <2>1 DEF Consume
  <2>3. Room(k, 1)'
    BY <1>0, <1>1, <2>2 DEF Room, Answers
  <2> QED BY <1>0, <1>1, <2>2, <2>3 DEF Addressing, NoErr
<1>2. CASE st = "start" /\ op = c /\ cmd = {} /\ tx # <<>> /\ NoErr /\ bus /\ Room(k, 1)
  <2>1. StartDone /\ slave' = [slave EXCEPT !.mode = "addr", !.first = TRUE, !.bit = 0]
    BY <1>2, OneStep
  <2>2. LoadByte /\ UNCHANGED <<op, bus, cmd, rx, flags>>
    BY <1>2, <2>1 DEF StartDone
  <2>3. slave'.mode = "addr"
    BY <2>1 DEF I2cTypeOK
  <2>4. st' = "byte" /\ cur' = Head(tx)
    BY <2>2 DEF LoadByte
  <2>5. k = 0 \/ Len(tx') + k <= FIFO_DEPTH \/ Answers
    BY <1>0, <1>2, <2>2, Loads
  <2>6. Answers => Answers'
    BY <1>0, <1>2, <2>3, <2>4 DEF Answers
  <2>7. Room(k, 0)'
    <3>1. tx' \in Seq(Nat)
      BY <1>0, <1>2, <2>2, Loads
    <3>2. Len(tx') \in Nat /\ FIFO_DEPTH \in Nat
      BY <3>1, I2cAssumption
    <3> QED BY <2>5, <2>6, <3>2 DEF Room
  <2> QED BY <1>0, <1>2, <2>2, <2>4, <2>7 DEF Addressing, NoErr
<1>3. CASE st = "byte" /\ op = c /\ cmd = {} /\ NoErr /\ bus /\ Room(k, 0)
  <2>1. ASSUME NEW busy \in BOOLEAN, WriteByte(busy), busy => Faulty("busy")
        PROVE  Addressing(c, k)'
    <3>1. st' = "ack" /\ UNCHANGED <<op, cur, bus, cmd, tx, rx>>
      BY <2>1 DEF WriteByte
    <3> DEFINE nack == busy \/ ~SlaveAcks(cur)
    <3>2. byteNack' = nack /\ flags' = (IF nack THEN flags \cup {"nack"} ELSE flags)
      BY <2>1 DEF WriteByte
    <3> HIDE DEF nack
    <3>3. (nack = TRUE \/ nack = FALSE) /\ "arb" \notin flags' /\ ("nack" \in flags' <=> byteNack')
      <4>1. nack \in BOOLEAN
        BY DEF nack
      <4> QED BY <1>3, <3>2, <4>1 DEF NoErr
    <3>4. Answers => Answers'
      <4> SUFFICES ASSUME Answers PROVE Answers'
        OBVIOUS
      <4>1. ~busy
        BY <2>1 DEF Answers, Heeds, Faulty
      <4>2. slave' = SlaveAfter(cur)
        BY <2>1, <4>1 DEF WriteByte
      <4>3. SlaveAcks(cur) /\ slave'.mode = "wr"
        <5>1. CASE slave.mode = "wr"
          BY <5>1, <4>2 DEF SlaveAcks, SlaveAfter, I2cTypeOK
        <5>2. CASE slave.mode = "addr" /\ cur = 2 * SLAVE
          <6>1. cur \div 2 = SLAVE /\ cur % 2 = 0
            BY <5>2, I2cAssumption
          <6> QED BY <5>2, <6>1, <4>2 DEF SlaveAcks, SlaveAfter, I2cTypeOK
        <5> QED BY <5>1, <5>2, <1>3 DEF Answers
      <4>4. ~byteNack'
        BY <3>2, <4>1, <4>3 DEF nack
      <4> QED BY <1>0, <3>1, <4>3, <4>4 DEF Answers
    <3>5. Room(k, 0)'
      BY <1>3, <3>1, <3>4 DEF Room
    <3> QED BY <1>0, <1>3, <3>1, <3>3, <3>5 DEF Addressing
  <2>2. ASSUME Faulty("arb"), LoseArbitration
        PROVE  Addressing(c, k)'
    <3>1. Len(script) = 1
      BY <2>2 DEF Faulty
    <3>2. st' = "done" /\ bus' = FALSE /\ "arb" \in flags' /\ UNCHANGED <<cmd, rx>>
      BY <2>2 DEF LoseArbitration
    <3> QED BY <1>0, <1>3, <3>1, <3>2 DEF Addressing, Over
  <2>3. ~ReadByte
    BY <1>3 DEF ReadByte
  <2> QED BY <1>3, <2>1, <2>2, <2>3, OneStep
<1>4. CASE st = "ack" /\ op = c /\ cmd = {} /\ bus /\ Room(k, 0) /\ "arb" \notin flags /\ ("nack" \in flags <=> byteNack)
  <2>1. CpuKeptUp /\ WriteAck
    BY <1>4, OneStep DEF ReadAck
  <2>2. UNCHANGED <<op, bus, cmd, rx, flags, slave>>
    BY <2>1 DEF WriteAck
  <2>3. k > 0 => Len(tx) = FIFO_DEPTH
    BY <1>4, <2>1 DEF CpuKeptUp, Now, TX_FULL
  <2>4. Len(tx) \in Nat /\ FIFO_DEPTH \in Nat \ {0}
    BY <1>0, I2cAssumption
  <2>5. CASE byteNack /\ tx' = <<>> /\ st' = "stop"
    <3>1. k = 0
      BY <1>4, <2>3, <2>4, <2>5 DEF Room, Answers
    <3> QED BY <1>0, <1>4, <2>2, <2>5, <3>1 DEF Addressing
  <2>6. CASE ~byteNack /\ tx # <<>> /\ LoadByte
    <3>1. st' = "byte"
      BY <2>6 DEF LoadByte
    <3>2. k = 0 \/ Len(tx') + k <= FIFO_DEPTH \/ Answers
      BY <1>0, <1>4, <2>6, Loads
    <3>3. Answers => Answers'
      BY <1>0, <1>4, <2>2, <3>1 DEF Answers
    <3>4. Room(k, 0)'
      <4>1. tx' \in Seq(Nat)
        BY <1>0, <1>4, <2>6, Loads
      <4>2. Len(tx') \in Nat
        BY <4>1
      <4> QED BY <2>4, <3>2, <3>3, <4>2 DEF Room
    <3> QED BY <1>0, <1>4, <2>2, <2>6, <3>1, <3>4 DEF Addressing, NoErr
  <2>7. CASE ~byteNack /\ tx = <<>> /\ st' = (IF "stop" \in op THEN "stop" ELSE "done") /\ UNCHANGED tx
    <3>1. k = 0
      BY <2>3, <2>4, <2>7
    <3>2. CASE c = Whole
      BY <1>0, <1>4, <2>2, <2>7, <3>1, <3>2 DEF Addressing
    <3>3. CASE c = Open
      BY <1>0, <1>4, <2>2, <2>7, <3>1, <3>3 DEF Addressing, Over
    <3> QED BY <3>2, <3>3
  <2> QED BY <2>1, <2>5, <2>6, <2>7 DEF WriteAck
<1>5. CASE st = "stop" /\ cmd = {} /\ k = 0 /\ tx = <<>> /\ bus /\ "arb" \notin flags /\ ("nack" \in flags \/ c = Whole)
  <2>1. st' = "done" /\ bus' = FALSE /\ UNCHANGED <<cmd, tx, rx, flags>>
    BY <1>5, OneStep DEF StopDone
  <2> QED BY <1>0, <1>5, <2>1 DEF Addressing, Over
<1>6. CASE st \in {"done", "idle"} /\ cmd = {} /\ Over(c, k)
  <2>1. st = "done" /\ Done
    BY <1>6, OneStep, EngineRests
  <2>2. st' = "idle" /\ UNCHANGED <<bus, cmd, tx, rx, flags>>
    BY <2>1 DEF Done
  <2> QED BY <1>0, <1>6, <2>2 DEF Addressing, Over
<1> QED BY <1>1, <1>2, <1>3, <1>4, <1>5, <1>6 DEF Addressing

LEMMA ReadingStep ==
  ASSUME NEW c \in {{"read"}, LastRead}, I2cTypeOK, script # <<>>, Reading(c), Engine, Meets
  PROVE  Reading(c)'
<1>0. tx = <<>> /\ NoErr
  BY DEF Reading
<1>1. CASE st = "idle" /\ cmd = c /\ bus /\ rx = <<>>
  <2>1. st' = "byte" /\ op' = c /\ cmd' = {} /\ UNCHANGED <<tx, bus, rx, flags>>
    BY <1>1, CommandBits, OneStep DEF Consume
  <2> QED BY <1>0, <1>1, <2>1 DEF Reading, NoErr
<1>2. CASE st = "byte" /\ op = c /\ cmd = {} /\ bus /\ rx = <<>>
  <2>1. ReadByte
    BY <1>2, CommandBits, OneStep DEF WriteByte, LoseArbitration
  <2>2. Len(rx) = 0 /\ FIFO_DEPTH # 0
    BY <1>2, I2cAssumption
  <2>3. rx' = Append(rx, SlaveDrives) /\ UNCHANGED flags
    BY <2>1, <2>2 DEF ReadByte
  <2>4. rx' # <<>> /\ Tail(rx') = <<>>
    <3>1. rx \in Seq({SlaveDrives})
      BY <1>2
    <3>2. rx' \in Seq({SlaveDrives}) /\ Len(rx') = 1
      BY <2>2, <2>3, <3>1, Queue
    <3>3. Len(Tail(rx')) = 0 /\ Tail(rx') \in Seq({SlaveDrives}) /\ rx' # <<>>
      BY <3>2
    <3> QED BY <3>3, Empty
  <2>5. st' = "ack" /\ UNCHANGED <<op, bus, cmd, tx>>
    BY <2>1 DEF ReadByte
  <2> QED BY <1>0, <1>2, <2>3, <2>4, <2>5 DEF Reading, OneRead, NoErr
<1>3. CASE st = "ack" /\ op = c /\ cmd = {} /\ bus /\ OneRead
  <2>1. ReadAck
    BY <1>3, CommandBits, OneStep DEF WriteAck
  <2>2. UNCHANGED <<bus, tx, rx, flags>>
    BY <2>1 DEF ReadAck
  <2>3. CASE c = LastRead
    <3>1. st' = "stop" /\ cmd' = cmd
      BY <1>3, <2>1, <2>3, CommandBits DEF ReadAck
    <3> QED BY <1>0, <1>3, <2>2, <2>3, <3>1 DEF Reading, OneRead, NoErr
  <2>4. CASE c = {"read"}
    <3>1. st' = "done" /\ cmd' = cmd
      BY <1>3, <2>1, <2>4, CommandBits DEF ReadAck
    <3>2. c # LastRead
      BY <2>4, CommandBits
    <3> QED BY <1>0, <1>3, <2>2, <3>1, <3>2 DEF Reading, OneRead, NoErr
  <2> QED BY <2>3, <2>4
<1>4. CASE st = "stop" /\ c = LastRead /\ cmd = {} /\ bus /\ OneRead
  <2>1. st' = "done" /\ bus' = FALSE /\ UNCHANGED <<cmd, tx, rx, flags>>
    BY <1>4, OneStep DEF StopDone
  <2> QED BY <1>0, <1>4, <2>1 DEF Reading, OneRead, NoErr
<1>5. CASE st \in {"done", "idle"} /\ cmd = {} /\ (bus <=> c # LastRead) /\ OneRead
  <2>1. st' = "idle" /\ UNCHANGED <<bus, cmd, tx, rx, flags>>
    BY <1>5, OneStep, EngineRests DEF Done
  <2> QED BY <1>0, <1>5, <2>1 DEF Reading, OneRead, NoErr
<1> QED BY <1>1, <1>2, <1>3, <1>4, <1>5 DEF Reading

(***************************************************************************)
(* Accesses of the CPU.                                                    *)
(***************************************************************************)
LEMMA CpuKeepsScript ==
  ASSUME Cpu, code # <<>>
  PROVE  UNCHANGED script
BY OneAccess DEF CpuClear, CpuPush, CpuCmd, CpuWait, CpuPop, CpuCheck, CpuExpect, Step

LEMMA BeginningStep ==
  ASSUME I2cTypeOK, script # <<>>, Beginning, Cpu, NEW f, NEW d,
         At(Head(script).ops, Clear), Begins(Tail(Head(script).ops), Head(script).x, f, d)
  PROVE  /\ UNCHANGED <<script, wire, got>> /\ tx' = <<>>
         /\ \E c \in {Whole, Open} :
              /\ Loading(c)'
              /\ \/ /\ LastByte(c)'
                    /\ f # <<>> => f[1] = START /\ f[2] = Head(code').b /\ StartAt(f, d, c, Tail(code'), 2)
                 \/ /\ TwoBytes(c)'
                    /\ f # <<>> => /\ f[1] = START /\ f[2] = Head(code').b /\ f[3] = Head(Tail(code')).b
                                   /\ StartAt(f, d, c, Tail(Tail(code')), 3)
<1>1. code # <<>> /\ Head(code) = Clear /\ Begins(Tail(code), Head(script).x, f, d)
  BY DEF Beginning, At
<1>2. CpuClear
  BY <1>1, OneAccess, Kind
<1>3. /\ code' = Tail(code) /\ flags' = flags \ {"nack", "arb"}
      /\ UNCHANGED <<st, bus, cmd, tx, rx, script, wire, got>>
  BY <1>1, <1>2, Kind DEF CpuClear, Step
<1>4. Quiet' /\ NoErr' /\ tx' = <<>>
  BY <1>3 DEF Beginning, Clean, Quiet, NoErr
<1>5. PICK c \in {Whole, Open} :
        \/ /\ AtPush(code') /\ AtStart(c, Tail(code')) /\ FitsCall(Head(script).x, Head(code').b, 1, c, Tail(code'))
           /\ f # <<>> => f[1] = START /\ f[2] = Head(code').b /\ StartAt(f, d, c, Tail(code'), 2)
        \/ /\ AtPush(code') /\ AtPush(Tail(code')) /\ AtStart(c, Tail(Tail(code')))
           /\ FitsCall(Head(script).x, Head(code').b, 2, c, Tail(Tail(code')))
           /\ f # <<>> => /\ f[1] = START /\ f[2] = Head(code').b /\ f[3] = Head(Tail(code')).b
                          /\ StartAt(f, d, c, Tail(Tail(code')), 3)
  BY <1>1, <1>3, Zenon DEF Begins
<1>6. CASE /\ AtPush(code') /\ AtStart(c, Tail(code')) /\ FitsCall(Head(script).x, Head(code').b, 1, c, Tail(code'))
           /\ f # <<>> => f[1] = START /\ f[2] = Head(code').b /\ StartAt(f, d, c, Tail(code'), 2)
  <2>1. Len(tx') + 1 = 1
    BY <1>4
  <2>2. LastByte(c)'
    BY <1>3, <1>4, <1>6, <2>1 DEF LastByte, Fits
  <2>3. Loading(c)'
    BY <1>4, <2>2 DEF Loading
  <2> QED BY <1>3, <1>4, <1>6, <2>2, <2>3
<1>7. CASE /\ AtPush(code') /\ AtPush(Tail(code')) /\ AtStart(c, Tail(Tail(code')))
           /\ FitsCall(Head(script).x, Head(code').b, 2, c, Tail(Tail(code')))
           /\ f # <<>> => /\ f[1] = START /\ f[2] = Head(code').b /\ f[3] = Head(Tail(code')).b
                          /\ StartAt(f, d, c, Tail(Tail(code')), 3)
  <2>1. TwoBytes(c)'
    BY <1>3, <1>4, <1>7 DEF TwoBytes, Fits
  <2>2. Loading(c)'
    BY <1>4, <2>1 DEF Loading
  <2> QED BY <1>3, <1>4, <1>7, <2>1, <2>2
<1> QED BY <1>5, <1>6, <1>7

\* A byte is queued.
LEMMA Pushes ==
  ASSUME I2cTypeOK, AtPush(code), Cpu
  PROVE  /\ code' = Tail(code) /\ tx' = Append(tx, Head(code).b) /\ Head(code).b \in Nat
         /\ UNCHANGED <<st, op, cur, byteNack, bus, cmd, rx, flags, slave, script, wire, got>>
         /\ tx' \in Seq(Nat) /\ tx' # <<>> /\ Len(tx') = Len(tx) + 1
         /\ Head(tx') = IF tx = <<>> THEN Head(code).b ELSE Head(tx)
<1>1. CpuPush /\ Head(code) \in Accesses
  BY OneAccess, Peel DEF AtPush, I2cTypeOK
<1>2. Head(code).b \in Nat
  BY <1>1, Kinds DEF AtPush
<1>3. code' = Tail(code) /\ tx' = Append(tx, Head(code).b)
      /\ UNCHANGED <<st, op, cur, byteNack, bus, cmd, rx, flags, slave, script, wire, got>>
  BY <1>1 DEF CpuPush, Step
<1> QED BY <1>2, <1>3, Queue DEF I2cTypeOK

LEMMA LoadingStep ==
  ASSUME NEW c \in {Whole, Open}, I2cTypeOK, script # <<>>, Loading(c), Cpu
  PROVE  /\ Queued(c) => IF c = Whole THEN Writing' ELSE Waiting'
         /\ LastByte(c) => Loading(c)' /\ Queued(c)'
         /\ TwoBytes(c) => Loading(c)' /\ LastByte(c)'
<1>0. Quiet /\ NoErr /\ tx \in Seq(Nat) /\ code \in Seq(Accesses)
  BY DEF Loading, I2cTypeOK
<1>1. ASSUME Queued(c) PROVE IF c = Whole THEN Writing' ELSE Waiting'
  <2>1. code # <<>> /\ Head(code) = Cmd(c) /\ AtStart(c, code)
    BY <1>1 DEF Queued, AtStart, At
  <2>2. CpuCmd
    BY <2>1, OneAccess, Kind
  <2>3. code' = Tail(code) /\ cmd' = c /\ UNCHANGED <<st, op, cur, byteNack, bus, tx, rx, flags, slave, script>>
    BY <2>1, <2>2, Kind DEF CpuCmd, Step
  <2>4. Len(code) \in Nat /\ Len(code') = Len(code) - 1
    BY <1>0, <2>1, <2>3, Peel
  <2>5. ASSUME NEW k \in Nat, k = Behind(c, code)
        PROVE  Addressing(c, k)'
    <3>1. tx' # <<>> /\ Fits(Head(tx), Len(tx), c, code)
      BY <1>1, <2>3 DEF Queued
    <3>2. Answers' \/ k = 0 \/ Len(tx) + k <= FIFO_DEPTH + 1
      BY <1>0, <2>3, <2>5, <3>1 DEF Fits, FitsCall, Answers, Quiet
    <3>3. Room(k, 1)'
      BY <2>3, <3>2 DEF Room
    <3> QED BY <1>0, <2>3, <3>1, <3>3 DEF Addressing, Quiet, NoErr
  <2>6. CASE c = Whole
    <3>1. WriteTail(code') /\ Len(code') >= 2 /\ Len(code) >= 3
      BY <2>1, <2>3, <2>4, <2>6, CommandBits DEF AtStart
    <3>2. Behind(c, code) = Len(code') - 2 /\ Len(code') - 2 \in Nat
      BY <2>4, <2>6, <3>1 DEF Behind
    <3>3. ASSUME NEW k \in Nat, k = Len(code') - 2
          PROVE  Addressing(Whole, k)'
      BY <2>5, <2>6, <3>2, <3>3
    <3>4. Addressing(Whole, Len(code) - 2)'
      BY <3>2, <3>3
    <3> QED BY <2>6, <3>1, <3>4 DEF Writing
  <2>7. CASE c = Open
    <3>1. At(code', WaitIdle) /\ At(Tail(code'), Check) /\ AfterAddress(Tail(Tail(code')))
      BY <2>1, <2>3, <2>7, CommandBits DEF AtStart
    <3>2. Behind(c, code) = 0
      BY <2>7, CommandBits DEF Behind
    <3>3. Addressing(Open, 0)'
      BY <2>5, <2>7, <3>2
    <3> QED BY <2>7, <3>1, <3>3, CommandBits DEF Waiting
  <2> QED BY <2>6, <2>7
<1>2. ASSUME LastByte(c) PROVE Loading(c)' /\ Queued(c)'
  <2>1. AtPush(code) /\ AtStart(c, Tail(code))
        /\ Fits(IF tx = <<>> THEN Head(code).b ELSE Head(tx), Len(tx) + 1, c, Tail(code))
    BY <1>2 DEF LastByte
  <2>2. Queued(c)'
    BY <2>1, Pushes DEF Queued, Fits
  <2>3. Quiet' /\ NoErr'
    BY <1>0, <2>1, Pushes DEF Quiet, NoErr
  <2> QED BY <2>2, <2>3 DEF Loading
<1>3. ASSUME TwoBytes(c) PROVE Loading(c)' /\ LastByte(c)'
  <2>1. AtPush(code) /\ AtPush(Tail(code)) /\ AtStart(c, Tail(Tail(code)))
        /\ tx = <<>> /\ Fits(Head(code).b, 2, c, Tail(Tail(code)))
    BY <1>3 DEF TwoBytes
  <2>2. Len(tx') = 1 /\ Len(tx') + 1 = 2 /\ tx' # <<>> /\ Head(tx') = Head(code).b /\ code' = Tail(code) /\ script' = script
    <3>1. /\ Len(tx') = Len(tx) + 1 /\ tx' # <<>> /\ code' = Tail(code) /\ script' = script
          /\ Head(tx') = IF tx = <<>> THEN Head(code).b ELSE Head(tx)
      BY <2>1, Pushes
    <3>2. Len(tx) = 0
      BY <2>1
    <3> QED BY <2>1, <3>1, <3>2
  <2>3. LastByte(c)'
    BY <2>1, <2>2 DEF LastByte, Fits
  <2>4. Quiet' /\ NoErr'
    BY <1>0, <2>1, Pushes DEF Quiet, NoErr
  <2> QED BY <2>3, <2>4 DEF Loading
<1> QED BY <1>1, <1>2, <1>3

\* A byte queued while the engine is sending.
LEMMA PushAddressing ==
  ASSUME NEW c \in {Whole, Open}, NEW k \in Nat, k > 0, I2cTypeOK, AtPush(code), Addressing(c, k), Cpu
  PROVE  Addressing(c, k - 1)'
<1>0. ~(st = "idle" /\ cmd # {}) /\ c # {}
  BY OneAccess, CommandBits DEF AtPush
<1>1. /\ UNCHANGED <<st, op, cur, byteNack, bus, cmd, rx, flags, slave, script>>
      /\ tx' # <<>> /\ Len(tx') = Len(tx) + 1 /\ (tx # <<>> => Head(tx') = Head(tx))
  BY Pushes
<1>2. Len(tx) \in Nat /\ FIFO_DEPTH \in Nat
  BY I2cAssumption DEF I2cTypeOK
<1>3. CASE st = "start" /\ op = c /\ cmd = {} /\ tx # <<>> /\ NoErr /\ bus /\ Room(k, 1)
  <2>1. Answers => Answers'
    BY <1>1, <1>3 DEF Answers
  <2>2. Room(k - 1, 1)'
    BY <1>1, <1>2, <1>3, <2>1 DEF Room
  <2> QED BY <1>1, <1>3, <2>2 DEF Addressing, NoErr
<1>4. CASE st = "byte" /\ op = c /\ cmd = {} /\ NoErr /\ bus /\ Room(k, 0)
  <2>1. Answers => Answers'
    BY <1>1, <1>4 DEF Answers
  <2>2. Room(k - 1, 0)'
    BY <1>1, <1>2, <1>4, <2>1 DEF Room
  <2> QED BY <1>1, <1>4, <2>2 DEF Addressing, NoErr
<1>5. CASE st = "ack" /\ op = c /\ cmd = {} /\ bus /\ Room(k, 0) /\ "arb" \notin flags /\ ("nack" \in flags <=> byteNack)
  <2>1. Answers => Answers'
    BY <1>1, <1>5 DEF Answers
  <2>2. Room(k - 1, 0)'
    BY <1>1, <1>2, <1>5, <2>1 DEF Room
  <2> QED BY <1>1, <1>5, <2>2 DEF Addressing
<1>6. CASE st \in {"done", "idle"} /\ cmd = {} /\ Over(c, k)
  <2>1. "arb" \in flags /\ ~bus /\ Len(script) = 1
    BY <1>6 DEF Over
  <2> QED BY <1>1, <1>6, <2>1 DEF Addressing, Over
<1>7. rx = <<>>
  BY DEF Addressing
<1> QED BY <1>0, <1>1, <1>3, <1>4, <1>5, <1>6, <1>7 DEF Addressing

LEMMA WritingStep ==
  ASSUME I2cTypeOK, script # <<>>, Writing, Cpu
  PROVE  IF Len(code) = 2 THEN LastCheck' ELSE Writing'
<1>1. WriteTail(code) /\ code \in Seq(Accesses) /\ Len(code) \in Nat /\ Len(code) >= 2 /\ code # <<>>
  BY DEF Writing, WriteTail
<1>2. /\ Tail(code) \in Seq(Accesses) /\ Len(Tail(code)) = Len(code) - 1 /\ Head(code) = code[1]
      /\ \A i \in 1..Len(Tail(code)) : Tail(code)[i] = code[i + 1]
  BY <1>1, Peel
<1>2a. \A i \in 1..Len(Tail(code)) : Tail(code)[i] = code[i + 1]
  BY <1>2
<1>3. \A i \in 1..Len(code) :
        code[i].k = IF i = Len(code) THEN "check" ELSE IF i = Len(code) - 1 THEN "wait" ELSE "push"
  BY <1>1 DEF WriteTail
<1>4. ASSUME NEW k \in Nat, k = Len(code) - 2, k > 0
      PROVE  Writing'
  <2>1. AtPush(code)
    <3> DEFINE n == Len(code)
    <3>0. n \in Nat /\ n = k + 2
      BY <1>1, <1>4
    <3> HIDE DEF n
    <3>1a. 1 \in 1..n /\ 1 # n /\ 1 # n - 1
      BY <1>4, <3>0
    <3>1. 1 \in 1..Len(code) /\ 1 # Len(code) /\ 1 # Len(code) - 1
      BY <3>1a DEF n
    <3>2. code[1].k = "push"
      BY <1>3, <3>1
    <3> QED BY <1>1, <1>2, <3>2 DEF AtPush
  <2>2. code' = Tail(code)
    BY <2>1, Pushes
  <2>3. WriteTail(code') /\ Len(code') >= 2
    <3>1. Len(code') = Len(code) - 1 /\ Len(code') >= 2 /\ code' \in Seq(Accesses)
      BY <1>1, <1>2, <1>4, <2>2
    <3>2. ASSUME NEW i \in 1..Len(code')
          PROVE  code'[i].k = IF i = Len(code') THEN "check" ELSE IF i = Len(code') - 1 THEN "wait" ELSE "push"
      <4>1. code'[i] = code[i + 1] /\ i + 1 \in 1..Len(code)
        BY <1>1, <1>2, <2>2, <3>1
      <4> QED BY <1>1, <1>3, <3>1, <4>1
    <3> QED BY <3>1, <3>2 DEF WriteTail
  <2>4. Addressing(Whole, k - 1)'
    BY <1>4, <2>1, PushAddressing DEF Writing
  <2>5. Len(code') - 2 = k - 1
    BY <1>1, <1>2, <1>4, <2>2
  <2>6. Addressing(Whole, Len(code) - 2)'
    BY <2>4, <2>5
  <2> QED BY <2>3, <2>6 DEF Writing
<1>5. CASE Len(code) = 2
  <2>1. Head(code).k = "wait" /\ code[2].k = "check"
    BY <1>2, <1>3, <1>5
  <2>2. CpuWait /\ ~(st = "idle" /\ cmd # {})
    BY <1>1, <2>1, OneAccess
  <2>3. st = "idle" /\ cmd = {} /\ code' = Tail(code)
        /\ UNCHANGED <<st, op, cur, byteNack, bus, cmd, tx, rx, flags, slave, script>>
    BY <2>2 DEF CpuWait, Step, BUSY
  <2>4. Addressing(Whole, 0)
    BY <1>5 DEF Writing
  <2>5. rx = <<>> /\ Over(Whole, 0)
    BY <2>3, <2>4, CommandBits DEF Addressing
  <2>6. ~bus /\ (tx = <<>> \/ ("arb" \in flags /\ Len(script) = 1))
    BY <2>5, CommandBits DEF Over
  <2>7. At(code', Check) /\ Tail(code') = <<>>
    <3>1. Len(code') = 1 /\ code' \in Seq(Accesses) /\ code'[1] = code[2] /\ code' # <<>>
      <4>1. Len(code') = 1 /\ code' \in Seq(Accesses)
        BY <1>2, <1>5, <2>3
      <4>2. Tail(code)[1] = code[1 + 1]
        <5>1. Len(Tail(code)) = 1
          BY <2>3, <4>1, Zenon
        <5>2. 1 \in 1..Len(Tail(code))
          BY <5>1
        <5> QED BY <1>2a, <5>2, Zenon
      <4>3. code'[1] = code[2]
        <5>1. 1 + 1 = 2
          OBVIOUS
        <5>2. Tail(code)[1] = code[2]
          BY <4>2, <5>1, Zenon
        <5>3. code' = Tail(code)
          BY <2>3
        <5> QED BY <5>2, <5>3, Zenon
      <4>4. code' # <<>>
        BY <4>1
      <4> QED BY <4>1, <4>3, <4>4
    <3>2. Head(code') = code'[1] /\ Head(code') \in Accesses /\ Tail(code') \in Seq(Accesses) /\ Len(Tail(code')) = 0
      BY <3>1, Peel
    <3>3. Head(code') = Check
      BY <2>1, <3>1, <3>2, Kinds
    <3> QED BY <3>1, <3>2, <3>3, Empty DEF At
  <2>8. Clean' \/ ("arb" \in flags' /\ BusLost')
    BY <2>3, <2>5, <2>6 DEF Clean, BusLost, Quiet
  <2> QED BY <1>5, <2>7, <2>8 DEF LastCheck
<1>6. CASE Len(code) # 2
  <2>1. ASSUME NEW n \in Nat, n >= 2, n # 2 PROVE n - 2 \in Nat /\ n - 2 > 0
    BY <2>1
  <2>2. Len(code) - 2 \in Nat /\ Len(code) - 2 > 0
    BY <1>1, <1>6, <2>1, Zenon
  <2> QED BY <1>4, <1>6, <2>2
<1> QED BY <1>5, <1>6

\* The end of a wait and the answer of a check.
LEMMA Waits ==
  ASSUME At(code, WaitIdle), Cpu
  PROVE  /\ st = "idle" /\ cmd = {} /\ code' = Tail(code)
         /\ UNCHANGED <<st, op, cur, byteNack, bus, cmd, tx, rx, flags, slave, script, wire, got>>
<1>1. CpuWait /\ ~(st = "idle" /\ cmd # {})
  BY OneAccess, Kind DEF At
<1> QED BY <1>1 DEF CpuWait, Step, BUSY

LEMMA Checks ==
  ASSUME At(code, Check), Cpu
  PROVE  /\ UNCHANGED <<st, op, cur, byteNack, bus, cmd, tx, rx, flags, slave, script, wire, got>>
         /\ "arb" \in flags => code' = <<>> /\ rc' = "arb"
         /\ "arb" \notin flags /\ "nack" \in flags => code' = <<>> /\ rc' = "nack"
         /\ NoErr => code' = Tail(code) /\ rc' = "ok"
<1>1. CpuCheck
  BY OneAccess, Kind DEF At
<1> QED BY <1>1 DEF CpuCheck, i2c_check_err, NoErr

LEMMA WaitingStep ==
  ASSUME I2cTypeOK, script # <<>>, Waiting, Cpu
  PROVE  Checking'
<1>1. /\ st = "idle" /\ cmd = {} /\ code' = Tail(code)
      /\ UNCHANGED <<st, op, cur, byteNack, bus, cmd, tx, rx, flags, slave, script>>
  BY Waits DEF Waiting
<1>2. At(code', Check) /\ AfterAddress(Tail(code')) /\ Addressing(Open, 0)
  BY <1>1 DEF Waiting
<1>3. rx = <<>> /\ Over(Open, 0)
  BY <1>1, <1>2, CommandBits DEF Addressing
<1> QED BY <1>1, <1>2, <1>3 DEF Checking, Quiet, Over

LEMMA CheckingStep ==
  ASSUME I2cTypeOK, script # <<>>, Checking, Cpu
  PROVE  IF NoErr THEN Addressed' ELSE CallOver'
<1>1. At(code, Check) /\ AfterAddress(Tail(code)) /\ Quiet /\ Over(Open, 0)
  BY DEF Checking
<1>2. /\ UNCHANGED <<st, op, cur, byteNack, bus, cmd, tx, rx, flags, slave, script>>
      /\ "arb" \in flags => code' = <<>> /\ rc' = "arb"
      /\ "arb" \notin flags /\ "nack" \in flags => code' = <<>>
      /\ NoErr => code' = Tail(code)
  BY <1>1, Checks
<1>3. CASE "arb" \in flags
  <2>1. ~bus /\ Len(script) = 1
    BY <1>1, <1>3 DEF Over
  <2> QED BY <1>1, <1>2, <1>3, <2>1 DEF CallOver, BusLost, Quiet, NoErr
<1>4. CASE "arb" \notin flags /\ "nack" \in flags
  <2>1. ~bus /\ tx = <<>>
    BY <1>1, <1>4 DEF Over
  <2> QED BY <1>1, <1>2, <1>4, <2>1 DEF CallOver, Clean, Quiet, NoErr
<1>5. CASE NoErr
  <2>1. bus /\ tx = <<>>
    BY <1>1, <1>5 DEF Over, NoErr
  <2>2. Addressed'
    BY <1>1, <1>2, <1>5, <2>1 DEF Addressed, Quiet, NoErr
  <2> QED BY <1>5, <2>2
<1> QED BY <1>3, <1>4, <1>5 DEF NoErr

\* A command is written.
LEMMA Commands ==
  ASSUME NEW c, At(code, Cmd(c)), Cpu
  PROVE  /\ code' = Tail(code) /\ cmd' = c
         /\ UNCHANGED <<st, op, cur, byteNack, bus, tx, rx, flags, slave, script, wire, got>>
<1>1. CpuCmd
  BY OneAccess, Kind DEF At
<1> QED BY <1>1, Kind DEF CpuCmd, Step, At

\* One access of a read.
LEMMA ReadPeel ==
  ASSUME NEW s, ReadTail(s), NEW n \in Nat, n = Len(s), n > 1
  PROVE  /\ s # <<>> /\ Head(s) = ReadAt(n - 1)
         /\ ReadTail(Tail(s)) /\ Len(Tail(s)) = n - 1
<1>1. s \in Seq(Accesses) /\ \A i \in 1..n : s[i] = ReadAt(n - i)
  BY DEF ReadTail
<1>2. s # <<>>
  BY <1>1
<1>3. /\ Tail(s) \in Seq(Accesses) /\ Len(Tail(s)) = n - 1 /\ Head(s) = s[1]
      /\ \A i \in 1..Len(Tail(s)) : Tail(s)[i] = s[i + 1]
  BY <1>1, <1>2, Peel
<1>4. Head(s) = ReadAt(n - 1)
  BY <1>1, <1>3
<1>5. ASSUME NEW i \in 1..n - 1
      PROVE  Tail(s)[i] = ReadAt(n - 1 - i)
  <2>1. Tail(s)[i] = s[i + 1]
    BY <1>3
  <2>2. s[i + 1] = ReadAt(n - (i + 1)) /\ n - (i + 1) = n - 1 - i
    BY <1>1
  <2> QED BY <2>1, <2>2
<1>6. ReadTail(Tail(s))
  <2>1. Len(Tail(s)) >= 1 /\ \A i \in 1..Len(Tail(s)) : Tail(s)[i] = ReadAt(Len(Tail(s)) - i)
    BY <1>3, <1>5
  <2> QED BY <1>3, <2>1 DEF ReadTail
<1> QED BY <1>2, <1>3, <1>4, <1>6

\* The command of the next byte.
LEMMA ReadBegun ==
  ASSUME I2cTypeOK, script # <<>>, ReadTail(code), Len(code) >= 4, Len(code) % 3 = 1,
         Quiet, tx = <<>>, bus, NoErr, Cpu
  PROVE  ReadWaits' /\ code' = Tail(code) /\ UNCHANGED <<st, bus, rx, script, wire, got>>
<1> SUFFICES ASSUME NEW n, n = Len(code), NEW c, c = IF n - 1 = 3 THEN LastRead ELSE {"read"}
             PROVE  ReadWaits' /\ code' = Tail(code) /\ UNCHANGED <<st, bus, rx, script, wire, got>>
  OBVIOUS
<1>1. n \in Nat /\ n >= 4 /\ n % 3 = 1
  BY DEF ReadTail
<1>2. code # <<>> /\ Head(code) = ReadAt(n - 1) /\ ReadTail(Tail(code)) /\ Len(Tail(code)) = n - 1
  BY <1>1, ReadPeel
<1>3. ReadAt(n - 1) = Cmd(c)
  <2>1. (n - 1) % 3 = 0 /\ n - 1 # 0
    BY <1>1
  <2> QED BY <2>1 DEF ReadAt
<1>4. code' = Tail(code) /\ cmd' = c
      /\ UNCHANGED <<st, op, cur, byteNack, bus, tx, rx, flags, slave, script, wire, got>>
  <2>1. At(code, Cmd(c))
    BY <1>2, <1>3 DEF At
  <2>2. CpuCmd
    BY <2>1, OneAccess, Kind DEF At
  <2> QED BY <2>1, <2>2, Kind DEF CpuCmd, Step, At
<1>5. ReadTail(code') /\ Len(code') = n - 1 /\ n - 1 >= 3 /\ (n - 1) % 3 = 0
  BY <1>1, <1>2, <1>4
<1>6. Reading(c)'
  BY <1>4 DEF Reading, Quiet, NoErr
<1>7. Reading(IF Len(code) = 3 THEN LastRead ELSE {"read"})'
  BY <1>5, <1>6
<1> QED BY <1>4, <1>5, <1>7 DEF ReadWaits

LEMMA RestStep ==
  ASSUME I2cTypeOK, script # <<>>, Rest(code), Quiet, tx = <<>>, bus, NoErr, Cpu
  PROVE  ReadWaits'
BY ReadBegun DEF Rest

LEMMA RestIsNoPush ==
  ASSUME NEW s, Rest(s)
  PROVE  ~AtPush(s)
<1> SUFFICES ASSUME NEW n, n = Len(s)
             PROVE  ~AtPush(s)
  OBVIOUS
<1>1. n \in Nat /\ n > 1 /\ (n - 1) % 3 = 0 /\ n - 1 # 0 /\ ReadTail(s)
  BY DEF Rest, ReadTail
<1>2. Head(s) = ReadAt(n - 1)
  BY <1>1, ReadPeel
<1> QED BY <1>1, <1>2, Kind DEF ReadAt, AtPush

\* The second address of a read is queued.
LEMMA Restarts ==
  ASSUME I2cTypeOK, script # <<>>, Addressed, AtPush(code), Cpu
  PROVE  Loading(Open)' /\ Queued(Open)'
<1>1. Quiet /\ tx = <<>> /\ bus /\ NoErr
  BY DEF Addressed
<1>2. At(Tail(code), Cmd(Open)) /\ At(Tail(Tail(code)), WaitIdle) /\ AfterWait(Tail(Tail(Tail(code))))
  BY RestIsNoPush DEF Addressed, AfterAddress
<1>3. /\ code' = Tail(code) /\ tx' # <<>> /\ Len(tx') = Len(tx) + 1
      /\ UNCHANGED <<st, op, cur, byteNack, bus, cmd, rx, flags, slave, script>>
  BY Pushes
<1>3a. Len(tx') = 1
  <2>1. Len(tx) = 0
    BY <1>1
  <2> QED BY <1>3, <2>1
<1>4. At(Tail(Tail(code')), Check) /\ AfterAddress(Tail(Tail(Tail(code')))) /\ Rest(Tail(Tail(Tail(code'))))
  BY <1>2, <1>3 DEF AfterWait, AfterAddress
<1>5. AtStart(Open, code') /\ Behind(Open, code') = 0
  BY <1>2, <1>3, <1>4, OpenStarts
<1>6. Queued(Open)'
  BY <1>3, <1>3a, <1>4, <1>5 DEF Queued, Fits, FitsCall
<1>7. Quiet' /\ NoErr'
  BY <1>1, <1>3 DEF Quiet, NoErr
<1> QED BY <1>6, <1>7 DEF Loading

LEMMA AddressedStep ==
  ASSUME I2cTypeOK, script # <<>>, Addressed, Cpu
  PROVE  Loading(Open)' \/ ReadWaits'
<1>1. Quiet /\ tx = <<>> /\ bus /\ NoErr
  BY DEF Addressed
<1>2. CASE Rest(code)
  BY <1>1, <1>2, RestStep
<1>3. CASE AtPush(code)
  BY <1>3, Restarts
<1> QED BY <1>2, <1>3 DEF Addressed, AfterAddress

LEMMA ReadWaitsStep ==
  ASSUME I2cTypeOK, script # <<>>, ReadWaits, Cpu
  PROVE  ReadPops' /\ code' = Tail(code) /\ UNCHANGED <<st, cmd, bus, rx, script, wire, got>>
<1> SUFFICES ASSUME NEW n, n = Len(code), NEW c, c = IF n = 3 THEN LastRead ELSE {"read"}
             PROVE  ReadPops' /\ code' = Tail(code) /\ UNCHANGED <<st, cmd, bus, rx, script, wire, got>>
  OBVIOUS
<1>1. ReadTail(code) /\ n \in Nat /\ n >= 3 /\ n % 3 = 0
  BY DEF ReadWaits, ReadTail
<1>2. Reading(c)
  BY DEF ReadWaits
<1>3. code # <<>> /\ Head(code) = ReadAt(n - 1) /\ ReadTail(Tail(code)) /\ Len(Tail(code)) = n - 1
  BY <1>1, ReadPeel
<1>4. ReadAt(n - 1) = WaitIdle
  <2>1. (n - 1) % 3 = 2 /\ n - 1 # 0
    BY <1>1
  <2> QED BY <2>1 DEF ReadAt
<1>5. /\ st = "idle" /\ cmd = {} /\ code' = Tail(code)
      /\ UNCHANGED <<st, op, cur, byteNack, bus, cmd, tx, rx, flags, slave, script, wire, got>>
  <2>1. At(code, WaitIdle)
    BY <1>3, <1>4 DEF At
  <2> QED BY <2>1, Waits, Zenon
<1>6. ReadTail(code') /\ Len(code') = n - 1 /\ (n - 1) % 3 = 2
  BY <1>1, <1>3, <1>5
<1>7. tx = <<>> /\ NoErr /\ OneRead /\ (bus <=> c # LastRead)
  <2>1. c # {}
    BY CommandBits
  <2> QED BY <1>2, <1>5, <2>1 DEF Reading
<1>8. c # LastRead <=> n - 1 > 2
  <2>1. CASE n = 3
    BY <2>1
  <2>2. CASE n # 3
    <3>1. c = {"read"} /\ c # LastRead
      BY <2>2, CommandBits
    <3>2. n - 1 > 2
      BY <1>1, <2>2
    <3> QED BY <3>1, <3>2
  <2> QED BY <2>1, <2>2
<1>9. tx' = <<>> /\ NoErr' /\ OneRead' /\ (bus' <=> Len(code') > 2)
  BY <1>5, <1>6, <1>7, <1>8 DEF NoErr, OneRead
<1> QED BY <1>5, <1>6, <1>9 DEF ReadPops

LEMMA ReadPopsStep ==
  ASSUME I2cTypeOK, script # <<>>, ReadPops, Cpu
  PROVE  /\ IF Len(code) = 2 THEN LastCheck' ELSE Addressed' /\ ReadTail(code')
         /\ code' = Tail(code) /\ got' = Append(got, Head(rx)) /\ rx' = <<>>
         /\ UNCHANGED <<st, bus, flags, script, wire>>
<1> SUFFICES ASSUME NEW n, n = Len(code)
             PROVE  /\ IF n = 2 THEN LastCheck' ELSE Addressed' /\ ReadTail(code')
                    /\ code' = Tail(code) /\ got' = Append(got, Head(rx)) /\ rx' = <<>>
                    /\ UNCHANGED <<st, bus, flags, script, wire>>
  OBVIOUS
<1>1. ReadTail(code) /\ n \in Nat /\ n >= 2 /\ n % 3 = 2
  BY DEF ReadPops, ReadTail
<1>2. code # <<>> /\ Head(code) = ReadAt(n - 1) /\ ReadTail(Tail(code)) /\ Len(Tail(code)) = n - 1
  BY <1>1, ReadPeel
<1>3. ReadAt(n - 1) = Pop
  <2>1. (n - 1) % 3 = 1 /\ n - 1 # 0
    BY <1>1
  <2> QED BY <2>1 DEF ReadAt
<1>4. CpuPop
  BY <1>2, <1>3, OneAccess, Kind
<1>5. code' = Tail(code) /\ UNCHANGED <<st, op, cur, byteNack, bus, cmd, tx, flags, slave, script, wire>>
  BY <1>4 DEF CpuPop, Step
<1>6. rx' = <<>> /\ got' = Append(got, Head(rx))
  BY <1>4 DEF CpuPop, ReadPops, OneRead
<1>7. ReadTail(code') /\ Len(code') = n - 1 /\ (n - 1) % 3 = 1
  BY <1>1, <1>2, <1>5
<1>8. Quiet' /\ tx' = <<>> /\ NoErr' /\ (bus' <=> n > 2)
  BY <1>5, <1>6 DEF ReadPops, Quiet, NoErr
<1>9. ASSUME n = 2 PROVE LastCheck'
  <2>1. code' \in Seq(Accesses) /\ Len(code') = 1 /\ code'[1] = ReadAt(1 - 1)
    <3>1. Len(code') = 1
      BY <1>7, <1>9
    <3>2. 1 \in 1..Len(code')
      BY <3>1
    <3>3. code'[1] = ReadAt(Len(code') - 1)
      BY <1>7, <3>2 DEF ReadTail
    <3> QED BY <1>7, <3>1, <3>3 DEF ReadTail
  <2>2. ReadAt(1 - 1) = Check
    BY DEF ReadAt
  <2>3. code' # <<>>
    <3>1. Len(code') = 1
      BY <2>1
    <3> QED BY <3>1
  <2>4. Head(code') = Check /\ Tail(code') \in Seq(Accesses) /\ Len(Tail(code')) = 0
    BY <2>1, <2>2, <2>3, Peel
  <2>5. Tail(code') = <<>>
    BY <2>4, Empty
  <2> QED BY <1>8, <1>9, <2>3, <2>4, <2>5 DEF LastCheck, At, Clean
<1>10. ASSUME n > 2 PROVE Addressed'
  <2>1. n - 1 >= 4
    BY <1>1, <1>10
  <2>2. Rest(code')
    BY <1>7, <2>1 DEF Rest
  <2> QED BY <1>8, <1>10, <2>2 DEF Addressed, AfterAddress
<1> QED BY <1>1, <1>5, <1>6, <1>7, <1>9, <1>10

LEMMA LastCheckStep ==
  ASSUME I2cTypeOK, script # <<>>, LastCheck, Cpu
  PROVE  CallOver'
<1>1. At(code, Check) /\ Tail(code) = <<>> /\ (Clean \/ ("arb" \in flags /\ BusLost))
  BY DEF LastCheck
<1>2. /\ UNCHANGED <<st, op, cur, byteNack, bus, cmd, tx, rx, flags, slave, script>>
      /\ code' = <<>> /\ ("arb" \in flags => rc' = "arb")
  BY <1>1, Checks DEF NoErr
<1> QED BY <1>1, <1>2 DEF CallOver, Clean, BusLost, Quiet

(***************************************************************************)
(* The invariant.                                                          *)
(***************************************************************************)
LEMMA CallsAreCalls ==
  ASSUME CallsFit
  PROVE  /\ \A c \in CallsMade : IsCall(c)
         /\ \A s \in Scripts : s # <<>> /\ s \in Seq(CallsMade)
<1>1. ASSUME NEW s \in Scripts
      PROVE  /\ s # <<>> /\ s \in Seq(CallsMade)
             /\ \A i \in 1..Len(s) : IsCall(s[i])
  <2> DEFINE S == {s[i] : i \in 1..Len(s)}
  <2>1. s # <<>> /\ s \in Seq(S) /\ \A i \in 1..Len(s) : IsCall(s[i])
    BY DEF CallsFit
  <2>2. \A x \in S : x \in CallsMade
    BY DEF CallsMade
  <2> HIDE DEF S
  <2>3. s \in Seq(CallsMade)
    BY <2>1, <2>2
  <2> QED BY <2>1, <2>3
<1>2. ASSUME NEW c \in CallsMade
      PROVE  IsCall(c)
  <2>1. PICK s \in Scripts : c \in {s[i] : i \in 1..Len(s)}
    BY DEF CallsMade
  <2> QED BY <1>1, <2>1
<1> QED BY <1>1, <1>2

LEMMA I2cInit ==
  ASSUME CallsFit, Init
  PROVE  I2cInv
<1>1. script \in Seq(CallsMade) /\ script # <<>> /\ code = Head(script).ops /\ IsCall(Head(script))
  <2>1. script \in Scripts /\ script # <<>> /\ script \in Seq(CallsMade) /\ code = Head(script).ops
    BY CallsAreCalls DEF Init
  <2>2. Head(script) \in CallsMade
    BY <2>1, Peel
  <2> QED BY <2>1, <2>2, CallsAreCalls
<1>2. code \in Seq(Accesses)
  BY <1>1, CallBegins
<1>3. tx \in Seq(Nat)
  BY DEF Init
<1>4. slave = [mode |-> slave.mode, first |-> slave.first, bit |-> 0, ptr |-> slave.ptr, regs |-> slave.regs]
  BY DEF Init, SlaveInit
<1>5. Beginning
  BY <1>1 DEF Init, Beginning, Clean, Quiet
<1>6. SlaveInv
  BY DEF Init, SlaveInit, SlaveInv, AsksToSend
<1> QED BY <1>1, <1>2, <1>3, <1>4, <1>5, <1>6 DEF I2cInv, I2cTypeOK, AtEachAccess

\* No device sends to a call that has nothing left to do.
LEMMA NothingSent ==
  ASSUME code = <<>>
  PROVE  ~Sends
<1>1. Len(code) = 0
  OBVIOUS
<1>2. ~ReadsNext /\ ~Checking
  BY DEF ReadsNext, Waiting, Checking, At
<1>3. ~Rest(code) /\ ~ReadWaits /\ ~(Len(code) > 2)
  BY <1>1 DEF Rest, ReadWaits
<1> QED BY <1>2, <1>3 DEF Sends

\* The program's result, and its next call.
LEMMA ReturnStep ==
  ASSUME CallsFit, I2cTypeOK, script # <<>>, CallOver, SlaveInv, Return
  PROVE  I2cInv' /\ (script' # <<>> => Beginning')
<1>1. /\ script' = Tail(script) /\ code' = (IF script' = <<>> THEN <<>> ELSE Head(script').ops)
      /\ UNCHANGED <<st, op, cur, byteNack, bus, cmd, tx, rx, flags, slave>>
  BY DEF Return
<1>2. script' \in Seq(CallsMade) /\ Len(script') = Len(script) - 1 /\ Len(script) \in Nat
  BY <1>1, Peel DEF I2cTypeOK
<1>3. Quiet' /\ ~bus'
  BY <1>1 DEF CallOver, Clean, BusLost, Quiet
<1>4. CASE script' = <<>>
  <2>1. code' = <<>> /\ code' \in Seq(Accesses)
    BY <1>1, <1>4
  <2>2. I2cTypeOK'
    BY <1>1, <1>2, <2>1 DEF I2cTypeOK
  <2> QED BY <1>3, <1>4, <2>1, <2>2 DEF I2cInv, Quiet
<1>5. CASE script' # <<>>
  <2>1. Head(script') \in CallsMade /\ Len(script') # 0
    BY <1>2, <1>5, Peel
  <2>2. code' = Head(script').ops /\ code' \in Seq(Accesses)
    BY <1>1, <1>5, <2>1, CallsAreCalls, CallBegins
  <2>3. Len(script) # 1
    BY <1>2, <2>1
  <2>4. tx = <<>>
    BY <2>3 DEF CallOver, Clean, BusLost
  <2>5. Beginning'
    BY <1>1, <1>3, <2>2, <2>4 DEF Beginning, Clean
  <2>6. I2cTypeOK'
    BY <1>1, <1>2, <2>2 DEF I2cTypeOK
  <2>7. slave.mode # "rd"
    BY NothingSent DEF SlaveInv, CallOver
  <2>8. SlaveInv'
    BY <1>1, <1>3, <2>7 DEF SlaveInv, AsksToSend, Quiet
  <2> QED BY <1>5, <2>5, <2>6, <2>8 DEF I2cInv, AtEachAccess
<1> QED BY <1>4, <1>5

LEMMA CpuTypes ==
  ASSUME I2cTypeOK, code # <<>>, Cpu
  PROVE  I2cTypeOK'
<1>1. code \in Seq(Accesses) /\ Tail(code) \in Seq(Accesses) /\ <<>> \in Seq(Accesses)
  BY Peel DEF I2cTypeOK
<1>2. UNCHANGED <<script, slave>>
  BY CpuKeepsScript, OneAccess DEF CpuClear, CpuPush, CpuCmd, CpuWait, CpuPop, CpuCheck, CpuExpect
<1>3. code' \in Seq(Accesses)
  BY <1>1, OneAccess DEF CpuClear, CpuPush, CpuCmd, CpuWait, CpuPop, CpuCheck, CpuExpect, Step
<1>4. tx' \in Seq(Nat)
  <2>1. CASE Head(code).k = "push"
    BY <2>1, Pushes DEF AtPush
  <2>2. CASE Head(code).k # "push"
    <3>1. tx' = tx
      BY <2>2, OneAccess DEF CpuClear, CpuCmd, CpuWait, CpuPop, CpuCheck, CpuExpect
    <3> QED BY <3>1 DEF I2cTypeOK
  <2> QED BY <2>1, <2>2
<1> QED BY <1>2, <1>3, <1>4 DEF I2cTypeOK

LEMMA EngineTypes ==
  ASSUME I2cTypeOK, Engine, Meets
  PROVE  I2cTypeOK'
<1>1. UNCHANGED <<script, code>>
  BY OneStep DEF cpuVars
<1>2. tx' \in Seq(Nat)
  <2>1. tx' = tx \/ tx' = <<>> \/ (tx # <<>> /\ tx' = Tail(tx))
    BY OneStep DEF Consume, StartDone, ReadByte, ReadAck, StopDone, Done, WriteByte, LoseArbitration, WriteAck, LoadByte
  <2>2. CASE tx' = tx
    BY <2>2 DEF I2cTypeOK
  <2>3. CASE tx' = <<>>
    BY <2>3
  <2>4. CASE tx # <<>> /\ tx' = Tail(tx)
    BY <2>4, Peel DEF I2cTypeOK
  <2> QED BY <2>1, <2>2, <2>3, <2>4
<1> DEFINE Device(d) == d = [mode |-> d.mode, first |-> d.first, bit |-> 0, ptr |-> d.ptr, regs |-> d.regs]
<1>3. Device(slave) /\ slave.bit = 0
  BY DEF I2cTypeOK
<1>4. Device(slave')
  <2>0. ASSUME NEW d, Device(d), NEW v
        PROVE  /\ Device([d EXCEPT !.mode = v]) /\ Device([d EXCEPT !.first = v]) /\ Device([d EXCEPT !.bit = 0])
               /\ Device([d EXCEPT !.ptr = v]) /\ Device([d EXCEPT !.regs = v])
    <3>1. d = [mode |-> d.mode, first |-> d.first, bit |-> 0, ptr |-> d.ptr, regs |-> d.regs]
      BY <2>0
    <3>2. Device([d EXCEPT !.mode = v])
      BY <3>1
    <3>3. Device([d EXCEPT !.first = v])
      BY <3>1
    <3>4. Device([d EXCEPT !.ptr = v])
      BY <3>1
    <3>5. Device([d EXCEPT !.regs = v])
      BY <3>1
    <3>6. Device([d EXCEPT !.bit = 0])
      BY <3>1
    <3> QED BY <3>2, <3>3, <3>4, <3>5, <3>6
  <2>1a. [slave EXCEPT !.mode = "addr", !.first = TRUE, !.bit = 0]
           = [[[slave EXCEPT !.mode = "addr"] EXCEPT !.first = TRUE] EXCEPT !.bit = 0]
    OBVIOUS
  <2>2a. [slave EXCEPT !.mode = "idle", !.bit = 0] = [[slave EXCEPT !.mode = "idle"] EXCEPT !.bit = 0]
    OBVIOUS
  <2>3a. \A p, f : [slave EXCEPT !.ptr = p, !.first = f] = [[slave EXCEPT !.ptr = p] EXCEPT !.first = f]
    OBVIOUS
  <2>4a. \A p, r : [slave EXCEPT !.regs = r, !.ptr = p] = [[slave EXCEPT !.regs = r] EXCEPT !.ptr = p]
    OBVIOUS
  <2> HIDE DEF Device
  <2>1. Device([slave EXCEPT !.mode = "addr", !.first = TRUE, !.bit = 0])
    BY <1>3, <2>0, <2>1a, Zenon
  <2>2. \A m : Device([slave EXCEPT !.mode = m])
    BY <1>3, <2>0, Zenon
  <2>2b. Device([slave EXCEPT !.mode = "idle", !.bit = 0])
    BY <1>3, <2>0, <2>2a, Zenon
  <2>3. \A p, f : Device([slave EXCEPT !.ptr = p, !.first = f])
    BY <1>3, <2>0, <2>3a, Zenon
  <2>4. \A p, r : Device([slave EXCEPT !.regs = r, !.ptr = p])
    BY <1>3, <2>0, <2>4a, Zenon
  <2>5. \A p : Device([slave EXCEPT !.ptr = p])
    BY <1>3, <2>0, Zenon
  <2>6. \A b : [slave EXCEPT !.regs[slave.ptr] = b, !.ptr = (slave.ptr + 1) % NREGS]
                 = [slave EXCEPT !.regs = [slave.regs EXCEPT ![slave.ptr] = b], !.ptr = (slave.ptr + 1) % NREGS]
    OBVIOUS
  <2>7. slave.mode # "rd" => Device(SlaveAfter(cur))
    BY <1>3, <2>2, <2>3, <2>4, <2>6 DEF SlaveAfter
  <2>8. \A m : Device(SlaveAfterRead(m))
    BY <1>3, <2>2b, <2>5 DEF SlaveAfterRead
  <2>9. \/ slave' = slave \/ (slave.mode # "rd" /\ slave' = SlaveAfter(cur)) \/ (\E m : slave' = SlaveAfterRead(m))
        \/ slave' = [slave EXCEPT !.mode = "addr", !.first = TRUE, !.bit = 0]
        \/ slave' = [slave EXCEPT !.mode = "idle", !.bit = 0]
    <3>1. \A busy \in BOOLEAN : WriteByte(busy) =>
            slave.mode # "rd" /\ (slave' = slave \/ slave' = SlaveAfter(cur))
      BY DEF WriteByte, Meets
    <3>2. Consume \/ ReadAck \/ Done \/ WriteAck => slave' = slave
      BY DEF Consume, ReadAck, Done, WriteAck
    <3>3. ReadByte => slave' = SlaveAfterRead("nack" \in op)
      BY DEF ReadByte
    <3> QED BY <3>1, <3>2, <3>3, OneStep, Zenon
  <2>10. CASE slave' = slave \/ (slave.mode # "rd" /\ slave' = SlaveAfter(cur))
    BY <1>3, <2>7, <2>10
  <2>11. CASE \E m : slave' = SlaveAfterRead(m)
    BY <2>8, <2>11
  <2>12. CASE slave' = [slave EXCEPT !.mode = "addr", !.first = TRUE, !.bit = 0]
    BY <2>1, <2>12, Zenon
  <2>13. CASE slave' = [slave EXCEPT !.mode = "idle", !.bit = 0]
    BY <2>2b, <2>13, Zenon
  <2> QED BY <2>9, <2>10, <2>11, <2>12, <2>13
<1> QED BY <1>1, <1>2, <1>4 DEF I2cTypeOK

\* A call with no access left is over.
LEMMA NothingLeft ==
  ASSUME CallsFit, I2cTypeOK, script # <<>>, code = <<>>
  PROVE  /\ AtEachAccess => CallOver
         /\ FrameAtEachAccess => FrameOver
<1>1. ~Beginning
  <2>1. Head(script) \in CallsMade
    BY Peel DEF I2cTypeOK
  <2>2. IsCall(Head(script))
    BY <2>1, CallsAreCalls
  <2>3. Head(script).ops # <<>>
    BY <2>2, CallBegins DEF At
  <2> QED BY <2>3 DEF Beginning
<1>2. ASSUME NEW c, Loading(c) PROVE FALSE
  BY <1>2 DEF Loading, Queued, LastByte, TwoBytes, AtStart, AtPush, At
<1>3. Len(code) = 0
  OBVIOUS
<1>4. ~Writing /\ ~ReadWaits /\ ~ReadPops
  BY <1>3 DEF Writing, ReadWaits, ReadPops
<1>5. ~Waiting /\ ~Checking /\ ~LastCheck
  BY DEF Waiting, Checking, LastCheck, At
<1>6. ~Addressed
  BY <1>3 DEF Addressed, AfterAddress, Rest, AtPush
<1>7. AtEachAccess => CallOver
  BY <1>1, <1>2, <1>4, <1>5, <1>6 DEF AtEachAccess
<1>8. FrameAtEachAccess => FrameOver
  <2>1. \A c : ~FrameLoads(c)
    BY <1>2 DEF FrameLoads
  <2> QED BY <1>1, <1>4, <1>5, <1>6, <2>1 DEF FrameAtEachAccess, FrameBegins, FrameWrites, FrameWaits, FrameChecks,
             FrameAddressed, FrameReadWaits, FrameReadPops, FrameLastCheck
<1> QED BY <1>7, <1>8

\* What the engine does meanwhile.
LEMMA WritingOn ==
  ASSUME I2cTypeOK, script # <<>>, Writing, Engine, Meets
  PROVE  /\ Writing' /\ Addressing(Whole, Len(code) - 2) /\ Len(code) - 2 \in Nat
         /\ Len(code) - 2 > 0 => code # <<>> /\ Head(code).k = "push"
<1> SUFFICES ASSUME NEW n, n = Len(code)
             PROVE  /\ Writing' /\ Addressing(Whole, n - 2) /\ n - 2 \in Nat
                    /\ n - 2 > 0 => code # <<>> /\ Head(code).k = "push"
  OBVIOUS
<1>1. WriteTail(code) /\ n \in Nat /\ n >= 2 /\ Addressing(Whole, n - 2) /\ n - 2 \in Nat
  BY DEF Writing, WriteTail
<1>2. n - 2 > 0 => code # <<>> /\ Head(code).k = "push"
  <2> SUFFICES ASSUME n - 2 > 0 PROVE code # <<>> /\ Head(code).k = "push"
    OBVIOUS
  <2>1. code # <<>> /\ code \in Seq(Accesses)
    BY <1>1 DEF WriteTail
  <2>2. Head(code) = code[1]
    BY <2>1, Peel
  <2>3. 1 \in 1..n /\ 1 # n /\ 1 # n - 1
    BY <1>1
  <2>4. code[1].k = "push"
    BY <1>1, <2>3 DEF WriteTail
  <2> QED BY <2>1, <2>2, <2>4
<1>3. Addressing(Whole, n - 2)'
  BY <1>1, <1>2, AddressingStep
<1>4. Len(code)' = n /\ WriteTail(code')
  BY <1>1, OneStep DEF cpuVars
<1>5. Addressing(Whole, Len(code) - 2)'
  BY <1>3, <1>4
<1> QED BY <1>1, <1>2, <1>4, <1>5 DEF Writing

LEMMA WaitingOn ==
  ASSUME I2cTypeOK, script # <<>>, Waiting, Engine, Meets
  PROVE  Waiting' /\ Addressing(Open, 0)
<1>1. Addressing(Open, 0) /\ Addressing(Open, 0)'
  BY AddressingStep DEF Waiting
<1>2. UNCHANGED code
  BY OneStep DEF cpuVars
<1> QED BY <1>1, <1>2 DEF Waiting

LEMMA ReadWaitsOn ==
  ASSUME I2cTypeOK, script # <<>>, ReadWaits, Engine, Meets
  PROVE  ReadWaits'
<1> SUFFICES ASSUME NEW c, c = IF Len(code) = 3 THEN LastRead ELSE {"read"}
             PROVE  ReadWaits'
  OBVIOUS
<1>1. Reading(c) /\ c \in {{"read"}, LastRead}
  BY DEF ReadWaits
<1>2. Reading(c)' /\ UNCHANGED code
  BY <1>1, ReadingStep, OneStep DEF cpuVars
<1>3. Reading(IF Len(code) = 3 THEN LastRead ELSE {"read"})'
  BY <1>2
<1> QED BY <1>2, <1>3 DEF ReadWaits

\* The engine finds the line free wherever it needs it.
LEMMA LineFree ==
  ASSUME I2cInv
  PROVE  Meets
<1>1. CASE script = <<>>
  BY <1>1 DEF I2cInv, Meets
<1>2. CASE script # <<>> /\ slave.mode # "rd"
  BY <1>2 DEF Meets
<1>3. CASE script # <<>> /\ slave.mode = "rd"
  <2> SUFFICES ASSUME Sends PROVE Meets
    BY <1>3 DEF I2cInv, SlaveInv
  <2>1. CASE ReadWaits /\ (Len(code) = 3 => (st = "idle" /\ cmd # {}) \/ st = "byte")
    <3>1. CASE Len(code) = 3
      <4>1. Reading(LastRead)
        BY <3>1, <2>1 DEF ReadWaits
      <4> QED BY <3>1, <2>1, <4>1, CommandBits DEF Reading, Meets
    <3>2. CASE Len(code) # 3
      <4>1. Reading({"read"})
        BY <3>2, <2>1 DEF ReadWaits
      <4> QED BY <4>1, CommandBits DEF Reading, Meets
    <3> QED BY <3>1, <3>2
  <2>2. CASE Checking \/ Addressed \/ ReadPops
    BY <2>2 DEF Checking, Addressed, ReadPops, Quiet, Meets
  <2>3. CASE st \in {"ack", "done", "idle"}
    BY <2>3 DEF Meets
  <2> QED BY <2>1, <2>2, <2>3 DEF Sends
<1> QED BY <1>1, <1>2, <1>3

\* The engine is sending a call's bytes or reading, never both.
LEMMA OneWay ==
  ASSUME NEW c \in {Whole, Open}, NEW k, Addressing(c, k), NEW d \in {{"read"}, LastRead}, Reading(d)
  PROVE  FALSE
<1>1. c # d /\ c # {} /\ d # {}
  BY CommandBits
<1> QED BY <1>1 DEF Addressing, Reading, OneRead

\* The device while the bytes of a write or an address go out.
LEMMA DeviceAddressed ==
  ASSUME NEW c \in {Whole, Open}, NEW k \in Nat, I2cTypeOK, script # <<>>, Addressing(c, k), SlaveInv, Meets, Engine,
         ReadsNext => ReadsNext'
  PROVE  SlaveInv'
<1> USE CommandBits
<1>1. ~(st = "idle" /\ cmd = {})
  BY EngineRests
<1>2. ASSUME slave.mode = "rd"
      PROVE  ReadsNext /\ tx = <<>> /\ NoErr /\ cmd = {} /\ st \in {"ack", "done"}
  <2>1. Sends
    BY <1>2 DEF SlaveInv
  <2>2. ~ReadWaits
    BY OneWay DEF ReadWaits
  <2>3. ~Checking /\ ~Addressed /\ ~ReadPops
    BY <1>1 DEF Checking, Addressed, ReadPops, Quiet
  <2> QED BY <1>1, <2>1, <2>2, <2>3 DEF Sends
<1>3. CASE st = "idle"
  <2>1. cmd = c /\ Consume
    BY <1>1, <1>3, OneStep DEF Addressing
  <2>2. st' = "start" /\ cmd' = {} /\ UNCHANGED <<tx, slave>>
    BY <1>3, <2>1 DEF Consume
  <2>3. slave'.mode # "rd"
    BY <1>2, <1>3, <2>2
  <2> QED BY <1>3, <2>1, <2>2, <2>3 DEF SlaveInv, AsksToSend
<1>4. CASE st = "start"
  <2>1. /\ tx # <<>> /\ op = c /\ StartDone
        /\ slave' = [slave EXCEPT !.mode = "addr", !.first = TRUE, !.bit = 0]
    BY <1>4, OneStep DEF Addressing
  <2>2. LoadByte /\ op' = op
    BY <2>1 DEF StartDone
  <2>3. st' = "byte" /\ cur' = Head(tx) /\ tx' = Tail(tx)
    BY <2>2 DEF LoadByte
  <2>4. slave'.mode = "addr"
    BY <2>1 DEF I2cTypeOK
  <2>5. Head(tx) % 2 = 1 => tx' = <<>> /\ ReadsNext'
    <3>1. Head(tx) % 2 = 1 => Len(tx) = 1 /\ ReadsNext
      BY <1>4 DEF SlaveInv, AsksToSend
    <3>2. tx' \in Seq(Nat) /\ Len(tx') = Len(tx) - 1
      BY <2>1, <2>3, Peel DEF I2cTypeOK
    <3>3. Len(tx) = 1 => tx' = <<>>
      BY <3>2, Empty
    <3> QED BY <3>1, <3>3
  <2> QED BY <2>3, <2>4, <2>5 DEF SlaveInv, AsksToSend
<1>5. CASE st = "byte"
  <2>1. op = c /\ cmd = {} /\ NoErr /\ slave.mode # "rd"
    BY <1>2, <1>5 DEF Addressing
  <2>2. ASSUME NEW busy \in BOOLEAN, WriteByte(busy)
        PROVE  SlaveInv'
    <3>1. /\ st' = "ack" /\ UNCHANGED <<op, cmd, tx>> /\ (busy => slave.mode = "wr")
          /\ slave' = (IF busy THEN slave ELSE SlaveAfter(cur))
          /\ flags' = (IF busy \/ ~SlaveAcks(cur) THEN flags \cup {"nack"} ELSE flags)
      BY <2>2 DEF WriteByte
    <3>2. CASE busy
      BY <3>1, <3>2 DEF SlaveInv, AsksToSend
    <3>3. CASE ~busy /\ slave.mode = "addr"
      <4>1. slave' = [slave EXCEPT !.mode = IF cur \div 2 # SLAVE THEN "idle" ELSE IF cur % 2 = 1 THEN "rd" ELSE "wr"]
        BY <3>1, <3>3 DEF SlaveAfter
      <4>2. slave'.mode = IF cur \div 2 # SLAVE THEN "idle" ELSE IF cur % 2 = 1 THEN "rd" ELSE "wr"
        BY <4>1 DEF I2cTypeOK
      <4>3. ASSUME slave'.mode = "rd" PROVE Sends'
        <5>1. SlaveAcks(cur) /\ cur % 2 = 1
          BY <3>3, <4>2, <4>3 DEF SlaveAcks
        <5>2. tx = <<>> /\ ReadsNext
          BY <1>5, <2>1, <3>3, <5>1 DEF SlaveInv, AsksToSend
        <5>3. NoErr'
          BY <2>1, <3>1, <3>3, <5>1 DEF NoErr
        <5> QED BY <2>1, <3>1, <5>2, <5>3 DEF Sends
      <4> QED BY <3>1, <4>2, <4>3 DEF SlaveInv, AsksToSend
    <3>4. CASE ~busy /\ slave.mode # "addr"
      <4>1. slave'.mode \notin {"rd", "addr"}
        BY <2>1, <3>1, <3>4 DEF SlaveAfter, I2cTypeOK
      <4> QED BY <3>1, <4>1 DEF SlaveInv, AsksToSend
    <3> QED BY <3>2, <3>3, <3>4
  <2>3. ASSUME LoseArbitration, slave' = slave
        PROVE  SlaveInv'
    BY <2>1, <2>3 DEF LoseArbitration, SlaveInv, AsksToSend
  <2>4. ~ReadByte
    BY <2>1 DEF ReadByte
  <2> QED BY <1>5, <2>2, <2>3, <2>4, OneStep
<1>6. CASE st = "ack"
  <2>1. op = c /\ cmd = {} /\ ("nack" \in flags <=> byteNack)
    BY <1>6 DEF Addressing, Over
  <2>2. WriteAck /\ UNCHANGED <<op, cmd, flags, slave>>
    BY <1>6, <2>1, OneStep DEF ReadAck, WriteAck
  <2>3. CASE slave.mode = "rd"
    <3>1. ReadsNext /\ tx = <<>> /\ NoErr
      BY <1>2, <2>3
    <3>2. op = Open
      <4>1. Addressing(Open, 0)
        BY <3>1 DEF ReadsNext, Waiting
      <4> QED BY <1>6, <4>1 DEF Addressing
    <3>3. st' = "done" /\ tx' = tx
      BY <2>1, <2>2, <3>1, <3>2 DEF WriteAck, NoErr
    <3>4. Sends'
      BY <2>1, <2>2, <3>1, <3>3 DEF Sends, NoErr
    <3> QED BY <3>3, <3>4 DEF SlaveInv, AsksToSend
  <2>4. CASE slave.mode # "rd"
    <3>1. slave.mode # "addr"
      BY <1>6, <2>1 DEF SlaveInv, AsksToSend
    <3>2. st' \in {"stop", "byte", "done"}
      BY <2>2 DEF WriteAck, LoadByte
    <3> QED BY <2>2, <2>4, <3>1, <3>2 DEF SlaveInv, AsksToSend
  <2> QED BY <2>3, <2>4
<1>7. CASE st = "stop"
  <2>1. st' = "done" /\ slave' = [slave EXCEPT !.mode = "idle", !.bit = 0]
    BY <1>7, OneStep DEF StopDone
  <2>2. slave'.mode = "idle"
    BY <2>1 DEF I2cTypeOK
  <2> QED BY <2>1, <2>2 DEF SlaveInv, AsksToSend
<1>8. CASE st = "done"
  <2>1. st' = "idle" /\ cmd = {} /\ UNCHANGED <<cmd, tx, flags, slave>>
    BY <1>8, OneStep DEF Done, Addressing
  <2>2. slave'.mode = "rd" => Sends'
    BY <1>2, <2>1 DEF Sends, NoErr
  <2> QED BY <2>1, <2>2 DEF SlaveInv, AsksToSend
<1> QED BY <1>3, <1>4, <1>5, <1>6, <1>7, <1>8, OneStep

\* The device while it is being read: it lets go with the last byte.
LEMMA DeviceRead ==
  ASSUME NEW c, c = IF Len(code) = 3 THEN LastRead ELSE {"read"},
         I2cTypeOK, ReadWaits, ReadWaits', SlaveInv, Meets, Engine
  PROVE  SlaveInv'
<1>1. Reading(c) /\ c \in {{"read"}, LastRead} /\ c # {} /\ "read" \in c /\ "start" \notin c
  BY CommandBits DEF ReadWaits
<1>2. ~(st = "idle" /\ cmd = {}) /\ code' = code
  BY EngineRests, OneStep DEF cpuVars
<1>3. ASSUME slave.mode = "rd", Len(code) = 3
      PROVE  st \in {"idle", "byte"}
  <2>1. Sends
    BY <1>3 DEF SlaveInv
  <2>2. ~ReadsNext
    BY <1>1, OneWay DEF ReadsNext, Waiting
  <2>3. ~Checking /\ ~Addressed /\ ~ReadPops
    BY <1>2 DEF Checking, Addressed, ReadPops, Quiet
  <2> QED BY <1>3, <2>1, <2>2, <2>3 DEF Sends
<1>4. CASE st = "idle"
  <2>1. cmd = c /\ Consume
    BY <1>1, <1>2, <1>4, OneStep DEF Reading
  <2>2. st' = "byte" /\ op' = c
    BY <1>1, <2>1 DEF Consume
  <2>3. Sends'
    BY <2>2 DEF Sends
  <2> QED BY <1>1, <2>2, <2>3 DEF SlaveInv, AsksToSend
<1>5. CASE st = "byte"
  <2>1. op = c
    BY <1>1, <1>5 DEF Reading
  <2>2. ReadByte
    BY <1>1, <1>5, <2>1, OneStep DEF WriteByte, LoseArbitration
  <2>3. st' = "ack" /\ op' = op /\ slave' = SlaveAfterRead("nack" \in op)
    BY <2>2 DEF ReadByte
  <2>4. ASSUME slave'.mode = "rd" PROVE Sends'
    <3>1. "nack" \notin op
      BY <2>3, <2>4 DEF SlaveAfterRead, I2cTypeOK
    <3>2. Len(code) # 3
      BY <2>1, <3>1 DEF LastRead
    <3> QED BY <1>2, <3>2 DEF Sends
  <2> QED BY <1>1, <2>1, <2>3, <2>4 DEF SlaveInv, AsksToSend
<1>6. CASE st \in {"ack", "done"}
  <2>1. slave' = slave /\ st' \in {"stop", "done", "idle"} /\ (st' = "idle" => cmd' = {})
    <3>1. CASE st = "ack"
      <4>1. op = c /\ cmd = {}
        BY <1>1, <3>1 DEF Reading
      <4>2. ReadAck
        BY <1>1, <3>1, <4>1, OneStep DEF WriteAck
      <4> QED BY <4>1, <4>2 DEF ReadAck
    <3>2. CASE st = "done"
      <4>1. Done /\ cmd = {}
        BY <1>1, <3>2, OneStep DEF Reading
      <4> QED BY <4>1 DEF Done
    <3> QED BY <1>6, <3>1, <3>2
  <2>2. slave'.mode = "rd" => Sends'
    BY <1>2, <1>3, <1>6, <2>1 DEF Sends
  <2> QED BY <2>1, <2>2 DEF SlaveInv, AsksToSend
<1>7. CASE st = "stop"
  <2>1. st' = "done" /\ slave' = [slave EXCEPT !.mode = "idle", !.bit = 0]
    BY <1>7, OneStep DEF StopDone
  <2>2. slave'.mode = "idle"
    BY <2>1 DEF I2cTypeOK
  <2> QED BY <2>1, <2>2 DEF SlaveInv, AsksToSend
<1> QED BY <1>1, <1>4, <1>5, <1>6, <1>7 DEF Reading

\* What a command follows.
LEMMA Commanded ==
  ASSUME CallsFit, I2cTypeOK, script # <<>>, AtEachAccess, code # <<>>, Head(code).k = "cmd"
  PROVE  (\E c \in {Whole, Open} : Loading(c) /\ Queued(c)) \/ (Addressed /\ Rest(code))
<1>1. ~Beginning
  <2>1. Head(script) \in CallsMade
    BY Peel DEF I2cTypeOK
  <2>2. Head(Head(script).ops) = Clear
    BY <2>1, CallsAreCalls, CallBegins DEF At
  <2> QED BY <2>2, Kind DEF Beginning
<1>2. ASSUME NEW c, Loading(c) PROVE Queued(c)
  BY <1>2 DEF Loading, LastByte, TwoBytes, AtPush
<1>3. ~Writing
  <2>1. ASSUME Writing PROVE FALSE
    <3>1. code \in Seq(Accesses) /\ Len(code) \in Nat /\ Len(code) >= 2 /\ 1 \in 1..Len(code) /\ Head(code) = code[1]
      BY <2>1, Peel DEF Writing, WriteTail
    <3>2. code[1].k \in {"check", "wait", "push"}
      BY <2>1, <3>1 DEF Writing, WriteTail
    <3> QED BY <3>1, <3>2
  <2> QED BY <2>1
<1>4. ~Waiting /\ ~Checking /\ ~LastCheck
  BY Kind DEF Waiting, Checking, LastCheck, At
<1>5. ~ReadWaits /\ ~ReadPops
  <2>1. ASSUME NEW n \in Nat, n = Len(code), ReadTail(code), n > 1, n % 3 # 1 PROVE FALSE
    <3>1. Head(code) = ReadAt(n - 1)
      BY <2>1, ReadPeel
    <3>2. n - 1 # 0 /\ (n - 1) % 3 # 0
      BY <2>1
    <3>3. ReadAt(n - 1) = Pop \/ ReadAt(n - 1) = WaitIdle
      BY <2>1, <3>2 DEF ReadAt
    <3> QED BY <3>1, <3>3, Kind
  <2>2. ReadTail(code) => Len(code) \in Nat
    BY DEF ReadTail
  <2>3. \A n \in Nat : (n >= 3 /\ n % 3 = 0) \/ n % 3 = 2 => n > 1 /\ n % 3 # 1
    OBVIOUS
  <2> QED BY <2>1, <2>2, <2>3 DEF ReadWaits, ReadPops
<1>6. Addressed => Rest(code)
  BY DEF Addressed, AfterAddress, AtPush
<1>7. ~CallOver
  BY DEF CallOver
<1> QED BY <1>1, <1>2, <1>3, <1>4, <1>5, <1>6, <1>7 DEF AtEachAccess

\* The device while the program goes on.
LEMMA DeviceWaits ==
  ASSUME CallsFit, I2cTypeOK, script # <<>>, AtEachAccess, SlaveInv, Cpu, code # <<>>
  PROVE  SlaveInv'
<1>1. UNCHANGED <<st, op, cur, slave, script>>
  BY OneAccess, CpuKeepsScript DEF CpuClear, CpuPush, CpuCmd, CpuWait, CpuPop, CpuCheck, CpuExpect
<1>2. ReadsNext => st = "idle" /\ cmd = {}
  BY Waits DEF ReadsNext, Waiting
<1>3. ASSUME slave.mode = "rd" PROVE Sends'
  <2> SUFFICES ASSUME Sends PROVE Sends'
    BY <1>3 DEF SlaveInv
  <2>1. CASE ReadsNext /\ tx = <<>> /\ NoErr
    <3>1. Checking' /\ code' = Tail(code) /\ flags' = flags
      BY <2>1, WaitingStep, Waits DEF ReadsNext, Waiting
    <3> QED BY <2>1, <3>1 DEF Sends, ReadsNext, NoErr
  <2>2. CASE Checking /\ Rest(Tail(code)) /\ NoErr
    <3>1. Addressed' /\ code' = Tail(code)
      BY <2>2, CheckingStep, Checks DEF Checking
    <3> QED BY <2>2, <3>1 DEF Sends
  <2>3. CASE Addressed /\ Rest(code)
    <3>1. ReadWaits' /\ st' = "idle" /\ rx' = <<>>
      BY <2>3, ReadBegun DEF Addressed, Rest, Quiet
    <3>2. cmd' # {}
      BY <3>1, CommandBits DEF ReadWaits, Reading, OneRead
    <3> QED BY <3>1, <3>2 DEF Sends
  <2>4. CASE ReadWaits /\ (Len(code) = 3 => (st = "idle" /\ cmd # {}) \/ st = "byte")
    <3>1. ReadPops' /\ code' = Tail(code) /\ UNCHANGED <<st, cmd>>
      BY <2>4, ReadWaitsStep
    <3>2. st = "idle" /\ cmd = {}
      BY <3>1 DEF ReadPops
    <3>3. Len(code) \in Nat /\ Len(code) >= 3 /\ Len(code) # 3 /\ Len(code') = Len(code) - 1
      BY <2>4, <3>1, <3>2, Peel DEF ReadWaits, I2cTypeOK
    <3> QED BY <3>1, <3>3 DEF Sends
  <2>5. CASE ReadPops /\ Len(code) > 2
    <3>1. Addressed' /\ ReadTail(code') /\ code' = Tail(code)
      BY <2>5, ReadPopsStep
    <3>2. Len(code) \in Nat /\ Len(code) % 3 = 2 /\ Len(code') = Len(code) - 1
      BY <2>5, <3>1, Peel DEF ReadPops, I2cTypeOK
    <3>3. Len(code') >= 4 /\ Len(code') % 3 = 1
      BY <2>5, <3>2
    <3> QED BY <3>1, <3>3 DEF Sends, Rest
  <2> QED BY <2>1, <2>2, <2>3, <2>4, <2>5 DEF Sends
<1>4. ASSUME st = "start" \/ (st = "idle" /\ "start" \in cmd'), Head(tx') % 2 = 1
      PROVE  Len(tx') = 1 /\ ReadsNext'
  <2>1. ASSUME Head(tx) % 2 = 1, cmd' = cmd \/ st = "start" PROVE FALSE
    <3>1. st = "start" \/ (st = "idle" /\ "start" \in cmd)
      BY <1>4, <2>1
    <3>2. ReadsNext
      BY <2>1, <3>1 DEF SlaveInv, AsksToSend
    <3> QED BY <1>2, <3>1, <3>2
  <2>2. CASE Head(code).k = "push"
    <3>1. AtPush(code) /\ cmd' = cmd /\ (tx # <<>> => Head(tx') = Head(tx)) /\ ~(st = "idle" /\ cmd # {})
      BY <2>2, Pushes, OneAccess DEF AtPush
    <3>2. st = "start"
      BY <1>4, <3>1
    <3>3. tx # <<>>
      <4>1. Writing \/ Waiting
        BY <1>1, <3>2 DEF AtEachAccess, Beginning, Loading, Checking, Addressed, ReadWaits, Reading, ReadPops,
                     LastCheck, CallOver, Clean, BusLost, Quiet
      <4> QED BY <3>2, <4>1 DEF Writing, Waiting, Addressing
    <3> QED BY <1>4, <2>1, <3>1, <3>3
  <2>3. CASE Head(code).k = "cmd"
    <3>1. CpuCmd /\ cmd' = Head(code).c /\ tx' = tx
      BY <2>3, OneAccess DEF CpuCmd
    <3>2. st = "idle"
      BY <1>4, <2>1, <3>1
    <3>3. ASSUME NEW c \in {Whole, Open}, Loading(c), Queued(c)
          PROVE  Len(tx') = 1 /\ ReadsNext'
      <4>1. Fits(Head(tx), Len(tx), c, code)
        BY <3>3 DEF Queued
      <4>2. Len(tx) = 1 /\ c = Open /\ Rest(Tail(Tail(Tail(code))))
        BY <1>4, <3>1, <4>1 DEF Fits, FitsCall
      <4>3. Waiting' /\ code' = Tail(code)
        BY <3>1, <3>3, <4>2, LoadingStep, CommandBits DEF CpuCmd, Step
      <4> QED BY <3>1, <4>2, <4>3 DEF ReadsNext
    <3>4. CASE Addressed /\ Rest(code)
      <4>1. ReadWaits' /\ st' = "idle"
        BY <3>2, <3>4, RestStep, <1>1 DEF Addressed
      <4>2. "start" \notin cmd'
        BY <4>1, CommandBits DEF ReadWaits, Reading
      <4> QED BY <1>4, <3>2, <4>2
    <3> QED BY <2>3, <3>3, <3>4, Commanded
  <2>4. CASE Head(code).k \notin {"push", "cmd"}
    <3>1. tx' = tx /\ cmd' = cmd
      BY <2>4, OneAccess DEF CpuClear, CpuWait, CpuPop, CpuCheck, CpuExpect
    <3> QED BY <1>4, <2>1, <3>1
  <2> QED BY <2>2, <2>3, <2>4
<1>5. ASSUME st = "byte", "read" \notin op, slave.mode = "addr", cur % 2 = 1 PROVE FALSE
  BY <1>2, <1>5 DEF SlaveInv, AsksToSend
<1>6. st = "ack" /\ "read" \notin op => slave.mode # "addr"
  BY DEF SlaveInv, AsksToSend
<1> QED BY <1>1, <1>3, <1>4, <1>5, <1>6 DEF SlaveInv, AsksToSend

LEMMA I2cStep ==
  ASSUME CallsFit, I2cInv, Cpu \/ Engine
  PROVE  I2cInv'
<1>0. I2cTypeOK /\ Meets
  BY LineFree DEF I2cInv
<1>1. CASE script = <<>>
  <2>1. code = <<>> /\ st = "idle" /\ cmd = {}
    BY <1>1 DEF I2cInv
  <2>2. ~Engine
    BY <2>1, EngineRests
  <2>3. ~Cpu
    BY <1>1, <2>1 DEF Cpu, CpuClear, CpuPush, CpuCmd, CpuWait, CpuPop, CpuCheck, CpuExpect, Return, Step, Now
  <2> QED BY <2>2, <2>3
<1>2. CASE script # <<>> /\ Engine
  <2>1. I2cTypeOK' /\ UNCHANGED <<script, code>> /\ script' # <<>>
    BY <1>0, <1>2, EngineTypes, OneStep DEF cpuVars
  <2>2. st = "idle" => cmd # {}
    BY <1>2, EngineRests
  <2>3. Writing \/ Waiting \/ ReadWaits
    <3>1. ~Quiet
      BY <2>2 DEF Quiet
    <3> QED BY <1>2, <2>2, <3>1 DEF I2cInv, AtEachAccess, Beginning, Loading, Checking, Addressed, ReadPops,
                                  LastCheck, CallOver, Clean, BusLost
  <2>3a. SlaveInv
    BY <1>2 DEF I2cInv
  <2>3b. ReadsNext => ReadsNext'
    BY <1>0, <1>2, <2>1, WaitingOn DEF ReadsNext
  <2>4. CASE Writing
    <3>1. Writing' /\ Addressing(Whole, Len(code) - 2) /\ Len(code) - 2 \in Nat
      BY <1>0, <1>2, <2>4, WritingOn
    <3>2. SlaveInv'
      BY <1>0, <1>2, <2>3a, <2>3b, <3>1, DeviceAddressed
    <3> QED BY <2>1, <3>1, <3>2 DEF I2cInv, AtEachAccess
  <2>5. CASE Waiting
    <3>1. Waiting' /\ Addressing(Open, 0)
      BY <1>0, <1>2, <2>5, WaitingOn
    <3>2. SlaveInv'
      BY <1>0, <1>2, <2>3a, <2>3b, <3>1, DeviceAddressed
    <3> QED BY <2>1, <3>1, <3>2 DEF I2cInv, AtEachAccess
  <2>6. CASE ReadWaits
    <3>1. ReadWaits'
      BY <1>0, <1>2, <2>6, ReadWaitsOn
    <3>2. SlaveInv'
      BY <1>0, <1>2, <2>3a, <2>6, <3>1, DeviceRead
    <3> QED BY <2>1, <3>1, <3>2 DEF I2cInv, AtEachAccess
  <2> QED BY <2>3, <2>4, <2>5, <2>6
<1>3. CASE script # <<>> /\ Cpu /\ code # <<>>
  <2>1. I2cTypeOK' /\ UNCHANGED script
    BY <1>0, <1>3, CpuTypes, CpuKeepsScript
  <2>2. AtEachAccess'
    <3>1. CASE Beginning
      <4>1. Head(script) \in CallsMade
        BY <1>0, <1>3, Peel DEF I2cTypeOK
      <4>3. At(Head(script).ops, Clear) /\ Begins(Tail(Head(script).ops), Head(script).x, <<>>, <<>>)
        BY <4>1, CallsAreCalls, CallBegins
      <4>2. \E c \in {Whole, Open} : Loading(c)'
        BY <1>0, <1>3, <3>1, <4>3, BeginningStep
      <4> QED BY <4>2 DEF AtEachAccess
    <3>2. ASSUME NEW c \in {Whole, Open}, Loading(c) PROVE AtEachAccess'
      <4>1. Loading(c)' \/ Writing' \/ Waiting'
        BY <1>0, <1>3, <3>2, LoadingStep DEF Loading
      <4> QED BY <4>1 DEF AtEachAccess
    <3>3. CASE Writing
      BY <1>0, <1>3, <3>3, WritingStep DEF AtEachAccess
    <3>4. CASE Waiting
      BY <1>0, <1>3, <3>4, WaitingStep DEF AtEachAccess
    <3>5. CASE Checking
      BY <1>0, <1>3, <3>5, CheckingStep DEF AtEachAccess
    <3>6. CASE Addressed
      BY <1>0, <1>3, <3>6, AddressedStep DEF AtEachAccess
    <3>7. CASE ReadWaits
      BY <1>0, <1>3, <3>7, ReadWaitsStep DEF AtEachAccess
    <3>8. CASE ReadPops
      BY <1>0, <1>3, <3>8, ReadPopsStep DEF AtEachAccess
    <3>9. CASE LastCheck
      BY <1>0, <1>3, <3>9, LastCheckStep DEF AtEachAccess
    <3>10. ~CallOver
      BY <1>3 DEF CallOver
    <3> QED BY <1>3, <3>1, <3>2, <3>3, <3>4, <3>5, <3>6, <3>7, <3>8, <3>9, <3>10 DEF I2cInv, AtEachAccess
  <2>3. SlaveInv'
    BY <1>0, <1>3, DeviceWaits DEF I2cInv
  <2> QED BY <1>3, <2>1, <2>2, <2>3 DEF I2cInv
<1>4. CASE script # <<>> /\ Cpu /\ code = <<>>
  <2>1. Return
    BY <1>4 DEF Cpu, CpuClear, CpuPush, CpuCmd, CpuWait, CpuPop, CpuCheck, CpuExpect, Step, Now
  <2>2. CallOver
    BY <1>0, <1>4, NothingLeft DEF I2cInv
  <2>3. SlaveInv
    BY <1>4 DEF I2cInv
  <2> QED BY <1>0, <1>4, <2>1, <2>2, <2>3, ReturnStep
<1> QED BY <1>1, <1>2, <1>3, <1>4

\* The calls the programs make are calls of i2c.h in the sense of CallsFit.
LEMMA ProgramsCall ==
  ASSUME NEW a \in Nat, NEW r \in Nat, NEW buf \in Seq(Nat), NEW x
  PROVE  /\ (MayRefuse(a, x) => Len(buf) <= FIFO_DEPTH) => IsCall(CallWrite(a, buf, x))
         /\ (MayRefuse(a, x) => Len(buf) < FIFO_DEPTH) => IsCall(CallWriteRegs(a, r, buf, x))
         /\ buf # <<>> => IsCall(CallReadRegs(a, r, buf, x)) /\ IsCall(CallRead(a, buf, x))
<1>1. ASSUME MayRefuse(a, x) => Len(buf) <= FIFO_DEPTH
      PROVE  IsCall(CallWrite(a, buf, x))
  <2>1. CallWrite(a, buf, x).ops = i2c_write(a, buf) /\ CallWrite(a, buf, x).x = x
    BY Zenon DEF CallWrite, Call
  <2> QED BY <1>1, <2>1, Zenon DEF IsCall
<1>2. ASSUME MayRefuse(a, x) => Len(buf) < FIFO_DEPTH
      PROVE  IsCall(CallWriteRegs(a, r, buf, x))
  <2>1. CallWriteRegs(a, r, buf, x).ops = i2c_write_regs(a, r, buf) /\ CallWriteRegs(a, r, buf, x).x = x
    BY Zenon DEF CallWriteRegs, Call
  <2> QED BY <1>2, <2>1, Zenon DEF IsCall
<1>3. ASSUME buf # <<>>
      PROVE  IsCall(CallReadRegs(a, r, buf, x)) /\ IsCall(CallRead(a, buf, x))
  <2>1. Len(buf) \in Nat \ {0}
    BY <1>3, Empty
  <2>2. CallReadRegs(a, r, buf, x).ops = i2c_read_regs(a, r, Len(buf)) /\ CallRead(a, buf, x).ops = i2c_read(a, Len(buf))
    BY CallFields DEF CallReadRegs, CallRead
  <2> QED BY <2>1, <2>2, Zenon DEF IsCall
<1> QED BY <1>1, <1>2, <1>3

\* i2c.h, for calls whose reads take a byte at least (IsCall): where each access of a call finds
\* the engine, the FIFOs and the device, though the device be absent, busy, or lost with the bus
\* (i2c_check_err, the drain of ST_ACK, the STOP of the last read), is inductive. The device sends
\* only while it is read (SlaveInv), so that no START, STOP or byte of the engine meets its 0.
THEOREM I2cInvariant == ASSUME CallsFit PROVE Spec => []I2cInv
<1>1. Init => I2cInv
  BY I2cInit
<1>2. I2cInv /\ [Cpu \/ Engine]_vars => I2cInv'
  <2>1. CASE UNCHANGED vars
    BY <2>1 DEF vars, I2cInv, I2cTypeOK, AtEachAccess, Beginning, Loading, Queued, LastByte, TwoBytes, Fits,
                Writing, Waiting, Checking, Addressed, ReadWaits, ReadPops, LastCheck, CallOver,
                Clean, BusLost, Quiet, NoErr, OneRead, Addressing, Reading, Over, Room, Answers,
                SlaveInv, AsksToSend, Sends, ReadsNext
  <2> QED BY <2>1, I2cStep
<1> QED BY <1>1, <1>2, PTL DEF Spec

\* CleanReturn for every FIFO depth and every sequence of calls of i2c.h whose reads take a byte at
\* least: each returns with the engine idle, SDA released by the engine and by the device, and
\* nothing in either FIFO (but for the TX FIFO of a call that lost the bus).
THEOREM ReturnsClean == ASSUME CallsFit PROVE Spec => []CleanReturn
<1>1. I2cInv => CleanReturn
  <2> SUFFICES ASSUME I2cInv, Returned
               PROVE  ~BUSY /\ ~bus /\ Sda(slave) = 1 /\ cmd = {} /\ (tx = <<>> \/ rc = "arb") /\ rx = <<>>
    BY DEF CleanReturn
  <2>1. script # <<>> /\ code = <<>> /\ I2cTypeOK /\ AtEachAccess
    BY DEF I2cInv, Returned
  <2>2. CallOver
    BY <2>1, NothingLeft
  <2>3. Sda(slave) = 1
    <3>1. slave.mode # "rd"
      BY <2>1, NothingSent DEF I2cInv, SlaveInv
    <3> QED BY <3>1 DEF Sda
  <2> QED BY <2>2, <2>3 DEF CallOver, Clean, BusLost, Quiet, BUSY
<1> QED BY <1>1, I2cInvariant, PTL

-----------------------------------------------------------------------------
(***************************************************************************)
(* The frames. Where a call has one, what the bus has carried, the byte    *)
(* being sent, the bytes queued and those still to be pushed are the frame *)
(* from its beginning, each behind the other.                              *)
(***************************************************************************)
\* The bus carries one more.
LEMMA Carries ==
  ASSUME NEW n \in Nat, n = Len(wire), wire \in Seq(Nat), NEW b \in Nat, wire' = Append(wire, b)
  PROVE  /\ wire' \in Seq(Nat) /\ Len(wire') = n + 1 /\ wire'[n + 1] = b
         /\ \A i \in 1..n : wire'[i] = wire[i]
OBVIOUS

LEMMA CarriesFrame ==
  ASSUME NEW n \in Nat, n = Len(wire), wire \in Seq(Nat), NEW b \in Nat, wire' = Append(wire, b),
         Frame' = Frame, Sent(n), b = Frame[n + 1]
  PROVE  Len(wire') = n + 1 /\ Sent(n + 1)'
<1>1. /\ Len(wire') = n + 1 /\ wire'[n + 1] = b
      /\ \A i \in 1..n : wire'[i] = wire[i]
  BY Carries
<1>2. \A i \in 1..n + 1 : i \in 1..n \/ i = n + 1
  OBVIOUS
<1> QED BY <1>1, <1>2 DEF Sent

LEMMA Closes ==
  ASSUME NEW n \in Nat, n = Len(wire), wire \in Seq(Nat), wire' = Append(wire, STOP), Frame' = Frame, Sent(n)
  PROVE  Closed(n)'
<1>0. STOP \in Nat
  BY DEF STOP
<1>1. /\ Len(wire') = n + 1 /\ wire'[n + 1] = STOP
      /\ \A i \in 1..n : wire'[i] = wire[i]
  BY <1>0, Carries
<1> QED BY <1>1 DEF Sent, Closed

\* The first byte queued is the next of the frame; a byte behind the queue.
LEMMA Dequeues ==
  ASSUME NEW q \in Nat, tx \in Seq(Nat), tx # <<>>, tx' = Tail(tx), Frame' = Frame, InQueue(q)
  PROVE  Head(tx) = Frame[q + 1] /\ Head(tx) \in Nat /\ InQueue(q + 1)' /\ Len(tx') = Len(tx) - 1 /\ Len(tx) \in Nat
<1>1. /\ Len(tx) \in Nat \ {0} /\ Len(tx') = Len(tx) - 1 /\ Head(tx) = tx[1] /\ Head(tx) \in Nat
      /\ \A i \in 1..Len(tx') : tx'[i] = tx[i + 1]
  BY Peel
<1>2. Head(tx) = Frame[q + 1]
  BY <1>1 DEF InQueue
<1>3. ASSUME NEW i \in 1..Len(tx') PROVE tx'[i] = Frame[q + 1 + i]
  <2>1. i + 1 \in 1..Len(tx) /\ q + (i + 1) = q + 1 + i
    BY <1>1
  <2> QED BY <1>1, <2>1 DEF InQueue
<1> QED BY <1>1, <1>2, <1>3 DEF InQueue

LEMMA Enqueues ==
  ASSUME NEW q \in Nat, NEW b \in Nat, tx \in Seq(Nat), tx' = Append(tx, b), Frame' = Frame, InQueue(q),
         b = Frame[q + Len(tx) + 1]
  PROVE  InQueue(q)' /\ Len(tx') = Len(tx) + 1
<1> DEFINE n == Len(tx)
<1>1. n \in Nat /\ Len(tx') = n + 1 /\ tx'[n + 1] = b /\ \A i \in 1..n : tx'[i] = tx[i]
  OBVIOUS
<1> HIDE DEF n
<1>2. \A i \in 1..n + 1 : i \in 1..n \/ i = n + 1
  BY <1>1
<1>3. b = Frame[q + (n + 1)]
  BY <1>1 DEF n
<1>4. \A i \in 1..n : tx[i] = Frame[q + i]
  BY DEF InQueue, n
<1>5. \A i \in 1..n + 1 : tx'[i] = Frame[q + i]
  BY <1>1, <1>2, <1>3, <1>4
<1> QED BY <1>1, <1>5 DEF InQueue, n

\* The engine works through the bytes it has, or gives up and stops.
LEMMA SendingStep ==
  ASSUME NEW c \in {Whole, Open}, NEW k \in Nat, NEW p \in Nat, I2cTypeOK, WireTypeOK, Engine, Meets,
         Addressing(c, k), k > 0 => code # <<>> /\ Head(code).k = "push",
         Sending(p), p < Len(Frame)
  PROVE  Sending(p)'
<1> USE CommandBits
<1>0. UNCHANGED script /\ tx \in Seq(Nat) /\ wire \in Seq(Nat) /\ Len(wire) \in Nat /\ cur \in Nat
  BY OneStep DEF cpuVars, I2cTypeOK, WireTypeOK
<1>a. Frame' = Frame
  BY <1>0 DEF Frame
<1> SUFFICES ASSUME NEW n \in Nat, n = Len(wire)
             PROVE  Sending(p)'
  BY <1>0
<1>b. START \in Nat /\ STOP \in Nat
  BY DEF START, STOP
<1>1. CASE "arb" \in flags
  <2>1. "arb" \in flags'
    BY <1>1, OneStep DEF Consume, StartDone, ReadByte, ReadAck, StopDone, Done, WriteByte, LoseArbitration, WriteAck
  <2> QED BY <2>1 DEF Sending
<1>2. CASE "arb" \notin flags /\ st = "idle"
  <2>1. cmd = c /\ Starts(p)
    <3>1. cmd # {}
      BY <1>2, EngineRests
    <3> QED BY <1>2, <3>1 DEF Addressing, Sending
  <2>2. st' = "start" /\ UNCHANGED <<tx, wire>>
    BY <1>2, <2>1, OneStep DEF Consume
  <2>3. Starts(p)'
    BY <1>a, <2>1, <2>2 DEF Starts, Sent, InQueue
  <2> QED BY <2>2, <2>3 DEF Sending
<1>3. CASE "arb" \notin flags /\ st = "start"
  <2>1. op = c /\ tx # <<>> /\ Starts(p)
    BY <1>3 DEF Addressing, Sending
  <2>2. p = n + 1 + Len(tx) /\ Sent(n) /\ Frame[n + 1] = START /\ InQueue(n + 1)
    BY <2>1 DEF Starts
  <2>3. LoadByte /\ wire' = Append(wire, START)
    BY <1>3, <2>1, OneStep DEF StartDone
  <2>4. cur' = Head(tx) /\ tx' = Tail(tx) /\ st' = "byte"
    BY <2>3 DEF LoadByte
  <2>5. Len(wire') = n + 1 /\ Sent(n + 1)'
    BY <1>0, <1>a, <1>b, <2>2, <2>3, CarriesFrame
  <2>6. Head(tx) = Frame[n + 1 + 1] /\ InQueue(n + 1 + 1)' /\ Len(tx') = Len(tx) - 1 /\ Len(tx) \in Nat
    BY <1>0, <1>a, <2>1, <2>2, <2>4, Dequeues
  <2>7. p = Len(wire') + 1 + Len(tx')
    BY <2>2, <2>5, <2>6
  <2> QED BY <1>a, <2>4, <2>5, <2>6, <2>7 DEF Sending
<1>4. CASE "arb" \notin flags /\ st = "byte"
  <2>1. op = c /\ p = n + 1 + Len(tx) /\ Sent(n) /\ cur = Frame[n + 1] /\ InQueue(n + 1)
    BY <1>4 DEF Addressing, Sending, Over
  <2>2. ASSUME NEW busy \in BOOLEAN, WriteByte(busy)
        PROVE  Sending(p)'
    <3>1. st' = "ack" /\ wire' = Append(wire, cur) /\ tx' = tx
      BY <2>2 DEF WriteByte
    <3>2. Len(wire') = n + 1 /\ Sent(n + 1)'
      BY <1>0, <1>a, <2>1, <3>1, CarriesFrame
    <3>3. InQueue(n + 1)'
      BY <1>a, <2>1, <3>1 DEF InQueue
    <3>4. p = Len(wire') + Len(tx')
      BY <2>1, <3>1, <3>2
    <3> QED BY <3>1, <3>2, <3>3, <3>4 DEF Sending
  <2>3. ASSUME LoseArbitration
        PROVE  Sending(p)'
    BY <2>3 DEF LoseArbitration, Sending
  <2>4. ~ReadByte
    BY <2>1 DEF ReadByte
  <2> QED BY <1>4, <2>2, <2>3, <2>4, OneStep
<1>5. CASE "arb" \notin flags /\ st = "ack"
  <2>1. /\ op = c /\ bus /\ ("nack" \in flags <=> byteNack) /\ cmd = {}
        /\ p = n + Len(tx) /\ Sent(n) /\ InQueue(n)
    BY <1>5 DEF Addressing, Sending, Over
  <2>2. WriteAck /\ UNCHANGED <<flags, wire, bus, cmd>>
    BY <1>5, <2>1, OneStep DEF ReadAck, WriteAck
  <2>3. Len(wire') = n /\ Sent(n)' /\ Len(tx) \in Nat
    BY <1>0, <1>a, <2>1, <2>2 DEF Sent
  <2>4. CASE byteNack /\ st' = "stop"
    <3>1. n <= p
      BY <2>1, <2>3
    <3> QED BY <2>1, <2>2, <2>3, <2>4, <3>1 DEF Sending
  <2>5. CASE tx # <<>> /\ LoadByte
    <3>1. cur' = Head(tx) /\ tx' = Tail(tx) /\ st' = "byte"
      BY <2>5 DEF LoadByte
    <3>2. Head(tx) = Frame[n + 1] /\ InQueue(n + 1)' /\ Len(tx') = Len(tx) - 1
      BY <1>0, <1>a, <2>1, <2>5, <3>1, Dequeues
    <3>3. p = Len(wire') + 1 + Len(tx')
      BY <2>1, <2>3, <3>2
    <3> QED BY <1>a, <2>3, <3>1, <3>2, <3>3 DEF Sending
  <2>6. CASE ~byteNack /\ tx = <<>> /\ st' = (IF "stop" \in op THEN "stop" ELSE "done")
    <3>1. n = p
      BY <2>1, <2>3, <2>6
    <3> QED BY <2>1, <2>2, <2>3, <2>6, <3>1 DEF Sending
  <2> QED BY <2>2, <2>4, <2>5, <2>6 DEF WriteAck
<1>6. CASE "arb" \notin flags /\ st = "stop"
  <2>1. cmd = {} /\ n <= p /\ Sent(n) /\ ("nack" \notin flags => n = p)
    BY <1>6 DEF Addressing, Sending
  <2>2. st' = "done" /\ bus' = FALSE /\ wire' = Append(wire, STOP) /\ UNCHANGED <<cmd, flags>>
    BY <1>6, OneStep DEF StopDone
  <2>3. Closed(n)'
    BY <1>0, <1>a, <2>1, <2>2, Closes
  <2>4. CASE "nack" \in flags
    <3>1. n < Len(Frame')
      <4>1. Len(Frame) = Len(Frame')
        BY <1>a
      <4> QED BY <2>1, <4>1
    <3>2. Refused'
      BY <2>3, <3>1 DEF Refused
    <3> QED BY <2>1, <2>2, <2>4, <3>2 DEF Sending
  <2>5. CASE "nack" \notin flags
    BY <2>1, <2>2, <2>3, <2>5 DEF Sending
  <2> QED BY <2>4, <2>5
<1>7. CASE "arb" \notin flags /\ st = "done"
  <2>1. cmd = {} /\ IF "nack" \in flags THEN Refused ELSE IF bus THEN n = p /\ Sent(p) ELSE Closed(p)
    BY <1>7 DEF Sending
  <2>2. st' = "idle" /\ UNCHANGED <<cmd, flags, bus, wire>>
    BY <1>7, OneStep DEF Done
  <2>3. (Refused => Refused') /\ (Sent(p) => Sent(p)') /\ (Closed(p) => Closed(p)')
    BY <1>a, <2>2 DEF Refused, Closed, Sent
  <2> QED BY <2>1, <2>2, <2>3 DEF Sending
<1> QED BY <1>1, <1>2, <1>3, <1>4, <1>5, <1>6, <1>7, OneStep

\* What a device drives is a byte.
LEMMA DrivesByte == WireTypeOK => SlaveDrives \in Nat
<1> SUFFICES ASSUME WireTypeOK PROVE SlaveDrives \in Nat
  OBVIOUS
<1>1. slave.ptr \in 0..NREGS - 1 /\ slave.regs \in [0..NREGS - 1 -> Nat] /\ slave.bit = 0
  BY DEF WireTypeOK
<1>2. slave.regs[slave.ptr] \in Nat
  BY <1>1
<1>3. 255 \in Nat
  OBVIOUS
<1>4. SlaveDrives = slave.regs[slave.ptr] \/ SlaveDrives = 255
  BY <1>1, Zenon DEF SlaveDrives
<1> QED BY <1>2, <1>3, <1>4

\* The byte read goes on the bus and into the FIFO; the STOP of the last comes behind it.
LEMMA ReadInStep ==
  ASSUME NEW c \in {{"read"}, LastRead}, NEW n \in Nat, WireTypeOK, Engine, Meets, Reading(c), InRx(n)
  PROVE  InRx(n)' /\ \A i \in 1..n : wire'[i] = wire[i]
<1>0. wire \in Seq(Nat) /\ rx \in Seq(Nat) /\ slave.ptr \in 0..NREGS - 1 /\ slave.regs \in [0..NREGS - 1 -> Nat]
  BY DEF WireTypeOK
<1>a. SlaveDrives \in Nat /\ STOP \in Nat
  BY DrivesByte DEF STOP
<1>b. c # {} /\ (rx = <<>> => Len(wire) = n) /\ (rx # <<>> /\ bus => Len(wire) = n + 1 /\ wire[n + 1] = Head(rx))
  BY CommandBits DEF InRx
<1>1. CASE st = "idle"
  <2>1. UNCHANGED <<rx, wire>>
    BY <1>1, OneStep DEF Consume
  <2>2. rx = <<>>
    BY <1>1, <1>b, EngineRests DEF Reading
  <2> QED BY <1>b, <2>1, <2>2 DEF InRx
<1>2. CASE st = "byte"
  <2>1. op = c /\ bus /\ rx = <<>>
    BY <1>2 DEF Reading
  <2>2. ReadByte
    BY <1>2, <2>1, CommandBits, OneStep DEF WriteByte, LoseArbitration
  <2>3. Len(rx) = 0 /\ FIFO_DEPTH # 0
    BY <2>1, I2cAssumption
  <2>4. rx' = Append(rx, SlaveDrives) /\ wire' = Append(wire, SlaveDrives) /\ bus' = bus
    BY <2>2, <2>3 DEF ReadByte
  <2>5. /\ Len(wire') = n + 1 /\ wire'[n + 1] = SlaveDrives
        /\ \A i \in 1..n : wire'[i] = wire[i]
    BY <1>0, <1>a, <1>b, <2>1, <2>4, Carries
  <2>6. rx' # <<>> /\ Head(rx') = SlaveDrives
    BY <1>0, <1>a, <2>1, <2>4, Queue
  <2> QED BY <2>1, <2>4, <2>5, <2>6 DEF InRx
<1>3. CASE st = "ack"
  <2>1. UNCHANGED <<rx, wire, bus>>
    BY <1>3, OneStep DEF ReadAck, WriteAck, Reading
  <2>2. rx' # <<>> /\ bus' /\ rx # <<>> /\ bus
    BY <1>3, <2>1 DEF Reading, OneRead
  <2> QED BY <1>b, <2>1, <2>2 DEF InRx
<1>4. CASE st = "stop"
  <2>1. bus /\ rx # <<>>
    BY <1>4 DEF Reading, OneRead
  <2>2. rx' = rx /\ bus' = FALSE /\ wire' = Append(wire, STOP)
    BY <1>4, OneStep DEF StopDone
  <2>3. n + 1 \in Nat /\ Len(wire) = n + 1
    BY <1>b, <2>1
  <2>4. /\ Len(wire') = n + 1 + 1 /\ wire'[n + 1 + 1] = STOP
        /\ \A i \in 1..n + 1 : wire'[i] = wire[i]
    BY <1>0, <1>a, <2>2, <2>3, Carries
  <2>5. Len(wire') = n + 2 /\ wire'[n + 2] = STOP /\ wire'[n + 1] = Head(rx) /\ \A i \in 1..n : wire'[i] = wire[i]
    <3>1. n + 1 + 1 = n + 2 /\ n + 1 \in 1..n + 1
      OBVIOUS
    <3>2. Len(wire') = n + 2 /\ wire'[n + 2] = STOP
      BY <2>4, <3>1
    <3>3. wire'[n + 1] = Head(rx)
      BY <1>b, <2>1, <2>4, <3>1
    <3> QED BY <2>4, <3>2, <3>3
  <2> QED BY <2>1, <2>2, <2>5 DEF InRx
<1>5. CASE st = "done"
  <2>1. UNCHANGED <<rx, wire, bus>>
    BY <1>5, OneStep DEF Done
  <2> QED BY <2>1 DEF InRx
<1>6. st # "start"
  BY DEF Reading
<1> QED BY <1>1, <1>2, <1>3, <1>4, <1>5, <1>6, OneStep

\* A device stays one whatever the engine says to it.
LEMMA DeviceTypes ==
  ASSUME WireTypeOK, Engine, Meets
  PROVE  slave' \in [mode : {"idle", "addr", "wr", "rd"}, first : BOOLEAN, bit : {0}, ptr : 0..NREGS - 1,
                     regs : [0..NREGS - 1 -> Nat]]
<1> DEFINE D == [mode : {"idle", "addr", "wr", "rd"}, first : BOOLEAN, bit : {0}, ptr : 0..NREGS - 1,
                 regs : [0..NREGS - 1 -> Nat]]
<1>1. slave \in D /\ cur \in Nat
  BY DEF WireTypeOK
<1>2. ASSUME NEW b \in Nat PROVE b % NREGS \in 0..NREGS - 1
  BY I2cAssumption
<1>3. (slave.ptr + 1) % NREGS \in 0..NREGS - 1 /\ cur % NREGS \in 0..NREGS - 1
  <2>1. slave.ptr + 1 \in Nat
    BY <1>1, I2cAssumption
  <2>2. (slave.ptr + 1) % NREGS \in 0..NREGS - 1
    BY <1>2, <2>1
  <2> QED BY <1>1, <1>2, <2>2
<1>4. \A m \in {"idle", "addr", "wr", "rd"} :
        /\ [slave EXCEPT !.mode = m] \in D /\ [slave EXCEPT !.mode = m, !.bit = 0] \in D
        /\ [slave EXCEPT !.mode = m, !.first = TRUE, !.bit = 0] \in D
  BY <1>1
<1>5. slave.mode # "rd" => SlaveAfter(cur) \in D
  <2>1. [slave EXCEPT !.ptr = cur % NREGS, !.first = FALSE] \in D
    BY <1>1, <1>3
  <2>2. [slave EXCEPT !.regs[slave.ptr] = cur, !.ptr = (slave.ptr + 1) % NREGS] \in D
    BY <1>1, <1>3
  <2>3. [slave EXCEPT !.mode = IF cur \div 2 # SLAVE THEN "idle" ELSE IF cur % 2 = 1 THEN "rd" ELSE "wr"] \in D
    BY <1>4
  <2> HIDE DEF D
  <2> QED BY <1>1, <2>1, <2>2, <2>3, Zenon DEF SlaveAfter
<1>6. ASSUME NEW m \in BOOLEAN PROVE SlaveAfterRead(m) \in D
  <2>1. [slave EXCEPT !.ptr = (slave.ptr + 1) % NREGS] \in D
    BY <1>1, <1>3
  <2>2. [slave EXCEPT !.mode = "idle", !.bit = 0] \in D
    BY <1>4
  <2>3. slave \in D
    BY <1>1
  <2> HIDE DEF D
  <2>4. \/ SlaveAfterRead(m) = [slave EXCEPT !.mode = "idle", !.bit = 0]
        \/ SlaveAfterRead(m) = [slave EXCEPT !.ptr = (slave.ptr + 1) % NREGS]
        \/ SlaveAfterRead(m) = slave
    BY DEF SlaveAfterRead
  <2> QED BY <2>1, <2>2, <2>3, <2>4, Zenon
<1> HIDE DEF D
<1>7. \/ slave' = slave \/ (slave.mode # "rd" /\ slave' = SlaveAfter(cur)) \/ slave' = SlaveAfterRead("nack" \in op)
      \/ slave' = [slave EXCEPT !.mode = "addr", !.first = TRUE, !.bit = 0]
      \/ slave' = [slave EXCEPT !.mode = "idle", !.bit = 0]
  <2>1. \A busy \in BOOLEAN : WriteByte(busy) => slave.mode # "rd" /\ (slave' = slave \/ slave' = SlaveAfter(cur))
    BY DEF WriteByte, Meets
  <2>2. ReadByte => slave' = SlaveAfterRead("nack" \in op)
    BY DEF ReadByte
  <2>3. Consume \/ ReadAck \/ Done \/ WriteAck => slave' = slave
    BY DEF Consume, ReadAck, Done, WriteAck
  <2> QED BY <2>1, <2>2, <2>3, OneStep, Zenon
<1>8. SlaveAfterRead("nack" \in op) \in D
  <2>1. ("nack" \in op) \in BOOLEAN
    OBVIOUS
  <2> QED BY <1>6, <2>1, Zenon
<1>9. [slave EXCEPT !.mode = "addr", !.first = TRUE, !.bit = 0] \in D /\ [slave EXCEPT !.mode = "idle", !.bit = 0] \in D
  BY <1>4
<1>10. slave' \in D
  BY <1>1, <1>5, <1>7, <1>8, <1>9, Zenon
<1> QED BY <1>10 DEF D

LEMMA WireTypes ==
  ASSUME I2cTypeOK, WireTypeOK, Meets, Cpu \/ Engine
  PROVE  WireTypeOK'
<1>0. cur \in Nat /\ rx \in Seq(Nat) /\ got \in Seq(Nat) /\ wire \in Seq(Nat) /\ tx \in Seq(Nat)
  BY DEF I2cTypeOK, WireTypeOK
<1>1. CASE Engine
  <2>1. got' \in Seq(Nat)
    BY <1>0, <1>1, OneStep DEF cpuVars
  <2>2. cur' \in Nat
    <3>1. cur' = cur \/ (tx # <<>> /\ cur' = Head(tx))
      BY <1>1, OneStep DEF Consume, StartDone, ReadByte, ReadAck, StopDone, Done, WriteByte, LoseArbitration, WriteAck, LoadByte
    <3>2. tx # <<>> => Head(tx) \in Nat
      BY <1>0, Peel
    <3> QED BY <1>0, <3>1, <3>2
  <2>3. SlaveDrives \in Nat /\ START \in Nat /\ STOP \in Nat
    BY DrivesByte DEF START, STOP
  <2>4. \A s \in Seq(Nat) : \A b \in Nat : Append(s, b) \in Seq(Nat)
    OBVIOUS
  <2>5. rx' \in Seq(Nat)
    <3>1. rx' = rx \/ rx' = Append(rx, SlaveDrives)
      BY <1>1, OneStep DEF Consume, StartDone, ReadByte, ReadAck, StopDone, Done, WriteByte, LoseArbitration, WriteAck
    <3> QED BY <1>0, <2>3, <2>4, <3>1
  <2>6. wire' \in Seq(Nat)
    <3>1. wire' = wire \/ \E b \in {SlaveDrives, START, STOP, cur} : wire' = Append(wire, b)
      BY <1>1, OneStep DEF Consume, StartDone, ReadByte, ReadAck, StopDone, Done, WriteByte, LoseArbitration, WriteAck
    <3> QED BY <1>0, <2>3, <2>4, <3>1
  <2> QED BY <1>1, <2>1, <2>2, <2>5, <2>6, DeviceTypes DEF WireTypeOK
<1>2. CASE Cpu
  <2>1. UNCHANGED <<cur, slave>> /\ (wire' = wire \/ wire' = <<>>)
    BY <1>2 DEF Cpu, CpuClear, CpuPush, CpuCmd, CpuWait, CpuPop, CpuCheck, CpuExpect, Return
  <2>2. \/ UNCHANGED <<rx, got>>
        \/ rx' = rx /\ got' = <<>>
        \/ got' = Append(got, IF rx = <<>> THEN 0 ELSE Head(rx)) /\ rx' = IF rx = <<>> THEN rx ELSE Tail(rx)
    BY <1>2 DEF Cpu, CpuClear, CpuPush, CpuCmd, CpuWait, CpuPop, CpuCheck, CpuExpect, Return
  <2>3. <<>> \in Seq(Nat) /\ (rx # <<>> => Head(rx) \in Nat /\ Tail(rx) \in Seq(Nat))
    BY <1>0, Peel
  <2>4. rx' \in Seq(Nat) /\ got' \in Seq(Nat)
    <3>1. \A b \in Nat : Append(got, b) \in Seq(Nat)
      BY <1>0
    <3> QED BY <1>0, <2>2, <2>3, <3>1
  <2> QED BY <1>0, <2>1, <2>3, <2>4 DEF WireTypeOK
<1> QED BY <1>1, <1>2

(***************************************************************************)
(* The accesses of a call with a frame.                                    *)
(***************************************************************************)
Framed == I2cTypeOK /\ WireTypeOK /\ HasFrame /\ Frame \in Seq(Nat) /\ Data \in Seq(Nat)

\* A step that leaves the bus alone.
LEMMA Unmoved ==
  ASSUME UNCHANGED <<script, wire>>
  PROVE  /\ Frame' = Frame /\ Data' = Data
         /\ \A q : (Sent(q) => Sent(q)') /\ (Closed(q) => Closed(q)')
         /\ Refused => Refused'
         /\ got' = got => /\ Complete => Complete'
                          /\ \A h : Popped(h) => Popped(h)'
<1>1. Frame' = Frame /\ Data' = Data
  BY DEF Frame, Data
<1>2. \A q : (Sent(q) => Sent(q)') /\ (Closed(q) => Closed(q)')
  BY <1>1 DEF Sent, Closed
<1>3. Refused => Refused'
  BY <1>1, <1>2 DEF Refused
<1>4. ASSUME got' = got
      PROVE  (Complete => Complete') /\ \A h : Popped(h) => Popped(h)'
  BY <1>1, <1>2, <1>4 DEF Complete, Popped
<1> QED BY <1>1, <1>2, <1>3, <1>4

LEMMA FrameBeginsStep ==
  ASSUME Framed, IsFramed(Head(script)), FrameBegins, Cpu
  PROVE  \E c \in {Whole, Open} : FrameLoads(c)'
<1>1. script # <<>> /\ I2cTypeOK /\ Beginning /\ wire = <<>> /\ got = <<>> /\ Frame # <<>>
  BY DEF Framed, FrameBegins, HasFrame
<1>2. At(Head(script).ops, Clear) /\ Begins(Tail(Head(script).ops), Head(script).x, Frame, Data)
  BY FramedBegins DEF Frame, Data
<1>3. PICK c \in {Whole, Open} :
        /\ UNCHANGED <<script, wire, got>> /\ tx' = <<>>
        /\ Loading(c)'
        /\ \/ LastByte(c)' /\ Frame[1] = START /\ Frame[2] = Head(code').b /\ StartAt(Frame, Data, c, Tail(code'), 2)
           \/ /\ TwoBytes(c)' /\ Frame[1] = START /\ Frame[2] = Head(code').b /\ Frame[3] = Head(Tail(code')).b
              /\ StartAt(Frame, Data, c, Tail(Tail(code')), 3)
  <2>1. /\ UNCHANGED <<script, wire, got>> /\ tx' = <<>>
        /\ \E c \in {Whole, Open} :
              /\ Loading(c)'
              /\ \/ /\ LastByte(c)'
                    /\ Frame # <<>> => Frame[1] = START /\ Frame[2] = Head(code').b /\ StartAt(Frame, Data, c, Tail(code'), 2)
                 \/ /\ TwoBytes(c)'
                    /\ Frame # <<>> => /\ Frame[1] = START /\ Frame[2] = Head(code').b /\ Frame[3] = Head(Tail(code')).b
                                       /\ StartAt(Frame, Data, c, Tail(Tail(code')), 3)
    BY <1>1, <1>2, BeginningStep
  <2> QED BY <1>1, <2>1
<1>4. Frame' = Frame /\ Data' = Data
  BY <1>3, Unmoved
<1>5. Starts(1)'
  <2>1. Len(wire') = 0 /\ Len(tx') = 0 /\ 1 = Len(wire') + 1 + Len(tx') /\ Frame'[Len(wire') + 1] = START
    BY <1>1, <1>3, <1>4
  <2>2. Sent(0)' /\ InQueue(1)'
    BY <2>1 DEF Sent, InQueue
  <2> QED BY <2>1, <2>2 DEF Starts
<1>6. 1 + 1 = 2 /\ 1 + 2 = 3 /\ 1 \in Nat
  OBVIOUS
<1>7. FrameLoads(c)'
  BY <1>1, <1>3, <1>4, <1>5, <1>6 DEF FrameLoads
<1> QED BY <1>7

\* A byte queued before the command.
LEMMA StartsPush ==
  ASSUME Framed, AtPush(code), Cpu, NEW p \in Nat, Starts(p), Head(code).b = Frame[p + 1]
  PROVE  Starts(p + 1)'
<1>0. tx \in Seq(Nat) /\ Len(wire) \in Nat /\ Len(tx) \in Nat
  BY DEF Framed, I2cTypeOK, WireTypeOK
<1>1. /\ tx' = Append(tx, Head(code).b) /\ Head(code).b \in Nat /\ UNCHANGED <<script, wire>>
  BY Pushes DEF Framed
<1> SUFFICES ASSUME NEW n \in Nat, n = Len(wire) PROVE Starts(p + 1)'
  BY <1>0
<1>2. p = n + 1 + Len(tx) /\ Sent(n) /\ Frame[n + 1] = START /\ InQueue(n + 1)
  BY DEF Starts
<1>3. Frame' = Frame /\ Sent(n)'
  BY <1>1, <1>2, Unmoved
<1>4. InQueue(n + 1)' /\ Len(tx') = Len(tx) + 1
  BY <1>0, <1>1, <1>2, <1>3, Enqueues
<1>5. p + 1 = n + 1 + Len(tx')
  BY <1>0, <1>2, <1>4
<1> QED BY <1>1, <1>2, <1>3, <1>4, <1>5 DEF Starts

LEMMA FrameLoadsStep ==
  ASSUME NEW c \in {Whole, Open}, Framed, FrameLoads(c), Cpu
  PROVE  FrameLoads(c)' \/ FrameWrites' \/ FrameWaits'
<1>1. I2cTypeOK /\ script # <<>> /\ Loading(c) /\ got = <<>> /\ Whole # Open /\ c # {}
  BY CommandBits DEF Framed, HasFrame, FrameLoads
<1>2. PICK p \in Nat :
       /\ Starts(p)
       /\ \/ Queued(c) /\ StartAt(Frame, Data, c, code, p)
          \/ LastByte(c) /\ Head(code).b = Frame[p + 1] /\ StartAt(Frame, Data, c, Tail(code), p + 1)
          \/ /\ TwoBytes(c) /\ Head(code).b = Frame[p + 1] /\ Head(Tail(code)).b = Frame[p + 2]
             /\ StartAt(Frame, Data, c, Tail(Tail(code)), p + 2)
  BY DEF FrameLoads
<1>3. CASE Queued(c) /\ StartAt(Frame, Data, c, code, p)
  <2>1. code' = Tail(code) /\ cmd' = c /\ UNCHANGED <<st, tx, script, wire, got>>
    BY <1>3, Commands DEF Queued, AtStart
  <2>2. Frame' = Frame /\ Data' = Data
    BY <2>1, Unmoved
  <2>3. Starts(p)'
    BY <1>2, <2>1, <2>2 DEF Starts, Sent, InQueue
  <2>4. Sending(p)'
    BY <1>1, <2>1, <2>3 DEF Sending, Loading, Quiet
  <2>5. CASE c = Whole
    <3>1. Writing' /\ PushesAt(Frame', code', p)
      BY <1>1, <1>3, <2>1, <2>2, <2>5, LoadingStep DEF StartAt
    <3> QED BY <1>1, <2>1, <2>4, <3>1 DEF FrameWrites
  <2>6. CASE c = Open
    <3>1. Waiting' /\ AddressAt(Frame', Data', Tail(Tail(code')), p)
      BY <1>1, <1>3, <2>1, <2>2, <2>6, LoadingStep DEF StartAt
    <3> QED BY <1>1, <2>1, <2>4, <3>1 DEF FrameWaits
  <2> QED BY <2>5, <2>6
<1>4. CASE LastByte(c) /\ Head(code).b = Frame[p + 1] /\ StartAt(Frame, Data, c, Tail(code), p + 1)
  <2>1. AtPush(code)
    BY <1>4 DEF LastByte
  <2>2. code' = Tail(code) /\ UNCHANGED <<script, wire, got>>
    BY <1>1, <2>1, Pushes
  <2>3. Frame' = Frame /\ Data' = Data
    BY <2>2, Unmoved
  <2>4. Starts(p + 1)' /\ Loading(c)' /\ Queued(c)' /\ p + 1 \in Nat
    BY <1>1, <1>2, <1>4, <2>1, StartsPush, LoadingStep
  <2>5. StartAt(Frame, Data, c, code, p + 1)'
    BY <1>4, <2>2, <2>3
  <2>6. FrameLoads(c)'
    BY <1>1, <2>2, <2>4, <2>5 DEF FrameLoads
  <2> QED BY <2>6
<1>5. CASE /\ TwoBytes(c) /\ Head(code).b = Frame[p + 1] /\ Head(Tail(code)).b = Frame[p + 2]
           /\ StartAt(Frame, Data, c, Tail(Tail(code)), p + 2)
  <2>1. AtPush(code)
    BY <1>5 DEF TwoBytes
  <2>2. code' = Tail(code) /\ UNCHANGED <<script, wire, got>>
    BY <1>1, <2>1, Pushes
  <2>3. Frame' = Frame /\ Data' = Data
    BY <2>2, Unmoved
  <2>4. Starts(p + 1)' /\ Loading(c)' /\ LastByte(c)' /\ p + 1 \in Nat
    BY <1>1, <1>2, <1>5, <2>1, StartsPush, LoadingStep
  <2>5. p + 1 + 1 = p + 2
    OBVIOUS
  <2>6. Head(code').b = Frame'[p + 1 + 1] /\ StartAt(Frame', Data', c, Tail(code'), p + 1 + 1)
    BY <1>5, <2>2, <2>3, <2>5
  <2>7. FrameLoads(c)'
    BY <1>1, <2>2, <2>4, <2>6 DEF FrameLoads
  <2> QED BY <2>7
<1> QED BY <1>2, <1>3, <1>4, <1>5

\* A byte queued behind those the engine is sending.
LEMMA SendingPush ==
  ASSUME NEW k \in Nat, k > 0, Framed, AtPush(code), Addressing(Whole, k), Cpu, NEW p \in Nat, Sending(p),
         Head(code).b = Frame[p + 1]
  PROVE  Sending(p + 1)'
<1>0. tx \in Seq(Nat) /\ Len(wire) \in Nat /\ Len(tx) \in Nat /\ ~(st = "idle" /\ cmd # {})
  BY OneAccess DEF Framed, I2cTypeOK, WireTypeOK, AtPush
<1>1. /\ tx' = Append(tx, Head(code).b) /\ Head(code).b \in Nat
      /\ UNCHANGED <<st, op, cur, byteNack, bus, cmd, rx, flags, slave, script, wire, got>>
  BY Pushes DEF Framed
<1> SUFFICES ASSUME NEW n \in Nat, n = Len(wire) PROVE Sending(p + 1)'
  BY <1>0
<1>2. Frame' = Frame /\ (Sent(n) => Sent(n)')
  BY <1>1, Unmoved
<1>3. CASE "arb" \in flags
  BY <1>1, <1>3 DEF Sending
<1>4. CASE "arb" \notin flags /\ st = "start"
  <2>1. Starts(p)
    BY <1>4 DEF Sending
  <2>2. Starts(p + 1)'
    BY <2>1, StartsPush
  <2> QED BY <1>1, <1>4, <2>2 DEF Sending
<1>5. CASE "arb" \notin flags /\ st = "byte"
  <2>1. p = n + 1 + Len(tx) /\ Sent(n) /\ cur = Frame[n + 1] /\ InQueue(n + 1)
    BY <1>5 DEF Sending
  <2>2. InQueue(n + 1)' /\ Len(tx') = Len(tx) + 1
    BY <1>0, <1>1, <1>2, <2>1, Enqueues
  <2>3. p + 1 = n + 1 + Len(tx')
    BY <1>0, <2>1, <2>2
  <2> QED BY <1>1, <1>2, <1>5, <2>1, <2>2, <2>3 DEF Sending
<1>6. CASE "arb" \notin flags /\ st = "ack"
  <2>1. p = n + Len(tx) /\ Sent(n) /\ InQueue(n)
    BY <1>6 DEF Sending
  <2>2. InQueue(n)' /\ Len(tx') = Len(tx) + 1
    BY <1>0, <1>1, <1>2, <2>1, Enqueues
  <2>3. p + 1 = n + Len(tx')
    BY <1>0, <2>1, <2>2
  <2> QED BY <1>1, <1>2, <1>6, <2>1, <2>2, <2>3 DEF Sending
<1>7. st \notin {"stop", "done", "idle"} \/ "arb" \in flags
  BY <1>0, CommandBits DEF Addressing, Over
<1>8. st \in {"start", "byte", "ack", "stop", "done", "idle"}
  BY DEF Addressing
<1> QED BY <1>3, <1>4, <1>5, <1>6, <1>7, <1>8

\* The first of the bytes of a write.
LEMMA PushesPeel ==
  ASSUME NEW f, NEW s, NEW p \in Nat, NEW n \in Nat, n = Len(s), n > 2, PushesAt(f, s, p)
  PROVE  AtPush(s) /\ Head(s).b = f[p + 1] /\ (WriteTail(Tail(s)) => PushesAt(f, Tail(s), p + 1))
<1>1. /\ s \in Seq(Accesses) /\ Len(f) = p + n - 1 /\ f[Len(f)] = STOP
      /\ \A i \in 1..n : s[i].k = IF i = n THEN "check" ELSE IF i = n - 1 THEN "wait" ELSE "push"
      /\ \A i \in 1..n - 2 : s[i].b = f[p + i]
  BY DEF PushesAt, WriteTail
<1>2. s # <<>>
  BY <1>1
<1>3. Len(Tail(s)) = n - 1 /\ Head(s) = s[1] /\ \A i \in 1..Len(Tail(s)) : Tail(s)[i] = s[i + 1]
  BY <1>1, <1>2, Peel
<1>4. 1 \in 1..n /\ 1 # n /\ 1 # n - 1 /\ 1 \in 1..n - 2
  OBVIOUS
<1>5. s[1].k = "push" /\ s[1].b = f[p + 1]
  BY <1>1, <1>4
<1>6. ASSUME NEW i \in 1..n - 1 - 2
      PROVE  Tail(s)[i].b = f[p + 1 + i]
  <2>1. i \in 1..n - 1 /\ i + 1 \in 1..n - 2 /\ p + (i + 1) = p + 1 + i
    OBVIOUS
  <2> QED BY <1>1, <1>3, <2>1
<1>7. Len(f) = p + 1 + Len(Tail(s)) - 1 /\ Len(Tail(s)) >= 2 /\ Len(Tail(s)) - 2 = n - 1 - 2
  <2>1. Len(Tail(s)) = n - 1 /\ Len(f) = p + n - 1
    BY <1>1, <1>3
  <2>2. \A m \in Nat : m = n - 1 => p + n - 1 = p + 1 + m - 1 /\ m >= 2 /\ m - 2 = n - 1 - 2
    OBVIOUS
  <2>3. n - 1 \in Nat
    OBVIOUS
  <2> QED BY <2>1, <2>2, <2>3, Zenon
<1>8. ASSUME WriteTail(Tail(s)) PROVE PushesAt(f, Tail(s), p + 1)
  BY <1>1, <1>6, <1>7, <1>8 DEF PushesAt
<1> QED BY <1>2, <1>3, <1>5, <1>8 DEF AtPush

LEMMA FrameWritesStep ==
  ASSUME Framed, FrameWrites, Cpu
  PROVE  FrameWrites' \/ FrameLastCheck'
<1> SUFFICES ASSUME NEW n, n = Len(code) PROVE FrameWrites' \/ FrameLastCheck'
  OBVIOUS
<1>1. I2cTypeOK /\ script # <<>> /\ Writing /\ got = <<>> /\ Frame \in Seq(Nat) /\ wire \in Seq(Nat)
  BY DEF Framed, HasFrame, WireTypeOK, FrameWrites
<1>2. PICK p \in Nat : Sending(p) /\ PushesAt(Frame, code, p)
  BY DEF FrameWrites
<1>3. WriteTail(code) /\ n \in Nat /\ n >= 2 /\ Addressing(Whole, n - 2)
  BY <1>1 DEF Writing, WriteTail
<1>4. CASE n > 2
  <2>1. AtPush(code) /\ Head(code).b = Frame[p + 1]
    BY <1>2, <1>3, <1>4, PushesPeel
  <2>2. code' = Tail(code) /\ UNCHANGED <<script, wire, got>>
    BY <1>1, <2>1, Pushes
  <2>3. Writing'
    BY <1>1, <1>4, WritingStep
  <2>4. n - 2 \in Nat /\ n - 2 > 0
    BY <1>3, <1>4
  <2>5. Sending(p + 1)'
    BY <1>2, <1>3, <2>1, <2>4, SendingPush
  <2>6. WriteTail(Tail(code)) /\ Frame' = Frame
    BY <2>2, <2>3, Unmoved DEF Writing
  <2>7. PushesAt(Frame', code', p + 1)
    BY <1>2, <1>3, <1>4, <2>2, <2>6, PushesPeel
  <2>8. FrameWrites'
    BY <1>1, <2>2, <2>3, <2>5, <2>7 DEF FrameWrites
  <2> QED BY <2>8
<1>5. CASE n = 2
  <2>1. At(code, WaitIdle)
    <3>1. code \in Seq(Accesses) /\ code # <<>>
      <4>1. code \in Seq(Accesses) /\ Len(code) = 2
        BY <1>3, <1>5 DEF WriteTail
      <4> QED BY <4>1
    <3>2. Head(code) = code[1] /\ Head(code) \in Accesses
      BY <3>1, Peel
    <3>3. 1 \in 1..Len(code) /\ 1 # Len(code) /\ 1 = Len(code) - 1
      BY <1>5
    <3>4. code[1].k = "wait"
      BY <1>3, <3>3 DEF WriteTail
    <3> QED BY <3>1, <3>2, <3>4, Kinds DEF At
  <2>2. st = "idle" /\ cmd = {} /\ UNCHANGED <<flags, script, wire, got>>
    BY <2>1, Waits
  <2>3. LastCheck'
    BY <1>1, <1>5, WritingStep
  <2>4. /\ (Refused => Refused') /\ (Complete => Complete')
        /\ "arb" \in flags' <=> "arb" \in flags
        /\ "nack" \in flags' <=> "nack" \in flags
        /\ NoErr' <=> NoErr
    BY <2>2, Unmoved DEF NoErr
  <2>5. CASE "arb" \in flags
    BY <2>3, <2>4, <2>5 DEF FrameLastCheck
  <2>6. CASE "arb" \notin flags /\ "nack" \in flags
    <3>1. Refused
      BY <1>2, <2>2, <2>6 DEF Sending
    <3> QED BY <2>3, <2>4, <2>6, <3>1 DEF FrameLastCheck
  <2>7. CASE NoErr
    <3>1. ~bus
      BY <1>3, <2>2, <2>7, CommandBits DEF Addressing, Over, NoErr
    <3>2. Closed(p)
      BY <1>2, <2>2, <2>7, <3>1 DEF Sending, NoErr
    <3>3. Len(Frame) = p + 1 /\ Frame[p + 1] = STOP
      <4>1. Len(Frame) = p + 2 - 1 /\ Frame[Len(Frame)] = STOP
        BY <1>2, <1>5 DEF PushesAt
      <4> QED BY <4>1
    <3>4. Len(wire) = Len(Frame) /\ Sent(p + 1)
      <4>1. \A i \in 1..p + 1 : i \in 1..p \/ i = p + 1
        OBVIOUS
      <4> QED BY <3>2, <3>3, <4>1 DEF Closed, Sent
    <3>5. Complete
      BY <3>3, <3>4 DEF Complete
    <3> QED BY <2>3, <2>4, <2>7, <3>5 DEF FrameLastCheck
  <2> QED BY <2>5, <2>6, <2>7 DEF NoErr
<1> QED BY <1>3, <1>4, <1>5

LEMMA FrameWaitsStep ==
  ASSUME Framed, FrameWaits, Cpu
  PROVE  FrameChecks'
<1>1. I2cTypeOK /\ script # <<>> /\ Waiting /\ got = <<>>
  BY DEF Framed, HasFrame, FrameWaits
<1>2. PICK p \in Nat : Sending(p) /\ AddressAt(Frame, Data, Tail(Tail(code)), p)
  BY DEF FrameWaits
<1>3. st = "idle" /\ cmd = {} /\ code' = Tail(code) /\ UNCHANGED <<st, cmd, bus, flags, script, wire, got>>
  BY <1>1, Waits DEF Waiting
<1>4. Checking'
  BY <1>1, WaitingStep
<1>5. /\ Frame' = Frame /\ Data' = Data /\ (Refused => Refused')
      /\ (Sent(p) => Sent(p)') /\ (Closed(p) => Closed(p)')
  BY <1>3, Unmoved
<1>6. Sending(p)'
  BY <1>2, <1>3, <1>5 DEF Sending
<1>7. AddressAt(Frame', Data', Tail(code'), p)
  BY <1>2, <1>3, <1>5
<1> QED BY <1>1, <1>3, <1>4, <1>6, <1>7 DEF FrameChecks

LEMMA FrameChecksStep ==
  ASSUME Framed, FrameChecks, Cpu
  PROVE  FrameAddressed' \/ FrameOver'
<1>1. I2cTypeOK /\ script # <<>> /\ Checking /\ got = <<>> /\ At(code, Check) /\ Quiet /\ Over(Open, 0)
  BY DEF Framed, HasFrame, FrameChecks, Checking
<1>2. PICK p \in Nat : Sending(p) /\ AddressAt(Frame, Data, Tail(code), p)
  BY DEF FrameChecks
<1>3. /\ UNCHANGED <<script, wire, got>>
      /\ "arb" \in flags => rc' = "arb"
      /\ "arb" \notin flags /\ "nack" \in flags => rc' = "nack"
      /\ NoErr => code' = Tail(code)
  BY <1>1, Checks
<1>4. IF NoErr THEN Addressed' ELSE CallOver'
  BY <1>1, CheckingStep
<1>5. /\ Frame' = Frame /\ Data' = Data /\ (Refused => Refused') /\ \A q : Sent(q) => Sent(q)'
  BY <1>3, Unmoved
<1>6. CASE "arb" \in flags
  BY <1>3, <1>4, <1>6 DEF NoErr, FrameOver
<1>7. CASE "arb" \notin flags /\ "nack" \in flags
  <2>1. Refused
    BY <1>1, <1>2, <1>7 DEF Sending, Quiet
  <2> QED BY <1>3, <1>4, <1>5, <1>7, <2>1 DEF NoErr, FrameOver
<1>8. CASE NoErr
  <2>1. bus
    BY <1>1, <1>8 DEF Over, NoErr
  <2>2. Len(wire) = p /\ Sent(p)
    BY <1>1, <1>2, <1>8, <2>1 DEF Sending, Quiet, NoErr
  <2>3. Len(wire') = p /\ got' = <<>> /\ code' = Tail(code) /\ Sent(p)'
    BY <1>1, <1>3, <1>5, <1>8, <2>2
  <2>4. CASE ReadsAt(Frame, Data, code', p) /\ Data # <<>>
    <3>1. ReadTail(code') /\ Len(code') = 3 * Len(Data) + 1 /\ DataAt(Frame, Data, p)
      BY <2>4 DEF ReadsAt
    <3>2. Len(got') = 0 /\ Len(Data) \in Nat
      BY <2>3 DEF Framed
    <3>3. ToRead(3)'
      <4>1. Len(code') = 3 * (Len(Data) - 0 - 1) + 1 + 3
        BY <3>1, <3>2
      <4> QED BY <1>5, <3>2, <4>1 DEF ToRead
    <3>4. Popped(p)' /\ Len(wire') = p + Len(got')
      <4>1. \A j \in 1..Len(got') : FALSE
        BY <3>2
      <4> QED BY <1>5, <2>3, <3>1, <3>2, <4>1 DEF Popped
    <3>5. FrameAddressed'
      BY <1>4, <1>8, <3>1, <3>3, <3>4 DEF FrameAddressed
    <3> QED BY <3>5
  <2>5. CASE AtPush(code')
    <3>1. AddressAt(Frame, Data, code, p)'
      BY <1>2, <1>5, <2>3
    <3>2. FrameAddressed'
      BY <1>4, <1>8, <2>3, <2>5, <3>1 DEF FrameAddressed
    <3> QED BY <3>2
  <2> QED BY <1>2, <2>3, <2>4, <2>5 DEF AddressAt
<1> QED BY <1>6, <1>7, <1>8 DEF NoErr

LEMMA FrameAddressedStep ==
  ASSUME Framed, FrameAddressed, Cpu
  PROVE  FrameLoads(Open)' \/ FrameReadWaits'
<1>1. I2cTypeOK /\ script # <<>> /\ Addressed /\ Quiet /\ tx = <<>> /\ bus /\ NoErr
  BY DEF Framed, HasFrame, FrameAddressed, Addressed
<1>2. Len(wire) \in Nat /\ Len(Data) \in Nat /\ Len(got) \in Nat
  BY DEF Framed, WireTypeOK
<1>3. CASE got = <<>> /\ AtPush(code) /\ Sent(Len(wire)) /\ AddressAt(Frame, Data, code, Len(wire))
  <2> SUFFICES ASSUME NEW n \in Nat, n = Len(wire) PROVE FrameLoads(Open)'
    BY <1>2
  <2>1. ~(ReadsAt(Frame, Data, code, n) /\ Data # <<>>)
    <3> SUFFICES ASSUME ReadsAt(Frame, Data, code, n), Data # <<>>, NEW d, d = Len(Data), NEW m, m = Len(code) PROVE FALSE
      OBVIOUS
    <3>1. ReadTail(code) /\ m = 3 * d + 1 /\ d \in Nat /\ d # 0
      BY <1>2 DEF ReadsAt, Framed
    <3>2. m >= 4 /\ m % 3 = 1
      BY <3>1
    <3>3. Rest(code)
      BY <3>1, <3>2 DEF Rest
    <3> QED BY <1>3, <3>3, RestIsNoPush
  <2>2. /\ Frame[n + 1] = START /\ Head(code).b = Frame[n + 2] /\ Data # <<>>
        /\ ReadsAt(Frame, Data, Tail(Tail(Tail(Tail(code)))), n + 2)
    BY <1>3, <2>1 DEF AddressAt
  <2>3. Loading(Open)' /\ Queued(Open)'
    BY <1>1, <1>3, Restarts
  <2>4. code' = Tail(code) /\ tx' = Append(tx, Head(code).b) /\ Head(code).b \in Nat /\ UNCHANGED <<script, wire, got>>
    BY <1>1, <1>3, Pushes
  <2>5. Frame' = Frame /\ Data' = Data /\ Sent(n)'
    BY <1>3, <2>4, Unmoved
  <2>6. InQueue(n + 1)' /\ Len(tx') = 1
    <3>1. InQueue(n + 1) /\ Len(tx) = 0 /\ tx \in Seq(Nat)
      BY <1>1 DEF InQueue
    <3>2. Head(code).b = Frame[n + 1 + Len(tx) + 1]
      <4>1. n + 1 + 0 + 1 = n + 2
        OBVIOUS
      <4> QED BY <2>2, <3>1, <4>1
    <3> QED BY <2>4, <2>5, <3>1, <3>2, Enqueues
  <2>7. n + 2 = n + 1 + Len(tx') /\ n + 2 \in Nat
    BY <2>6
  <2>8. Starts(n + 2)'
    BY <2>2, <2>4, <2>5, <2>6, <2>7 DEF Starts
  <2>9. StartAt(Frame', Data', Open, code', n + 2)
    BY <2>2, <2>4, <2>5 DEF StartAt, AddressAt
  <2> QED BY <1>3, <2>3, <2>4, <2>7, <2>8, <2>9 DEF FrameLoads
<1>4. ASSUME ReadTail(code), ToRead(3), NEW h \in Nat, Popped(h), Len(wire) = h + Len(got)
      PROVE  FrameReadWaits'
  <2> SUFFICES ASSUME NEW m, m = Len(code), NEW d \in Nat, d = Len(Data), NEW g \in Nat, g = Len(got)
               PROVE  FrameReadWaits'
    BY <1>2
  <2>1. code \in Seq(Accesses) /\ m \in Nat /\ m = 3 * (d - g - 1) + 1 + 3 /\ m >= 1
    BY <1>4 DEF ReadTail, ToRead
  <2>2. m % 3 = 1
    <3>1. \A x \in Int : (3 * x + 1 + 3) % 3 = 1
      OBVIOUS
    <3>2. d - g - 1 \in Int
      OBVIOUS
    <3> QED BY <2>1, <3>1, <3>2
  <2>3. m # 1
    <3> SUFFICES ASSUME m = 1 PROVE FALSE
      OBVIOUS
    <3>1. code # <<>> /\ code[1] = ReadAt(1 - 1)
      <4>1. Len(code) = 1 /\ 1 \in 1..Len(code)
        OBVIOUS
      <4>2. code[1] = ReadAt(Len(code) - 1)
        BY <1>4, <4>1 DEF ReadTail
      <4> QED BY <2>1, <4>1, <4>2
    <3>2. Head(code) = Check
      BY <2>1, <3>1, Peel DEF ReadAt
    <3>3. ~AtPush(code)
      BY <3>2, Kind DEF AtPush
    <3>4. ~Rest(code)
      BY DEF Rest
    <3> QED BY <1>1, <3>3, <3>4 DEF Addressed, AfterAddress
  <2>4. m >= 4
    BY <2>1, <2>2, <2>3
  <2>5. ReadWaits' /\ code' = Tail(code) /\ UNCHANGED <<st, bus, rx, script, wire, got>>
    BY <1>1, <1>4, <2>2, <2>4, ReadBegun
  <2>6. Len(code') = m - 1
    <3>1. code # <<>>
      BY <2>1, NotEmpty, Zenon
    <3> QED BY <2>1, <2>5, <3>1, Peel
  <2>7. Data' = Data /\ Popped(h)'
    BY <1>4, <2>5, Unmoved
  <2>8. ToRead(2)'
    <3>1. m - 1 = 3 * (d - g - 1) + 1 + 2
      BY <2>1
    <3> QED BY <2>5, <2>6, <2>7, <3>1 DEF ToRead
  <2>9. InRx(h + Len(got))'
    BY <1>1, <1>4, <2>5 DEF InRx, Quiet
  <2> QED BY <2>5, <2>7, <2>8, <2>9 DEF FrameReadWaits
<1> QED BY <1>3, <1>4 DEF FrameAddressed

LEMMA FrameReadWaitsStep ==
  ASSUME Framed, FrameReadWaits, Cpu
  PROVE  FrameReadPops'
<1>1. I2cTypeOK /\ script # <<>> /\ ReadWaits /\ code \in Seq(Accesses) /\ Len(code) >= 3
  BY DEF Framed, HasFrame, FrameReadWaits, I2cTypeOK, ReadWaits
<1>2. PICK h \in Nat : Popped(h) /\ InRx(h + Len(got))
  BY DEF FrameReadWaits
<1>3. ReadPops' /\ code' = Tail(code) /\ UNCHANGED <<st, bus, rx, script, wire, got>>
  BY <1>1, ReadWaitsStep
<1>4. Data' = Data /\ Popped(h)'
  BY <1>2, <1>3, Unmoved
<1>5. InRx(h + Len(got))'
  BY <1>2, <1>3 DEF InRx
<1>6. ToRead(1)'
  <2> SUFFICES ASSUME NEW m, m = Len(code), NEW d \in Nat, d = Len(Data), NEW g \in Nat, g = Len(got)
               PROVE  ToRead(1)'
    <3>1. Len(Data) \in Nat /\ Len(got) \in Nat
      BY DEF Framed, WireTypeOK
    <3> QED BY <3>1
  <2>1. m = 3 * (d - g - 1) + 1 + 2 /\ m \in Nat /\ m >= 3
    BY <1>1 DEF FrameReadWaits, ToRead
  <2>2. code # <<>>
    <3>1. Len(code) >= 1
      BY <2>1
    <3> QED BY <3>1, NotEmpty, Zenon
  <2>3. Len(code') = m - 1
    BY <1>1, <1>3, <2>2, Peel
  <2>4. m - 1 = 3 * (d - g - 1) + 1 + 1
    BY <2>1
  <2> QED BY <1>3, <1>4, <2>3, <2>4 DEF ToRead
<1> QED BY <1>3, <1>4, <1>5, <1>6 DEF FrameReadPops

LEMMA FrameReadPopsStep ==
  ASSUME Framed, FrameReadPops, Cpu
  PROVE  FrameAddressed' \/ FrameLastCheck'
<1> SUFFICES ASSUME NEW m, m = Len(code), NEW d \in Nat, d = Len(Data), NEW g \in Nat, g = Len(got)
             PROVE  FrameAddressed' \/ FrameLastCheck'
  <2>1. Len(Data) \in Nat /\ Len(got) \in Nat
    BY DEF Framed, WireTypeOK
  <2> QED BY <2>1
<1>1. /\ I2cTypeOK /\ script # <<>> /\ ReadPops /\ code \in Seq(Accesses) /\ m >= 1 /\ m \in Nat
      /\ m = 3 * (d - g - 1) + 1 + 1 /\ rx # <<>> /\ NoErr /\ (bus <=> m > 2)
      /\ wire \in Seq(Nat) /\ got \in Seq(Nat) /\ rx \in Seq(Nat) /\ Data \in Seq(Nat)
  <2>1. I2cTypeOK /\ script # <<>> /\ ReadPops /\ ToRead(1)
    BY DEF Framed, HasFrame, FrameReadPops
  <2>2. wire \in Seq(Nat) /\ got \in Seq(Nat) /\ rx \in Seq(Nat) /\ Data \in Seq(Nat)
    BY DEF Framed, WireTypeOK
  <2>3. code \in Seq(Accesses) /\ m >= 1 /\ m \in Nat
    BY <2>1 DEF ReadPops, ReadTail
  <2>4. m = 3 * (d - g - 1) + 1 + 1
    BY <2>1 DEF ToRead
  <2>5. rx # <<>> /\ NoErr /\ (bus <=> m > 2)
    BY <2>1 DEF ReadPops, OneRead
  <2> QED BY <2>1, <2>2, <2>3, <2>4, <2>5
<1>2. PICK h \in Nat : Popped(h) /\ InRx(h + g)
  BY DEF FrameReadPops
<1>3. /\ IF m = 2 THEN LastCheck' ELSE Addressed' /\ ReadTail(code')
      /\ code' = Tail(code) /\ got' = Append(got, Head(rx)) /\ rx' = <<>>
      /\ UNCHANGED <<st, bus, flags, script, wire>>
  BY <1>1, ReadPopsStep
<1>4. Frame' = Frame /\ Data' = Data /\ \A q : Sent(q) => Sent(q)'
  BY <1>3, Unmoved
<1>5. /\ Head(rx) \in Nat /\ Len(got') = g + 1 /\ got' \in Seq(Nat)
      /\ \A j \in 1..g : got'[j] = got[j]
      /\ got'[g + 1] = Head(rx)
  <2>1. Head(rx) \in Nat
    BY <1>1, Peel
  <2> QED BY <1>1, <1>3, <2>1
<1>6. /\ wire[h + g + 1] = Head(rx)
      /\ IF bus THEN Len(wire) = h + g + 1 ELSE Len(wire) = h + g + 2 /\ wire[h + g + 2] = STOP
  BY <1>1, <1>2 DEF InRx
<1>7. DataAt(Frame, Data, h) /\ Sent(h) /\ \A j \in 1..g : wire[h + j] = got[j]
  BY <1>2 DEF Popped
<1>8. \A j \in 1..g + 1 : wire[h + j] = got'[j]
  <2>1. \A j \in 1..g + 1 : j \in 1..g \/ j = g + 1
    OBVIOUS
  <2>2. h + (g + 1) = h + g + 1
    OBVIOUS
  <2> QED BY <1>5, <1>6, <1>7, <2>1, <2>2
<1>9. Popped(h)'
  BY <1>3, <1>4, <1>5, <1>7, <1>8 DEF Popped
<1>10. CASE m # 2
  <2>1. m > 2 /\ Len(wire) = h + g + 1
    <3>1. m > 2
      <4>1. d - g - 1 >= 0 \/ d - g - 1 <= -1
        OBVIOUS
      <4> QED BY <1>1, <1>10, <4>1
    <3> QED BY <1>1, <1>6, <3>1
  <2>2. Len(code') = m - 1
    <3>1. code # <<>>
      BY <1>1, NotEmpty, Zenon
    <3> QED BY <1>1, <1>3, <3>1, Peel
  <2>3. ToRead(3)'
    <3>1. m - 1 = 3 * (d - (g + 1) - 1) + 1 + 3
      BY <1>1
    <3> QED BY <1>4, <1>5, <2>2, <3>1 DEF ToRead
  <2>4. Len(wire') = h + Len(got')
    BY <1>3, <1>5, <2>1
  <2>5. FrameAddressed'
    BY <1>3, <1>9, <1>10, <2>3, <2>4 DEF FrameAddressed
  <2> QED BY <2>5
<1>11. CASE m = 2
  <2>1. d = g + 1 /\ ~bus
    BY <1>1, <1>11
  <2>2. Len(wire) = h + d + 1 /\ wire[h + d + 1] = STOP
    <3>1. h + g + 2 = h + d + 1
      BY <2>1
    <3> QED BY <1>6, <2>1, <3>1
  <2>3. Len(Frame) = h + d + 1 /\ Frame[h + d + 1] = STOP /\ \A j \in 1..d : Frame[h + j] = Data[j]
    <3>1. Len(Frame) = h + d + 1 /\ Frame[Len(Frame)] = STOP /\ \A j \in 1..d : Frame[h + j] = Data[j]
      BY <1>7 DEF DataAt
    <3> QED BY <3>1
  <2>4. ASSUME got' = Data
        PROVE  Sent(Len(Frame))
    <3>1. ASSUME NEW i \in 1..h + d + 1
          PROVE  wire[i] = Frame[i]
      <4>1. CASE i \in 1..h
        BY <1>7, <4>1 DEF Sent
      <4>2. CASE i \in h + 1..h + d
        <5>1. i - h \in 1..d /\ i - h \in 1..g + 1 /\ h + (i - h) = i
          BY <2>1, <4>2
        <5> QED BY <1>8, <2>3, <2>4, <5>1
      <4>3. CASE i = h + d + 1
        BY <2>2, <2>3, <4>3
      <4> QED BY <4>1, <4>2, <4>3
    <3> QED BY <2>3, <3>1 DEF Sent
  <2>5. Complete'
    <3>1. Len(wire') = Len(Frame') /\ (got' = Data' => Sent(Len(Frame))')
      BY <1>3, <1>4, <2>2, <2>3, <2>4
    <3> QED BY <3>1 DEF Complete
  <2>6. FrameLastCheck'
    BY <1>1, <1>3, <1>11, <2>5 DEF FrameLastCheck, NoErr
  <2> QED BY <2>6
<1> QED BY <1>10, <1>11

LEMMA FrameLastCheckStep ==
  ASSUME Framed, FrameLastCheck, Cpu
  PROVE  FrameOver'
<1>1. I2cTypeOK /\ script # <<>> /\ LastCheck /\ At(code, Check)
  BY DEF Framed, HasFrame, FrameLastCheck, LastCheck
<1>2. /\ UNCHANGED <<script, wire, got>>
      /\ "arb" \in flags => rc' = "arb"
      /\ "arb" \notin flags /\ "nack" \in flags => rc' = "nack"
      /\ NoErr => rc' = "ok"
  BY <1>1, Checks
<1>3. CallOver' /\ (Refused => Refused') /\ (Complete => Complete')
  BY <1>1, <1>2, LastCheckStep, Unmoved
<1> QED BY <1>2, <1>3 DEF FrameLastCheck, FrameOver

(***************************************************************************)
(* The frame invariant.                                                    *)
(***************************************************************************)
\* The engine has bytes to send only up to the end of the frame.
LEMMA BeforeTheEnd ==
  ASSUME Framed, NEW s, NEW p \in Nat, PushesAt(Frame, s, p) \/ AddressAt(Frame, Data, s, p)
  PROVE  p < Len(Frame)
<1>1. Len(Data) \in Nat /\ Len(Frame) \in Nat
  BY DEF Framed
<1>2. CASE PushesAt(Frame, s, p)
  <2>1. Len(s) \in Nat /\ Len(s) >= 2 /\ Len(Frame) = p + Len(s) - 1
    BY <1>2 DEF PushesAt, WriteTail
  <2> QED BY <2>1
<1>3. ASSUME NEW q \in Nat, DataAt(Frame, Data, q), q >= p PROVE p < Len(Frame)
  BY <1>1, <1>3 DEF DataAt
<1>4. CASE AddressAt(Frame, Data, s, p)
  <2>1. CASE DataAt(Frame, Data, p)
    BY <1>3, <2>1
  <2>2. CASE DataAt(Frame, Data, p + 2)
    <3>1. p + 2 \in Nat /\ p + 2 >= p
      OBVIOUS
    <3> QED BY <1>3, <2>2, <3>1
  <2> QED BY <1>4, <2>1, <2>2 DEF AddressAt, ReadsAt
<1> QED BY <1>2, <1>4

LEMMA FrameEngineStep ==
  ASSUME Framed, FrameAtEachAccess, Engine, Meets
  PROVE  FrameAtEachAccess'
<1>1. I2cTypeOK /\ WireTypeOK /\ script # <<>> /\ UNCHANGED <<script, code, got>>
  BY OneStep DEF Framed, HasFrame, cpuVars
<1>2. st = "idle" => cmd # {}
  BY EngineRests
<1>3. Frame' = Frame /\ Data' = Data
  BY <1>1 DEF Frame, Data
<1>4. FrameWrites \/ FrameWaits \/ FrameReadWaits
  <2>1. ~Quiet
    BY <1>2 DEF Quiet
  <2>2. ~FrameBegins /\ ~FrameChecks /\ ~FrameAddressed /\ ~FrameLastCheck /\ ~FrameOver
    BY <2>1 DEF FrameBegins, FrameChecks, FrameAddressed, FrameLastCheck, FrameOver,
                Beginning, Checking, Addressed, LastCheck, CallOver, Clean, BusLost
  <2>3. ~FrameReadPops
    BY <1>2 DEF FrameReadPops, ReadPops
  <2>4. \A c : ~FrameLoads(c)
    BY <2>1 DEF FrameLoads, Loading
  <2> QED BY <2>2, <2>3, <2>4 DEF FrameAtEachAccess
<1>5. CASE FrameWrites
  <2>1. PICK p \in Nat : Sending(p) /\ PushesAt(Frame, code, p)
    BY <1>5 DEF FrameWrites
  <2>2. p < Len(Frame)
    BY <2>1, BeforeTheEnd
  <2>3. /\ Writing' /\ Addressing(Whole, Len(code) - 2) /\ Len(code) - 2 \in Nat
        /\ Len(code) - 2 > 0 => code # <<>> /\ Head(code).k = "push"
    BY <1>1, <1>5, WritingOn DEF FrameWrites
  <2>4. Sending(p)'
    BY <1>1, <2>1, <2>2, <2>3, SendingStep
  <2>5. PushesAt(Frame', code', p)
    BY <1>1, <1>3, <2>1
  <2>6. FrameWrites'
    BY <1>1, <1>5, <2>3, <2>4, <2>5 DEF FrameWrites
  <2> QED BY <2>6 DEF FrameAtEachAccess
<1>6. CASE FrameWaits
  <2>1. PICK p \in Nat : Sending(p) /\ AddressAt(Frame, Data, Tail(Tail(code)), p)
    BY <1>6 DEF FrameWaits
  <2>2. p < Len(Frame)
    BY <2>1, BeforeTheEnd
  <2>3. Waiting' /\ Addressing(Open, 0)
    BY <1>1, <1>6, WaitingOn DEF FrameWaits
  <2>4. Sending(p)'
    BY <1>1, <2>1, <2>2, <2>3, SendingStep
  <2>5. AddressAt(Frame', Data', Tail(Tail(code')), p)
    BY <1>1, <1>3, <2>1
  <2>6. FrameWaits'
    BY <1>1, <1>6, <2>3, <2>4, <2>5 DEF FrameWaits
  <2> QED BY <2>6 DEF FrameAtEachAccess
<1>7. CASE FrameReadWaits
  <2>1. PICK h \in Nat : Popped(h) /\ InRx(h + Len(got))
    BY <1>7 DEF FrameReadWaits
  <2>2. ReadWaits' /\ ReadWaits /\ ToRead(2)
    BY <1>1, <1>7, ReadWaitsOn DEF FrameReadWaits
  <2> SUFFICES ASSUME NEW c \in {{"read"}, LastRead}, Reading(c), NEW g \in Nat, g = Len(got)
               PROVE  FrameReadWaits'
    <3>1. Len(got) \in Nat
      BY <1>1 DEF WireTypeOK
    <3>2. \E c \in {{"read"}, LastRead} : Reading(c)
      BY <2>2 DEF ReadWaits
    <3> QED BY <3>1, <3>2 DEF FrameAtEachAccess
  <2>3. InRx(h + g)' /\ \A i \in 1..h + g : wire'[i] = wire[i]
    <3>1. h + g \in Nat
      OBVIOUS
    <3> QED BY <1>1, <2>1, <3>1, ReadInStep
  <2>4. InRx(h + Len(got))'
    BY <1>1, <2>3 DEF InRx
  <2>5. ToRead(2)'
    BY <1>1, <1>3, <2>2 DEF ToRead
  <2>6. DataAt(Frame, Data, h) /\ Sent(h) /\ \A j \in 1..g : wire[h + j] = got[j]
    BY <2>1 DEF Popped
  <2>7. Sent(h)'
    <3>1. \A i \in 1..h : i \in 1..h + g
      OBVIOUS
    <3> QED BY <1>3, <2>3, <2>6, <3>1 DEF Sent
  <2>8. \A j \in 1..g : wire'[h + j] = got[j]
    <3>1. \A j \in 1..g : h + j \in 1..h + g
      OBVIOUS
    <3> QED BY <2>3, <2>6, <3>1
  <2>9. Popped(h)'
    BY <1>1, <1>3, <2>6, <2>7, <2>8 DEF Popped
  <2> QED BY <2>2, <2>4, <2>5, <2>9 DEF FrameReadWaits
<1> QED BY <1>4, <1>5, <1>6, <1>7

LEMMA FrameCpuStep ==
  ASSUME Framed, IsFramed(Head(script)), FrameAtEachAccess, code # <<>>, Cpu
  PROVE  FrameAtEachAccess'
<1>1. CASE FrameBegins
  BY <1>1, FrameBeginsStep DEF FrameAtEachAccess
<1>2. ASSUME NEW c \in {Whole, Open}, FrameLoads(c) PROVE FrameAtEachAccess'
  BY <1>2, FrameLoadsStep DEF FrameAtEachAccess
<1>3. CASE FrameWrites
  BY <1>3, FrameWritesStep DEF FrameAtEachAccess
<1>4. CASE FrameWaits
  BY <1>4, FrameWaitsStep DEF FrameAtEachAccess
<1>5. CASE FrameChecks
  BY <1>5, FrameChecksStep DEF FrameAtEachAccess
<1>6. CASE FrameAddressed
  BY <1>6, FrameAddressedStep DEF FrameAtEachAccess
<1>7. CASE FrameReadWaits
  BY <1>7, FrameReadWaitsStep DEF FrameAtEachAccess
<1>8. CASE FrameReadPops
  BY <1>8, FrameReadPopsStep DEF FrameAtEachAccess
<1>9. CASE FrameLastCheck
  BY <1>9, FrameLastCheckStep DEF FrameAtEachAccess
<1>10. ~FrameOver
  BY DEF FrameOver, CallOver
<1> QED BY <1>1, <1>2, <1>3, <1>4, <1>5, <1>6, <1>7, <1>8, <1>9, <1>10 DEF FrameAtEachAccess

LEMMA IsItsFrame ==
  ASSUME FramesFit, I2cTypeOK, HasFrame
  PROVE  IsFramed(Head(script)) /\ (WireTypeOK => Framed)
<1>1. Head(script) \in CallsMade
  BY Peel DEF I2cTypeOK, HasFrame
<1>2. IsFramed(Head(script))
  BY <1>1 DEF FramesFit, HasFrame, Frame
<1>3. Frame \in Seq(Nat) /\ Data \in Seq(Nat)
  BY <1>2, FramedBegins DEF Frame, Data
<1> QED BY <1>2, <1>3 DEF Framed

LEMMA FrameStep ==
  ASSUME CallsFit, FramesFit, FrameInv, Cpu \/ Engine
  PROVE  FrameInv'
<1>1. I2cTypeOK /\ WireTypeOK /\ Meets /\ WireTypeOK' /\ I2cInv'
  <2>1. I2cTypeOK /\ WireTypeOK /\ I2cInv /\ Meets
    BY LineFree DEF FrameInv, I2cInv
  <2> QED BY <2>1, WireTypes, I2cStep
<1>2. ASSUME HasFrame' PROVE FrameAtEachAccess'
  <2>1. CASE Engine
    <3>1. HasFrame
      BY <1>1, <1>2, <2>1, OneStep DEF cpuVars, HasFrame, Frame
    <3> QED BY <1>1, <2>1, <3>1, IsItsFrame, FrameEngineStep DEF FrameInv
  <2>2. CASE Cpu /\ code # <<>>
    <3>1. HasFrame
      BY <1>2, <2>2, CpuKeepsScript DEF HasFrame, Frame
    <3> QED BY <1>1, <2>2, <3>1, IsItsFrame, FrameCpuStep DEF FrameInv
  <2>3. CASE Cpu /\ code = <<>>
    <3>1. Return
      BY <2>3 DEF Cpu, CpuClear, CpuPush, CpuCmd, CpuWait, CpuPop, CpuCheck, CpuExpect, Step, Now
    <3>2. script # <<>> /\ wire' = <<>> /\ got' = <<>> /\ script' # <<>>
      BY <1>2, <3>1 DEF Return, HasFrame
    <3>3. CallOver /\ SlaveInv
      BY <1>1, <2>3, <3>2, NothingLeft DEF FrameInv, I2cInv
    <3>4. Beginning'
      BY <1>1, <3>1, <3>2, <3>3, ReturnStep
    <3> QED BY <3>2, <3>4 DEF FrameAtEachAccess, FrameBegins
  <2> QED BY <2>1, <2>2, <2>3
<1> QED BY <1>1, <1>2 DEF FrameInv

LEMMA FrameInit ==
  ASSUME CallsFit, Init
  PROVE  FrameInv
<1>1. I2cInv
  BY I2cInit
<1>2. slave \in [mode : {"idle", "addr", "wr", "rd"}, first : BOOLEAN, bit : {0}, ptr : 0..NREGS - 1,
               regs : [0..NREGS - 1 -> Nat]]
  <2>1. slave = [mode |-> "idle", first |-> TRUE, bit |-> 0, ptr |-> 0, regs |-> [i \in 0..NREGS - 1 |-> 16 + i]]
    BY DEF Init, SlaveInit
  <2>2. 0 \in 0..NREGS - 1 /\ [i \in 0..NREGS - 1 |-> 16 + i] \in [0..NREGS - 1 -> Nat]
    BY I2cAssumption
  <2> QED BY <2>1, <2>2
<1>3. WireTypeOK
  BY <1>2 DEF Init, WireTypeOK
<1>4. Beginning /\ wire = <<>> /\ got = <<>>
  BY DEF Init, Beginning, Clean, Quiet
<1> QED BY <1>1, <1>3, <1>4 DEF FrameInv, FrameAtEachAccess, FrameBegins

LEMMA FrameStutter == FrameInv /\ UNCHANGED vars => FrameInv'
<1> SUFFICES ASSUME FrameInv, UNCHANGED vars PROVE FrameInv'
  OBVIOUS
<1>1. UNCHANGED <<st, op, cur, byteNack, bus, cmd, tx, rx, flags, slave, wire, script, code, rc, got, fails>>
  BY DEF vars
<1>2. I2cInv'
  BY <1>1 DEF FrameInv, I2cInv, I2cTypeOK, AtEachAccess, Beginning, Loading, Queued, LastByte, TwoBytes, Fits,
              Writing, Waiting, Checking, Addressed, ReadWaits, ReadPops, LastCheck, CallOver,
              Clean, BusLost, Quiet, NoErr, OneRead, Addressing, Reading, Over, Room, Answers,
              SlaveInv, AsksToSend, Sends, ReadsNext
<1>3. WireTypeOK'
  BY <1>1 DEF FrameInv, WireTypeOK
<1>4. /\ Frame' = Frame /\ Data' = Data /\ (Refused => Refused') /\ (Complete => Complete')
      /\ \A q : (Sent(q) => Sent(q)') /\ (Closed(q) => Closed(q)')
      /\ \A h : Popped(h) => Popped(h)'
  BY <1>1, Unmoved
<1>5. ASSUME NEW p, Sending(p) PROVE Sending(p)'
  BY <1>1, <1>5 DEF Sending, Starts, InQueue, Sent, Closed, Refused, Frame
<1>6. /\ FrameBegins => FrameBegins'
      /\ \A c \in {Whole, Open} : FrameLoads(c) => FrameLoads(c)'
  BY <1>1, <1>4 DEF FrameBegins, Beginning, FrameLoads, Loading, Queued, LastByte, TwoBytes, Fits, Starts, InQueue, Sent,
     Clean, Quiet, NoErr
<1>7. FrameWrites => FrameWrites'
  BY <1>1, <1>4, <1>5 DEF FrameWrites, Writing, Addressing, Over, Room, Answers, NoErr
<1>8. FrameWaits => FrameWaits'
  BY <1>1, <1>4, <1>5 DEF FrameWaits, Waiting, Addressing, Over, Room, Answers, NoErr
<1>9. FrameChecks => FrameChecks'
  BY <1>1, <1>4, <1>5 DEF FrameChecks, Checking, Over, Quiet
<1>10. FrameAddressed => FrameAddressed'
  BY <1>1, <1>4 DEF FrameAddressed, Addressed, Quiet, NoErr, ToRead, Sent
<1>11. FrameReadWaits => FrameReadWaits'
  BY <1>1, <1>4 DEF FrameReadWaits, ReadWaits, Reading, NoErr, OneRead, ToRead, InRx
<1>12. FrameReadPops => FrameReadPops'
  BY <1>1, <1>4 DEF FrameReadPops, ReadPops, NoErr, OneRead, ToRead, InRx
<1>13. /\ FrameLastCheck => FrameLastCheck'
       /\ FrameOver => FrameOver'
  BY <1>1, <1>4 DEF FrameLastCheck, LastCheck, FrameOver, CallOver, Clean, BusLost, Quiet, NoErr
<1>14. HasFrame' => HasFrame
  BY <1>1, <1>4 DEF HasFrame
<1>15. FrameAtEachAccess => FrameAtEachAccess'
  BY <1>6, <1>7, <1>8, <1>9, <1>10, <1>11, <1>12, <1>13 DEF FrameAtEachAccess
<1> QED BY <1>2, <1>3, <1>14, <1>15 DEF FrameInv

LEMMA SameBytes ==
  ASSUME NEW s \in Seq(Nat), NEW t \in Seq(Nat), Len(s) = Len(t), \A i \in 1..Len(t) : s[i] = t[i]
  PROVE  s = t
OBVIOUS

\* Up to byte q the bus carried the frame, and then a STOP.
LEMMA RefusedIsPrefix ==
  ASSUME Framed, Refused
  PROVE  IsPrefix(Front(wire), Frame) /\ Last(wire) = STOP
<1>1. PICK q \in Nat : q < Len(Frame) /\ Len(wire) = q + 1 /\ wire[q + 1] = STOP /\ Sent(q)
  BY DEF Refused, Closed
<1>2. wire \in Seq(Nat) /\ Frame \in Seq(Nat) /\ Len(Frame) \in Nat
  BY DEF Framed, WireTypeOK
<1>3. Last(wire) = STOP
  BY <1>1 DEF Last
<1>4. Front(wire) = SubSeq(wire, 1, q)
  <2>1. Len(wire) - 1 = q
    BY <1>1
  <2> QED BY <2>1 DEF Front
<1> DEFINE a == SubSeq(wire, 1, q)
           b == SubSeq(Frame, 1, q)
<1>5. a \in Seq(Nat) /\ Len(a) = q /\ \A i \in 1..q : a[i] = wire[i]
  BY <1>1, <1>2
<1>6. b \in Seq(Nat) /\ Len(b) = q /\ \A i \in 1..q : b[i] = Frame[i]
  BY <1>1, <1>2
<1>7. SubSeq(a, 1, q) = a
  BY <1>5
<1>8. a = b
  <2> HIDE DEF a, b
  <2>1. \A i \in 1..q : a[i] = b[i]
    BY <1>1, <1>5, <1>6 DEF Sent
  <2> QED BY <1>5, <1>6, <2>1
<1>9. IsPrefix(a, Frame)
  <2> HIDE DEF a
  <2>1. Len(a) <= Len(Frame)
    BY <1>1, <1>2, <1>5
  <2>2. SubSeq(a, 1, Len(a)) = SubSeq(Frame, 1, Len(a))
    BY <1>5, <1>7, <1>8
  <2> QED BY <2>1, <2>2 DEF IsPrefix
<1> QED BY <1>3, <1>4, <1>9

\* The calls of the programs have frames of this kind.
LEMMA ProgramsFramed ==
  ASSUME NEW a \in Nat, NEW r \in Nat, NEW buf \in Seq(Nat), NEW x
  PROVE  /\ (MayRefuse(a, x) => Len(buf) <= FIFO_DEPTH) => IsFramed(CallWrite(a, buf, x))
         /\ (MayRefuse(a, x) => Len(buf) < FIFO_DEPTH) => IsFramed(CallWriteRegs(a, r, buf, x))
         /\ buf # <<>> => IsFramed(CallReadRegs(a, r, buf, x)) /\ IsFramed(CallRead(a, buf, x))
<1>1. /\ CallWrite(a, buf, x).x = x /\ CallWriteRegs(a, r, buf, x).x = x
      /\ CallReadRegs(a, r, buf, x).x = x /\ CallRead(a, buf, x).x = x
  <2>1. \A o, d, f : Call(o, x, d, f).x = x
    BY CallFields
  <2> QED BY <2>1, Zenon DEF CallWrite, CallWriteRegs, CallReadRegs, CallRead
<1>2. ASSUME MayRefuse(a, x) => Len(buf) <= FIFO_DEPTH
      PROVE  IsFramed(CallWrite(a, buf, x))
  BY <1>1, <1>2, Zenon DEF IsFramed
<1>3. ASSUME MayRefuse(a, x) => Len(buf) < FIFO_DEPTH
      PROVE  IsFramed(CallWriteRegs(a, r, buf, x))
  BY <1>1, <1>3, Zenon DEF IsFramed
<1>4. ASSUME buf # <<>>
      PROVE  IsFramed(CallReadRegs(a, r, buf, x)) /\ IsFramed(CallRead(a, buf, x))
  BY <1>1, <1>4, Zenon DEF IsFramed
<1> QED BY <1>2, <1>3, <1>4

\* i2c.h and axi4_lite_i2c.sv together, no read being empty: at every access of a call that has a
\* frame, the bytes the
\* bus has carried, the one in the shift register, those queued and those the program has still to
\* push are that frame from its beginning; and the bytes popped are those behind the addresses.
THEOREM FrameInvariant == ASSUME CallsFit, FramesFit PROVE Spec => []FrameInv
<1>1. Init => FrameInv
  BY FrameInit
<1>2. FrameInv /\ [Cpu \/ Engine]_vars => FrameInv'
  BY FrameStep, FrameStutter
<1> QED BY <1>1, <1>2, PTL DEF Spec

\* FrameIsTheCall for every FIFO depth and every sequence of calls of i2c.h whose reads take a byte
\* at least, where the bytes a read returns are the ones the program knows the device to hold: what the bus carried when a call
\* returns is START, address and bytes, repeated START, acknowledges and STOP as the call asks, or
\* after a NACK the frame up to the refused byte and a STOP.
THEOREM FrameOnTheBus == ASSUME CallsFit, FramesFit PROVE Spec => [](ReadsBack => FrameIsTheCall)
<1>1. FrameInv => (ReadsBack => FrameIsTheCall)
  <2> SUFFICES ASSUME FrameInv, ReadsBack, Returned, Head(script).frame # <<>>
               PROVE  \/ rc = "ok" /\ wire = Head(script).frame
                      \/ rc = "arb"
                      \/ rc = "nack" /\ IsPrefix(Front(wire), Head(script).frame) /\ Last(wire) = STOP
    BY DEF FrameIsTheCall
  <2>1. script # <<>> /\ code = <<>> /\ HasFrame /\ I2cTypeOK /\ WireTypeOK /\ FrameAtEachAccess
    BY DEF Returned, HasFrame, Frame, FrameInv, I2cInv
  <2>2. FrameOver /\ Framed
    BY <2>1, NothingLeft, IsItsFrame
  <2>3. CASE rc = "ok" /\ Complete
    <3>1. Len(wire) = Len(Frame) /\ Sent(Len(Frame)) /\ wire \in Seq(Nat) /\ Frame \in Seq(Nat)
      BY <2>2, <2>3 DEF ReadsBack, Data, Complete, Framed, WireTypeOK
    <3>2. \A i \in 1..Len(Frame) : wire[i] = Frame[i]
      BY <3>1 DEF Sent
    <3>3. wire = Frame
      BY <3>1, <3>2, SameBytes
    <3> QED BY <2>3, <3>3 DEF Frame
  <2>4. CASE rc = "nack" /\ Refused
    BY <2>2, <2>4, RefusedIsPrefix DEF Frame
  <2> QED BY <2>2, <2>3, <2>4 DEF FrameOver
<1> QED BY <1>1, FrameInvariant, PTL
=============================================================================
