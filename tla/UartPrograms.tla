---------------------------- MODULE UartPrograms ----------------------------
(* The two programs that live off the UART.                                  *)
(*                                                                           *)
(* yarvmon.c on uart.h: the line editor, the command parser and the memory   *)
(* it examines and deposits into, behind the UART's two FIFOs and a terminal *)
(* that types ahead up to the RX FIFO. Keys are strings; an address and a    *)
(* byte have MON_BITS bits.                                                  *)
(*                                                                           *)
(* uart_echo.c: a polled phase, then interrupts tried one link at a time (a  *)
(* pending bit, an ecall, the software interrupt) and an interrupt-driven    *)
(* phase that sleeps in wfi. The UART raises its line while a byte is queued *)
(* and CTRL.RX_IE is set; the peer sends its bytes whenever it likes. No     *)
(* other cause reaches the handler, so its bad_cause branch has no step.     *)
EXTENDS Integers, Sequences
CONSTANTS
  IN_BUF_SIZE,     \* the line buffer; its last entry is never used
  UART_DEPTH,      \* entries of each FIFO
  MON_BITS,
  MonScripts       \* sessions: the keys, the memory and the dump they must lead to
(* what the program prints of its own accord is on no key *)
ASSUME MonAssumption ==
  /\ IN_BUF_SIZE \in Nat \ {0} /\ UART_DEPTH \in Nat \ {0} /\ MON_BITS \in Nat \ {0}
  /\ \A s \in MonScripts : s.keys \in Seq(STRING) /\ \A i \in 1..Len(s.keys) : s.keys[i] \notin {"newline", "erase", "byte"}

VARIABLES
  msession,        \* the session
  typed,           \* how many of its keys the terminal has sent
  urx, utx, out,   \* the FIFOs, and what the program is about to send
  screen,          \* the line as the terminal shows it
  mpc,             \* "line", "parse" or "block"
  in_buf, y, mode, \* the line, the parser's place and mode
  xam, st_addr, end,
  mmem, dumped     \* memory, and the bytes dumped
monVars == <<msession, typed, urx, utx, out, screen, mpc, in_buf, y, mode, xam, st_addr, end, mmem, dumped>>
lineVars == <<msession, typed, urx, utx, screen>>
memVars == <<xam, st_addr, end, mmem, dumped>>

ADDRS == 2 ^ MON_BITS
HexDigits == [k \in {"0", "1", "2", "3"} |-> CASE k = "0" -> 0 [] k = "1" -> 1 [] k = "2" -> 2 [] k = "3" -> 3]
is_hex_digit(c) == c \in DOMAIN HexDigits

(* The terminal and the UART: keys in, characters out *)
Type ==
  /\ typed < Len(msession.keys) /\ Len(urx) < UART_DEPTH
  /\ urx' = Append(urx, msession.keys[typed + 1]) /\ typed' = typed + 1
  /\ UNCHANGED <<msession, utx, out, screen, mpc, in_buf, y, mode, memVars>>
(* uart_putc: spins while the TX FIFO is full *)
uart_putc ==
  /\ out # <<>> /\ Len(utx) < UART_DEPTH
  /\ utx' = Append(utx, Head(out)) /\ out' = Tail(out)
  /\ UNCHANGED <<msession, typed, urx, screen, mpc, in_buf, y, mode, memVars>>
Shown(s, c) ==
  CASE c = "newline" -> <<>>
    [] c = "erase" -> SubSeq(s, 1, Len(s) - 1)
    [] OTHER -> Append(s, c)
Send ==
  /\ utx # <<>> /\ utx' = Tail(utx) /\ screen' = Shown(screen, Head(utx))
  /\ UNCHANGED <<msession, typed, urx, out, mpc, in_buf, y, mode, memVars>>

(* get_line: uart_getc, then edit or echo *)
Backspace ==
  \/ in_buf # <<>> /\ in_buf' = SubSeq(in_buf, 1, Len(in_buf) - 1) /\ out' = <<"erase">>
  \/ in_buf = <<>> /\ UNCHANGED <<in_buf, out>>
(* Mutant: the key is echoed before the buffer is looked at. *)
KeyAlwaysEchoed(c) ==
  out' = <<c>> /\ in_buf' = IF Len(in_buf) < IN_BUF_SIZE - 1 THEN Append(in_buf, c) ELSE in_buf
Key(c) ==
  \/ Len(in_buf) < IN_BUF_SIZE - 1 /\ in_buf' = Append(in_buf, c) /\ out' = <<c>>
  \/ Len(in_buf) = IN_BUF_SIZE - 1 /\ UNCHANGED <<in_buf, out>>
get_line ==
  /\ mpc = "line" /\ out = <<>> /\ urx # <<>> /\ urx' = Tail(urx)
  /\ LET c == Head(urx) IN
       \/ /\ c = "cr"
          /\ mpc' = "parse" /\ y' = 1 /\ mode' = "xam" /\ out' = <<"newline">> /\ UNCHANGED in_buf
       \/ c = "bs" /\ Backspace /\ UNCHANGED <<mpc, y, mode>>
       \/ c \notin {"cr", "bs"} /\ Key(c) /\ UNCHANGED <<mpc, y, mode>>
  /\ UNCHANGED <<msession, typed, utx, screen, memVars>>

(* one turn of the parser: a delimiter, a call, a number, or the end of the line *)
DigitsEnd(i) == CHOOSE j \in i..Len(in_buf) + 1 :
  /\ \A k \in i..j - 1 : is_hex_digit(in_buf[k])
  /\ j <= Len(in_buf) => ~is_hex_digit(in_buf[j])
HexValue(i, j) ==
  LET v[k \in i - 1..j - 1] == IF k = i - 1 THEN 0 ELSE (4 * v[k - 1] + HexDigits[in_buf[k]]) % ADDRS
  IN v[j - 1]
Prompt == mpc' = "line" /\ in_buf' = <<>> /\ out' = <<"newline">> /\ UNCHANGED <<y, mode, memVars>>
At(c) == y <= Len(in_buf) /\ in_buf[y] = c
Mode(c, m) == At(c) /\ mode' = m /\ y' = y + 1 /\ UNCHANGED <<mpc, in_buf, out, memVars>>
Number ==
  /\ y <= Len(in_buf) /\ is_hex_digit(in_buf[y])
  /\ y' = DigitsEnd(y) /\ UNCHANGED in_buf
  /\ LET v == HexValue(y, y') IN
       \/ /\ mode = "stor"
          /\ mmem' = [mmem EXCEPT ![st_addr] = v] /\ st_addr' = (st_addr + 1) % ADDRS
          /\ UNCHANGED <<mpc, mode, out, xam, end, dumped>>
       \/ /\ mode = "block"
          /\ end' = v /\ mpc' = "block"
          /\ UNCHANGED <<mode, out, xam, st_addr, mmem, dumped>>
       \/ /\ mode = "xam"
          /\ xam' = v /\ st_addr' = v /\ dumped' = Append(dumped, mmem[v]) /\ out' = <<"byte">>
          /\ UNCHANGED <<mpc, mode, end, mmem>>
Parse ==
  /\ mpc = "parse" /\ out = <<>>
  /\ \/ Mode(".", "block") \/ Mode(":", "stor") \/ Mode(" ", mode)
     \/ At("R") /\ y' = Len(in_buf) + 1 /\ UNCHANGED <<mpc, mode, in_buf, out, memVars>>
     \/ Number
     \/ At("?") /\ Prompt
     \/ y > Len(in_buf) /\ Prompt
  /\ UNCHANGED lineVars
(* MODE_BLOCK: dump up to and including end, around the top of memory if need be *)
Block ==
  /\ mpc = "block" /\ out = <<>>
  /\ dumped' = Append(dumped, mmem[xam]) /\ out' = <<"byte">>
  /\ IF xam = end THEN mpc' = "parse" /\ mode' = "xam" /\ UNCHANGED xam
     ELSE xam' = (xam + 1) % ADDRS /\ UNCHANGED <<mpc, mode>>
  /\ UNCHANGED <<lineVars, in_buf, y, st_addr, end, mmem>>

MonCpu == uart_putc \/ get_line \/ Parse \/ Block
MonNext == MonCpu \/ Type \/ Send
MonIdle ==
  /\ typed = 0 /\ urx = <<>> /\ utx = <<>> /\ out = <<>> /\ screen = <<>> /\ mpc = "line" /\ in_buf = <<>>
  /\ y = 1 /\ mode = "xam" /\ xam = 0 /\ st_addr = 0 /\ end = 0 /\ mmem = [a \in 0..ADDRS - 1 |-> 0] /\ dumped = <<>>
MonInit == MonIdle /\ msession \in MonScripts
MonSpec == MonInit /\ [][MonNext]_monVars
MonDone == typed = Len(msession.keys) /\ urx = <<>> /\ utx = <<>> /\ out = <<>> /\ mpc = "line"

-----------------------------------------------------------------------------
(* What the terminal shows once the output has drained is the line the monitor will parse: edits   *)
(* past the start and keys past the buffer included.                                                *)
Terminal(line, chars) ==
  LET s[i \in 0..Len(chars)] == IF i = 0 THEN line ELSE Shown(s[i - 1], chars[i]) IN s[Len(chars)]
Drained == Terminal(screen, utx \o out)
EchoIsTheLine == mpc = "line" => Drained = in_buf

(* A session leaves the memory it asked for and dumps the bytes it asked for. *)
MonSession == MonDone => mmem = msession.mem /\ dumped = msession.dump

-----------------------------------------------------------------------------
(* uart_echo.c *)
CONSTANT PHASE_CHARS     \* bytes of each phase; a byte is its number
ASSUME EchoAssumption == PHASE_CHARS \in Nat

VARIABLES
  epc,                   \* the program's place
  sent, erx, echoed,     \* bytes sent, the RX FIFO, bytes echoed in order
  rxie, mie, msip,       \* CTRL.RX_IE, the mie bits, the software interrupt
  mstatus,               \* MIE, and MPIE as the trap saved it
  handler,               \* the cause being handled, or "none"
  count,                 \* irq_chars, sync_traps and msi_count
  verdict                \* *result
echoVars == <<epc, sent, erx, echoed, rxie, mie, msip, mstatus, handler, count, verdict>>

mip == (IF rxie /\ erx # <<>> THEN {"MEI"} ELSE {}) \cup (IF msip THEN {"MSI"} ELSE {})
Pending == mip \cap mie
Runs == handler = "none" /\ ~(mstatus.MIE /\ Pending # {})
Echo == erx # <<>> /\ echoed' = Append(echoed, Head(erx)) /\ erx' = Tail(erx)

PeerSends ==
  /\ sent < 2 * PHASE_CHARS /\ erx' = Append(erx, sent) /\ sent' = sent + 1
  /\ UNCHANGED <<epc, echoed, rxie, mie, msip, mstatus, handler, count, verdict>>

(* trap entry saves and clears MIE; MEI outranks MSI; a taken interrupt ends wfi *)
Enter(cause) == handler' = cause /\ mstatus' = [MIE |-> FALSE, MPIE |-> mstatus.MIE]
TakeInterrupt ==
  /\ handler = "none" /\ mstatus.MIE /\ Pending # {}
  /\ Enter(IF "MEI" \in Pending THEN "MEI" ELSE "MSI")
  /\ epc' = IF epc = "asleep" THEN "test" ELSE epc
  /\ UNCHANGED <<sent, erx, echoed, rxie, mie, msip, count, verdict>>

(* trap_handler: the software interrupt is a level until cleared, an ecall is stepped over, the    *)
(* external interrupt drains the FIFO; then mret                                                   *)
Mret == handler' = "none" /\ mstatus' = [MIE |-> mstatus.MPIE, MPIE |-> TRUE]
trap_handler ==
  /\ \/ /\ handler = "MSI" /\ msip' = FALSE /\ count' = [count EXCEPT !.msi = @ + 1] /\ Mret
        /\ UNCHANGED <<erx, echoed>>
     \/ /\ handler = "ecall" /\ count' = [count EXCEPT !.sync = @ + 1] /\ Mret
        /\ UNCHANGED <<msip, erx, echoed>>
     \/ /\ handler = "MEI" /\ Echo /\ count' = [count EXCEPT !.irq = @ + 1]
        /\ UNCHANGED <<msip, handler, mstatus>>
     \/ /\ handler = "MEI" /\ erx = <<>> /\ Mret
        /\ UNCHANGED <<msip, erx, echoed, count>>
  /\ UNCHANGED <<epc, sent, rxie, mie, verdict>>

(* main() *)
At2(p, q) == Runs /\ epc = p /\ epc' = q /\ UNCHANGED sent
Poll ==
  /\ Runs /\ epc = "poll" /\ Echo
  /\ epc' = IF Len(echoed') = PHASE_CHARS THEN "arm" ELSE "poll"
  /\ UNCHANGED <<sent, rxie, mie, msip, mstatus, handler, count, verdict>>
Arm ==
  /\ At2("arm", "pend") /\ rxie' = TRUE /\ mie' = {"MEI"}
  /\ UNCHANGED <<erx, echoed, msip, mstatus, handler, count, verdict>>
SeePending ==
  /\ At2("pend", "msi") /\ "MEI" \in mip /\ Enter("ecall")
  /\ UNCHANGED <<erx, echoed, rxie, mie, msip, count, verdict>>
RaiseMsi ==
  /\ At2("msi", "spin") /\ mie' = (mie \ {"MEI"}) \cup {"MSI"} /\ msip' = TRUE
  /\ mstatus' = [mstatus EXCEPT !.MIE = TRUE]
  /\ UNCHANGED <<erx, echoed, rxie, handler, count, verdict>>
(* the bounded wait ends on the count *)
Unmask ==
  /\ At2("spin", "test") /\ count.msi > 0 /\ mie' = (mie \ {"MSI"}) \cup {"MEI"}
  /\ UNCHANGED <<erx, echoed, rxie, msip, mstatus, handler, count, verdict>>
Test ==
  /\ At2("test", IF count.irq < PHASE_CHARS THEN "wfi" ELSE "report")
  /\ UNCHANGED <<erx, echoed, rxie, mie, msip, mstatus, handler, count, verdict>>
Wfi ==
  /\ At2("wfi", "asleep")
  /\ UNCHANGED <<erx, echoed, rxie, mie, msip, mstatus, handler, count, verdict>>
Report ==
  /\ At2("report", "parked") /\ rxie' = FALSE /\ mstatus' = [mstatus EXCEPT !.MIE = FALSE]
  /\ verdict' = IF count.irq < PHASE_CHARS THEN "BAD" ELSE "GOOD"
  /\ UNCHANGED <<erx, echoed, mie, msip, handler, count>>

EchoCpu == TakeInterrupt \/ trap_handler \/ Poll \/ Arm \/ SeePending \/ RaiseMsi \/ Unmask \/ Test \/ Wfi \/ Report
EchoNext == EchoCpu \/ PeerSends
EchoIdle ==
  /\ erx = <<>> /\ echoed = <<>> /\ rxie = FALSE /\ mie = {} /\ msip = FALSE
  /\ mstatus = [MIE |-> FALSE, MPIE |-> FALSE] /\ handler = "none"
  /\ count = [irq |-> 0, sync |-> 0, msi |-> 0] /\ verdict = "none"
EchoInit == EchoIdle /\ sent = 0 /\ epc = "poll"
EchoSpec == EchoInit /\ [][EchoNext]_echoVars
(* the last byte's interrupt fell between the test and the wfi: nothing wakes the core any more *)
LostWakeup == epc = "asleep" /\ count.irq = PHASE_CHARS /\ Pending = {}

-----------------------------------------------------------------------------
(* Every byte is echoed once and in order, polled or by the handler; the ecall and the software    *)
(* interrupt are taken exactly once; the verdict is GOOD.                                           *)
EchoSession ==
  /\ \A i \in 1..Len(echoed) : echoed[i] = i - 1
  /\ count.msi <= 1 /\ count.sync <= 1
  /\ verdict # "none" => verdict = "GOOD" /\ count.msi = 1 /\ count.sync = 1
=============================================================================
