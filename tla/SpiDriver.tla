----------------------------- MODULE SpiDriver -----------------------------
(* The SPI master of axi4_lite_spi.sv byte by byte, the drivers over it      *)
(* (common/spi.h, w25q.h, mcp3208.h) as the register accesses they make, and *)
(* the device behind the chip select: the simulation's loopback, the bench's *)
(* inverting slave, a W25Q flash or an MCP3208 converter, the last two as    *)
(* their drivers use them.                                                   *)
EXTENDS Integers, Sequences, SequencesExt
CONSTANTS
  SPI_DEPTH,         \* entries of the TX and of the RX FIFO, and the window of spi_transfer_buf
  W25Q_PAGE_SIZE,    \* bytes of a flash page
  FLASH_SIZE,        \* bytes of the flash
  SpiScripts         \* the programs: a device and the calls made to it

VARIABLES
  sst, sshift,       \* state_q and the byte on the wire
  stx, srx, sovr,    \* the FIFOs and the sticky RX_OVERRUN
  cs,                \* chip select asserted
  dev,               \* the device
  sscript, scode,    \* calls left, accesses left in the current one
  sgot, sfails,      \* bytes kept by it; failed checks
  spushed            \* the last access was a TXDATA store
spiVars == <<sst, sshift, stx, srx, sovr, cs, dev, sscript, scode, sgot, sfails, spushed>>

FILL == 255
-----------------------------------------------------------------------------
(* The devices. frame is what they received since the select. *)
FlashInit == [kind |-> "flash", frame |-> <<>>, mem |-> [a \in 0..FLASH_SIZE - 1 |-> 0],
              wel |-> FALSE, wip |-> FALSE, pd |-> FALSE, ignored |-> 0]
DevInit(kind) == IF kind = "flash" THEN FlashInit ELSE [kind |-> kind, frame |-> <<>>]
WREN == 6
RDSR == 5
READ == 3
PP == 2
SE == 32
CE == 199
JEDEC == 159
PWRDN == 185
RELEASE == 171
JedecId == <<239, 64, 24>>
FrameAddr == dev.frame[4]
(* the byte a device shifts out while b shifts in *)
FlashReply ==
  LET n == Len(dev.frame) IN
  IF dev.frame = <<>> \/ dev.pd THEN FILL
  ELSE IF dev.frame[1] = RDSR THEN (IF dev.wip THEN 1 ELSE 0) + (IF dev.wel THEN 2 ELSE 0)
  ELSE IF dev.frame[1] = READ /\ n >= 4 /\ ~dev.wip THEN dev.mem[(FrameAddr + n - 4) % FLASH_SIZE]
  ELSE IF dev.frame[1] = JEDEC /\ n <= 3 /\ ~dev.wip THEN JedecId[n] ELSE FILL
AdcValue(single, ch) == 260 * ch + (IF single THEN 3 ELSE 0)
AdcReply ==
  LET single == (dev.frame[1] \div 2) % 2 = 1
      v(b2) == AdcValue(single, 4 * (dev.frame[1] % 2) + (b2 \div 64))
  IN IF dev.frame = <<>> THEN FILL
     ELSE IF Len(dev.frame) = 1 THEN 224 + (v(sshift) \div 256)
     ELSE v(dev.frame[2]) % 256
(* the bench slave answers every byte with its complement and keeps what it captured *)
Reply == CASE dev.kind = "loop" -> sshift [] dev.kind = "bench" -> 255 - sshift
           [] dev.kind = "flash" -> FlashReply [] dev.kind = "adc" -> AdcReply

(* what the flash does when the select rises: only RDSR is served while it is busy, only RELEASE   *)
(* in power-down, and a program or erase only with WEL latched                                     *)
PageBase(a) == (a \div W25Q_PAGE_SIZE) * W25Q_PAGE_SIZE
AndByte(a, b) == MapThenSumSet(LAMBDA i : 2^i * ((a \div 2^i) % 2) * ((b \div 2^i) % 2), 0..7)
Programmed(f) ==
  LET a == f[4]  n == Len(f) - 4
      cell(i) == PageBase(a) + ((a + i - 1) % W25Q_PAGE_SIZE)
  IN [c \in DOMAIN dev.mem |->
        LET hits == {i \in 1..n : cell(i) = c} IN
        IF hits = {} THEN dev.mem[c]
        ELSE AndByte(dev.mem[c], f[4 + CHOOSE i \in hits : \A j \in hits : j <= i])]
FlashEnd(f) ==
  IF f = <<>> THEN dev
  ELSE IF dev.pd THEN IF f[1] = RELEASE THEN [dev EXCEPT !.pd = FALSE] ELSE [dev EXCEPT !.ignored = @ + 1]
  ELSE IF dev.wip THEN IF f[1] = RDSR THEN dev ELSE [dev EXCEPT !.ignored = @ + 1]
  ELSE
  CASE f[1] = WREN -> [dev EXCEPT !.wel = TRUE]
    [] f[1] = PWRDN -> [dev EXCEPT !.pd = TRUE]
    [] f[1] \in {PP, SE, CE} /\ ~dev.wel -> [dev EXCEPT !.ignored = @ + 1]
    [] f[1] = PP /\ dev.wel -> [dev EXCEPT !.mem = Programmed(f), !.wip = TRUE]
    [] f[1] = SE /\ dev.wel ->
         [dev EXCEPT !.wip = TRUE,
            !.mem = [c \in DOMAIN dev.mem |-> IF c \div (2 * W25Q_PAGE_SIZE) = f[4] \div (2 * W25Q_PAGE_SIZE)
                                               THEN FILL ELSE dev.mem[c]]]
    [] f[1] = CE /\ dev.wel -> [dev EXCEPT !.wip = TRUE, !.mem = [c \in DOMAIN dev.mem |-> FILL]]
    [] OTHER -> dev
Deselected == [IF dev.kind = "flash" THEN FlashEnd(dev.frame) ELSE dev EXCEPT !.frame = <<>>]
(* the self-timed program or erase ends and WEL drops *)
FlashDone ==
  /\ dev.kind = "flash" /\ dev.wip
  /\ dev' = [dev EXCEPT !.wip = FALSE, !.wel = FALSE]
  /\ UNCHANGED <<sst, sshift, stx, srx, sovr, cs, sscript, scode, sgot, sfails, spushed>>

-----------------------------------------------------------------------------
(* The engine *)
SpiLaunch ==
  /\ sst = "idle" /\ stx # <<>>
  /\ sst' = "shift" /\ sshift' = Head(stx) /\ stx' = Tail(stx)
  /\ UNCHANGED <<srx, sovr, cs, dev, sscript, scode, sgot, sfails, spushed>>
(* eight bits in and out, in any of the four modes; then ST_DONE pushes the byte or drops it. A    *)
(* device whose select is high ignores the byte and leaves the line high.                          *)
SpiByte ==
  /\ sst = "shift" /\ sst' = "idle"
  /\ LET b == IF cs THEN Reply ELSE FILL IN
       IF Len(srx) < SPI_DEPTH THEN srx' = Append(srx, b) /\ UNCHANGED sovr
       ELSE sovr' = TRUE /\ UNCHANGED srx
  /\ dev' = IF cs THEN [dev EXCEPT !.frame = Append(@, sshift)] ELSE dev
  /\ UNCHANGED <<sshift, stx, cs, sscript, scode, sgot, sfails, spushed>>
SpiEngine == SpiLaunch \/ SpiByte

-----------------------------------------------------------------------------
(* spi.h, w25q.h and mcp3208.h *)
Cs(v) == [k |-> "cs", v |-> v]
spi_select == <<Cs(TRUE)>>
spi_deselect == <<Cs(FALSE)>>
SpiWord(b) == <<[k |-> "push", b |-> b], [k |-> "busy"]>>
spi_transfer(b) == SpiWord(b) \o <<[k |-> "pop", keep |-> TRUE]>>
spi_send1(b) == SpiWord(b) \o <<[k |-> "pop", keep |-> FALSE]>>
spi_transfer_buf(b, keep) ==
  IF b = <<>> THEN <<>> ELSE <<[k |-> "buf", b |-> b, pushed |-> 0, popped |-> 0, keep |-> keep]>>
spi_send(b) == spi_transfer_buf(b, FALSE)
spi_read(n) == spi_transfer_buf([i \in 1..n |-> FILL], TRUE)
spi_wide(bytes) == FlattenSeq([i \in 1..Len(bytes) |-> spi_transfer(bytes[i])])   \* transfer16, transfer32, read16, read32
spi_wide_out(bytes) == FlattenSeq([i \in 1..Len(bytes) |-> spi_send1(bytes[i])])    \* send16, send32
spi_framed(ops) == spi_select \o ops \o spi_deselect

w25q_status == spi_framed(spi_send1(RDSR) \o <<[k |-> "push", b |-> FILL], [k |-> "busy"], [k |-> "status"]>>)
w25q_wait_ready == w25q_status \o <<[k |-> "again"]>>
w25q_jedec_id == spi_framed(spi_send1(JEDEC) \o spi_read(3))
w25q_read(a, n) == spi_framed(spi_send(<<READ, 0, 0, a>>) \o spi_read(n))
w25q_wren == spi_framed(spi_send1(WREN))
w25q_chunk(a, buf) ==
  w25q_wren
    \o spi_framed(spi_send1(PP) \o spi_send1(0) \o spi_send1(0) \o spi_send1(a) \o spi_send(buf))
    \o w25q_wait_ready
(* Mutant: pages are counted from the start of the write. *)
ChunkUnaligned(a, len) == Min({len, W25Q_PAGE_SIZE})
(* one page program per page touched *)
ChunkLen(a, len) == Min({len, W25Q_PAGE_SIZE - (a % W25Q_PAGE_SIZE)})
w25q_write(a, buf) ==
  LET w[i \in 0..Len(buf)] ==
        IF i = Len(buf) THEN <<>>
        ELSE LET n == ChunkLen(a + i, Len(buf) - i)
             IN w25q_chunk(a + i, SubSeq(buf, i + 1, i + n)) \o w[i + n]
  IN w[0]
w25q_erase_cmd(c, a) ==
  w25q_wren \o spi_framed(spi_send1(c) \o spi_send1(0) \o spi_send1(0) \o spi_send1(a)) \o w25q_wait_ready
w25q_erase_sector(a) == w25q_erase_cmd(SE, a)
w25q_erase_chip == w25q_wren \o spi_framed(spi_send1(CE)) \o w25q_wait_ready
w25q_power_down == spi_framed(spi_send1(PWRDN))
w25q_wake == spi_framed(spi_send1(RELEASE) \o spi_send1(FILL))

McpRead(start, ch) == spi_framed(spi_send1(start + (ch \div 4)) \o spi_transfer(64 * (ch % 4)) \o spi_transfer(0))
mcp3208_read(ch) == McpRead(6, ch)
mcp3208_read_diff(pair) == McpRead(4, 2 * pair)

(* the bench: a byte with the select toggled around it, read later; the sticky overrun, W1C *)
spi_xfer(b) == spi_framed(SpiWord(b))
SpiRxData == <<[k |-> "pop", keep |-> TRUE]>>
spi_xfer_one(b) == spi_xfer(b) \o SpiRxData
ExpectOvr(v) == <<[k |-> "ovr", v |-> v]>>
ClearOvr == <<[k |-> "w1c"]>>

SpiCall(ops, want) == [ops |-> ops, want |-> want]

-----------------------------------------------------------------------------
(* The CPU. The access after a TXDATA store lands once the engine, if idle, has taken the byte;    *)
(* between two bytes of a burst the engine is idle for a clock and a STATUS read may fall there.   *)
SpiReady == scode # <<>> /\ ~(spushed /\ sst = "idle" /\ stx # <<>>)
SpiAt(k) == SpiReady /\ Head(scode).k = k
SpiRx == IF srx = <<>> THEN 0 ELSE Head(srx)
(* Mutant: reading RXDATA does not take the byte. *)
StaysQueued == srx' = srx
SpiPopped == srx' = IF srx = <<>> THEN srx ELSE Tail(srx)
SpiCs ==
  /\ SpiAt("cs") /\ cs' = Head(scode).v /\ scode' = Tail(scode) /\ spushed' = FALSE
  /\ dev' = IF cs /\ ~cs' THEN Deselected ELSE dev
  /\ UNCHANGED <<sst, sshift, stx, srx, sovr, sscript, sgot, sfails>>
SpiPush ==
  /\ SpiAt("push") /\ Len(stx) < SPI_DEPTH
  /\ stx' = Append(stx, Head(scode).b) /\ scode' = Tail(scode) /\ spushed' = TRUE
  /\ UNCHANGED <<sst, sshift, srx, sovr, cs, dev, sscript, sgot, sfails>>
SpiBusyWait ==
  /\ SpiAt("busy") /\ sst = "idle" /\ scode' = Tail(scode) /\ spushed' = FALSE
  /\ UNCHANGED <<sst, sshift, stx, srx, sovr, cs, dev, sscript, sgot, sfails>>
SpiPop ==
  /\ SpiAt("pop") /\ SpiPopped
  /\ sgot' = IF Head(scode).keep THEN Append(sgot, SpiRx) ELSE sgot
  /\ scode' = Tail(scode) /\ spushed' = FALSE
  /\ UNCHANGED <<sst, sshift, stx, sovr, cs, dev, sscript, sfails>>
(* Mutant: another bit of the status. *)
WrongBit(status) == (status \div 4) % 2 = 1
StillBusy(status) == status % 2 = 1
(* the status byte goes to the test of w25q_wait_ready; "again" repeats the poll while WIP *)
SpiStatus ==
  /\ SpiAt("status") /\ SpiPopped
  /\ scode' = (LET rest == Tail(scode) IN
                 IF Len(rest) >= 2 /\ rest[2].k = "again"
                 THEN IF StillBusy(SpiRx) THEN <<rest[1]>> \o w25q_wait_ready \o SubSeq(rest, 3, Len(rest))
                      ELSE <<rest[1]>> \o SubSeq(rest, 3, Len(rest))
                 ELSE rest)
  /\ spushed' = FALSE
  /\ UNCHANGED <<sst, sshift, stx, sovr, cs, dev, sscript, sgot, sfails>>
(* spi_transfer_buf: fill the window, then wait for a byte *)
(* Mutant: one byte more in flight than the RX FIFO holds. *)
WindowOneMore(o) == o.pushed < Len(o.b) /\ o.pushed - o.popped <= SPI_DEPTH /\ Len(stx) < SPI_DEPTH
CanPush(o) == o.pushed < Len(o.b) /\ o.pushed - o.popped < SPI_DEPTH /\ Len(stx) < SPI_DEPTH
SpiBufPush ==
  /\ SpiAt("buf") /\ CanPush(Head(scode))
  /\ stx' = Append(stx, Head(scode).b[Head(scode).pushed + 1])
  /\ scode' = [scode EXCEPT ![1].pushed = @ + 1] /\ spushed' = TRUE
  /\ UNCHANGED <<sst, sshift, srx, sovr, cs, dev, sscript, sgot, sfails>>
SpiBufPop ==
  /\ SpiAt("buf") /\ ~CanPush(Head(scode)) /\ Head(scode).popped < Len(Head(scode).b) /\ srx # <<>>
  /\ SpiPopped
  /\ sgot' = IF Head(scode).keep THEN Append(sgot, SpiRx) ELSE sgot
  /\ scode' = IF Head(scode).popped + 1 = Len(Head(scode).b) THEN Tail(scode)
              ELSE [scode EXCEPT ![1].popped = @ + 1]
  /\ spushed' = FALSE
  /\ UNCHANGED <<sst, sshift, stx, sovr, cs, dev, sscript, sfails>>
SpiOvr ==
  /\ SpiAt("ovr") /\ sfails' = sfails + (IF sovr = Head(scode).v THEN 0 ELSE 1)
  /\ scode' = Tail(scode) /\ spushed' = FALSE
  /\ UNCHANGED <<sst, sshift, stx, srx, sovr, cs, dev, sscript, sgot>>
SpiClearOvr ==
  /\ SpiAt("w1c") /\ sovr' = FALSE /\ scode' = Tail(scode) /\ spushed' = FALSE
  /\ UNCHANGED <<sst, sshift, stx, srx, cs, dev, sscript, sgot, sfails>>
SpiReturn ==
  /\ scode = <<>> /\ sscript # <<>>
  /\ sfails' = sfails + IF sgot = Head(sscript).want THEN 0 ELSE 1
  /\ sscript' = Tail(sscript) /\ scode' = IF sscript' = <<>> THEN <<>> ELSE Head(sscript').ops
  /\ sgot' = <<>>
  /\ UNCHANGED <<sst, sshift, stx, srx, sovr, cs, dev, spushed>>
SpiCpu == \/ SpiCs \/ SpiPush \/ SpiBusyWait \/ SpiPop \/ SpiStatus \/ SpiBufPush \/ SpiBufPop
  \/ SpiOvr \/ SpiClearOvr \/ SpiReturn

SpiReset == sst = "idle" /\ sshift = 0 /\ stx = <<>> /\ srx = <<>> /\ sovr = FALSE /\ cs = FALSE
  /\ sgot = <<>> /\ sfails = 0 /\ spushed = FALSE
SpiInit ==
  /\ SpiReset
  /\ \E p \in SpiScripts : dev = DevInit(p.dev) /\ sscript = p.calls /\ scode = Head(p.calls).ops
SpiNext == SpiCpu \/ SpiEngine \/ FlashDone
SpiSpec == SpiInit /\ [][SpiNext]_spiVars

-----------------------------------------------------------------------------
(* Programs that use the drivers: a byte is pushed, waited for and taken; spi_transfer_buf has not  *)
(* begun. (The bench takes its bytes later.)                                                        *)
Fits(kind, f, g) ==
  /\ f.k = "push" <=> g.k = "busy"
  /\ kind # "bench" => (f.k = "busy" <=> g.k \in {"pop", "status"})
UsesSpiLib(kind, ops) ==
  /\ Len(ops) \in Nat /\ ops = [i \in 1..Len(ops) |-> ops[i]]
  /\ \A i \in 1..Len(ops) - 1 : Fits(kind, ops[i], ops[i + 1])
  /\ ops # <<>> => /\ ops[1].k # "busy" /\ ops[Len(ops)].k # "push"
                   /\ kind # "bench" => ops[1].k \notin {"pop", "status"} /\ ops[Len(ops)].k # "busy"
  /\ \A i \in 1..Len(ops) :
       ops[i].k = "buf" =>
         /\ kind # "bench" /\ ops[i].b \in Seq(0..255)
         /\ ops[i] = [k |-> "buf", b |-> ops[i].b, pushed |-> 0, popped |-> 0, keep |-> ops[i].keep]

(* Programs that use the flash through w25q.h: whole frames between the selects. A status is read   *)
(* by w25q_status, repeated if "again" follows. What comes after a frame depends on its command F:  *)
(* program and erase are polled for and come after a write enable, a wake comes after power-down.   *)
Programs == {PP, SE, CE}
Selects(o) == o.k = "cs" /\ o.v
Deselects(o) == o.k = "cs" /\ ~o.v
Command(o) == IF o.k = "push" THEN o.b ELSE o.b[1]
Follow(f, g) ==
  CASE f.k = "cs" /\ f.v -> g.k \in {"push", "buf"}
    [] f.k = "cs" /\ ~f.v -> Selects(g) \/ g.k = "again"
    [] f.k = "again" -> Selects(g)
    [] OTHER -> ~Selects(g) /\ g.k # "again"
Polls(ops, s) == Len(ops) >= s + 8 /\ \A q \in 1..9 : ops[s + q - 1] = w25q_wait_ready[q]
After(F, ops, d) ==
  /\ d < Len(ops) /\ ops[d + 1].k = "again" => F = RDSR
  /\ F \in Programs => Polls(ops, d + 1)
  /\ F = PWRDN => d = Len(ops)
  /\ F # WREN => \A n \in {d + 1, d + 2} : n < Len(ops) /\ Selects(ops[n]) => Command(ops[n + 1]) \notin Programs
(* ops[s] is access p of a w25q_status *)
InStatus(ops, s, p) ==
  s + 8 - p <= Len(ops) /\ \A q \in p..8 : ops[s + q - p] = w25q_status[q]
(* the rest of a frame with the command F, from ops[s] on *)
Frame(F, ops, s) ==
  IF F = RDSR THEN InStatus(ops, s, 2) /\ After(F, ops, s + 6)
  ELSE \A d \in s..Len(ops) :
         (\A i \in s..d - 1 : ~Deselects(ops[i])) =>
            ops[d].k # "status" /\ (Deselects(ops[d]) => After(F, ops, d))
UsesFlashLib(ops) ==
  /\ Len(ops) >= 2 /\ Selects(ops[1]) /\ Command(ops[2]) \notin Programs
  /\ Deselects(ops[Len(ops)]) \/ ops[Len(ops)].k = "again"
  /\ \A i \in 1..Len(ops) :
       /\ ops[i].k \in {"cs", "push", "busy", "pop", "status", "buf", "again"}
       /\ i < Len(ops) => Follow(ops[i], ops[i + 1])
       /\ Selects(ops[i]) => Frame(Command(ops[i + 1]), ops, i + 1)
Sleeps(ops) == \E i \in 1..Len(ops) - 1 : Selects(ops[i]) /\ Command(ops[i + 1]) = PWRDN
ASSUME PageAssumption == W25Q_PAGE_SIZE \in Nat \ {0}
ASSUME SpiAssumption ==
  /\ SPI_DEPTH \in Nat \ {0}
  /\ \A p \in SpiScripts :
       /\ Len(p.calls) \in Nat \ {0} /\ p.calls = [c \in 1..Len(p.calls) |-> p.calls[c]]
       /\ \A c \in 1..Len(p.calls) :
            /\ UsesSpiLib(p.dev, p.calls[c].ops)
            /\ p.dev = "flash" =>
                 /\ UsesFlashLib(p.calls[c].ops)
                 /\ c < Len(p.calls) /\ Sleeps(p.calls[c].ops) => Command(p.calls[c + 1].ops[2]) = RELEASE
-----------------------------------------------------------------------------
(* A select or deselect never cuts a byte: the engine is idle and both FIFOs are empty when CS     *)
(* changes, whatever the transfer functions left behind. (The bench leaves received bytes queued.)  *)
CsAtByteBoundary == SpiAt("cs") => sst = "idle" /\ stx = <<>> /\ (srx = <<>> \/ dev.kind = "bench")

(* The flash accepts every command: none is sent while it is busy, asleep, or without WEL. *)
FlashHeedsAll == dev.kind = "flash" => dev.ignored = 0

=============================================================================
