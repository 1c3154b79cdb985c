------------------------------ MODULE MCSerial ------------------------------
(* Programs over the I2C master, the SPI master and the UART, and the        *)
(* firmware's computations. They share nothing: a behaviour is one program   *)
(* on one block, or one computation.                                         *)
EXTENDS I2cDriver, SpiDriver, UartPrograms, MCPure

ABSENT == SLAVE + 1
Probe(a, x) == Call(i2c_probe(a), x, <<>>, WriteFrame(a, <<>>))
WriteReg(r, v) == Call(i2c_write_reg(SLAVE, r, v), "ok", <<>>, WriteFrame(SLAVE, <<r, v>>))
ReadReg(r, v) == Call(i2c_read_reg(SLAVE, r), "ok", <<v>>, ReadFrame(SLAVE, r, <<v>>))
(* i2c_reg.c, scaled with the FIFO: part 4 is longer than the FIFO and wraps the pointer *)
I2cReg ==
  <<ReadReg(3, 19),
    WriteReg(3, 171),
    ReadReg(3, 171),
    CallWriteRegs(SLAVE, 0, <<192, 193>>, "ok"),
    CallReadRegs(SLAVE, 0, <<192, 193>>, "ok"),
    CallWriteRegs(SLAVE, 0, <<32, 33, 34, 35, 36>>, "ok"),
    CallReadRegs(SLAVE, 0, <<36, 33, 34, 35>>, "ok"),
    Probe(SLAVE, "ok"),
    Probe(ABSENT, "nack"),
    CallWrite(ABSENT, <<32, 33>>, "nack"),
    WriteReg(3, 90),
    ReadReg(3, 90)>>
(* i2c_scan.c: probe every address *)
I2cScan == [i \in 1..4 |-> Probe(SLAVE - 2 + i, IF i = 2 THEN "ok" ELSE "nack")]
(* the bench: round trip, bursts, a NACK cleared by W1C, an RX overrun *)
I2cTb ==
  <<Call(tb_write(SLAVE, <<3, 171>>), "ok", <<>>, <<>>),
    Call(tb_read_burst(SLAVE, 3, 1), "ok", <<171>>, <<>>),
    Call(tb_write(SLAVE, <<0, 192, 193>>), "ok", <<>>, <<>>),
    Call(tb_read_burst(SLAVE, 0, 2), "ok", <<192, 193>>, <<>>),
    Call(tb_write(ABSENT, <<0, 255>>) \o <<Expect({"nack"}), Clear, Expect({})>>, "ok", <<>>, <<>>),
    Call(tb_read_burst(SLAVE, 0, FIFO_DEPTH + 1) \o <<Expect({"ovr"})>>, "ok", <<192, 193, 18, 171, 0>>, <<>>)>>
(* the command register by hand: a write continued over two commands, a STOP with nothing to send, *)
(* a write released by i2c_stop, a read continued by a queued command, a read with no address       *)
RawCommands ==
  <<Call(<<Push(2 * SLAVE), Cmd({"start"}), WaitIdle, Push(1), Push(9), Cmd({"stop"}), WaitIdle>>,
         "ok", <<>>, WriteFrame(SLAVE, <<1, 9>>)),
    Call(<<Cmd({"stop"}), WaitIdle>>, "ok", <<>>, <<>>),
    Call(<<Push(2 * SLAVE), Push(1), Cmd({"start"}), WaitIdle>> \o i2c_stop,
         "ok", <<>>, <<START, 2 * SLAVE, 1, START, STOP>>),
    Call(i2c_write(SLAVE, <<1>>) \o <<Push(2 * SLAVE + 1), Cmd({"start"}), WaitIdle, Cmd({"read"}),
           Cmd({"read", "nack", "stop"}), WaitIdle, WaitIdle, Pop, Pop>>,
         "ok", <<9, 18>>, <<START, 2 * SLAVE, 1, STOP, START, 2 * SLAVE + 1, 9, 18, STOP>>),
    Call(<<Cmd({"start", "read", "nack", "stop"}), WaitIdle, Pop>>, "ok", <<255>>, <<START, 255, STOP>>)>>
(* a device that is busy, a second master, and any two calls in a row; register 0 keeps its 16 *)
Calls == {CallWrite(a, b, "any") : a \in {SLAVE, ABSENT}, b \in {<<>>, <<1, 7>>}}
  \cup {CallWriteRegs(a, 2, <<7, 8>>, "any") : a \in {SLAVE, ABSENT}}
  \cup {CallRead(ABSENT, d, "any") : d \in {<<>>, <<16, 17>>}}
  \cup {CallReadRegs(SLAVE, 0, <<16>>, "any")}
Pairs == {<<c, d>> : c, d \in Calls}
(* reads from where a write left the register pointer, past its wrap, then any call, or a last read *)
Pointer(p) == CallWrite(SLAVE, <<p>>, "ok")
Next2(p) == <<16 + p, 16 + ((p + 1) % NREGS)>>
Reads == {<<Pointer(p), CallRead(SLAVE, Next2(p), "ok"), d>> : p \in {0, 3}, d \in Calls}
  \cup {<<Pointer(p), CallRead(SLAVE, Next2(p), "any")>> : p \in {0, 3}}
MCScripts == {I2cReg, I2cScan, I2cTb, RawCommands} \cup Pairs \cup Reads
(* a read of no bytes of the device, by i2c_read or by i2c_read_regs, then a register write *)
EmptyRead ==
  {<<c, CallWriteRegs(SLAVE, 3, <<90>>, "ok")>> :
     c \in {CallRead(SLAVE, <<>>, "ok"), CallReadRegs(SLAVE, 0, <<>>, "ok")}}
(* a write longer than the FIFO to a device that is not there, then a register write *)
LongWrite == {<<CallWriteRegs(ABSENT, 0, <<1, 2, 3, 4, 5, 6>>, "nack"), CallWriteRegs(SLAVE, 3, <<90>>, "ok")>>}
Ramp(n) == [i \in 1..n |-> 96 + i]
SpiLoop ==
  [dev |-> "loop", calls |->
    <<SpiCall(spi_framed(spi_transfer(165)), <<165>>),
      SpiCall(spi_framed(spi_transfer_buf(Ramp(SPI_DEPTH), TRUE)), Ramp(SPI_DEPTH)),
      SpiCall(spi_framed(spi_transfer_buf(Ramp(2 * SPI_DEPTH + 2), TRUE)), Ramp(2 * SPI_DEPTH + 2)),
      SpiCall(spi_framed(spi_send(Ramp(3))), <<>>),
      SpiCall(spi_framed(spi_read(3)), <<FILL, FILL, FILL>>),
      SpiCall(spi_framed(spi_wide(<<18, 52>>) \o spi_wide(<<137, 171, 205, 239>>) \o spi_wide_out(<<190, 239>>)
                           \o spi_wide(<<FILL, FILL>>)), <<18, 52, 137, 171, 205, 239, FILL, FILL>>),
      SpiCall(spi_framed(spi_transfer(90) \o spi_transfer(60)), <<90, 60>>)>>]
FlashProgram ==
  [dev |-> "flash", calls |->
    <<SpiCall(w25q_jedec_id, JedecId),
      SpiCall(w25q_erase_chip, <<>>),
      SpiCall(w25q_write(1, Ramp(6)), <<>>),
      SpiCall(w25q_read(0, 8), <<FILL>> \o Ramp(6) \o <<FILL>>),
      SpiCall(w25q_power_down, <<>>),
      SpiCall(w25q_wake, <<>>),
      SpiCall(w25q_erase_sector(2), <<>>),
      SpiCall(w25q_write(3, <<1, 2>>), <<>>),
      SpiCall(w25q_read(2, 4), <<FILL, 1, 2, FILL>>)>>]
Adc ==
  [dev |-> "adc", calls |->
    [i \in 1..8 |-> SpiCall(mcp3208_read(i - 1),
       <<224 + (AdcValue(TRUE, i - 1) \div 256), AdcValue(TRUE, i - 1) % 256>>)]
    \o [i \in 1..4 |-> SpiCall(mcp3208_read_diff(i - 1),
       <<224 + (AdcValue(FALSE, 2 * i - 2) \div 256), AdcValue(FALSE, 2 * i - 2) % 256>>)]]
(* every start and length of a write over two pages, read back whole *)
Placed(a, n) == [i \in 1..FLASH_SIZE |-> IF i - 1 \in a..a + n - 1 THEN Ramp(n)[i - a] ELSE FILL]
FlashWrites ==
  {[dev |-> "flash", calls |->
     <<SpiCall(w25q_erase_chip, <<>>), SpiCall(w25q_write(an[1], Ramp(an[2])), <<>>),
       SpiCall(w25q_read(0, FLASH_SIZE), Placed(an[1], an[2]))>>]
     : an \in {x \in (0..FLASH_SIZE - 1) \X (1..FLASH_SIZE) : x[1] + x[2] <= FLASH_SIZE}}
(* spi_tb: round trips in the four modes, a FIFO overrun that keeps the queued bytes, W1C *)
SpiModes == [m \in 1..4 |-> SpiCall(spi_xfer_one(40 * m), <<255 - 40 * m>>)]
SpiOverrun ==
  <<SpiCall(FlattenSeq([i \in 1..SPI_DEPTH + 1 |-> spi_xfer(127 + i)]) \o ExpectOvr(TRUE)
              \o FlattenSeq([i \in 1..SPI_DEPTH |-> SpiRxData]) \o ExpectOvr(TRUE) \o ClearOvr \o ExpectOvr(FALSE),
            [i \in 1..SPI_DEPTH |-> 128 - i])>>
SpiTb == [dev |-> "bench", calls |-> SpiModes \o SpiOverrun]
MCSpiScripts == {SpiLoop, FlashProgram, Adc, SpiTb} \cup FlashWrites

(* monitor sessions: deposit and dump, edits and a dump around the top of memory, a line too long *)
Zero == [a \in 0..ADDRS - 1 |-> 0]
MCMonScripts ==
  {[keys |-> <<"1", ":", "2", " ", "3", "cr", "0", ".", "3", "cr">>,
    mem |-> [Zero EXCEPT ![1] = 2, ![2] = 3], dump |-> <<0, 0, 0, 2, 3, 0>>],
   [keys |-> <<"bs", "3", "bs", "1", "cr", ":", "2", "2", "cr", "R", "cr", "?", "cr", ".", "0", "cr">>,
    mem |-> [Zero EXCEPT ![1] = 10], dump |-> <<0, 10>> \o [i \in 1..ADDRS - 1 |-> 0]],
   [keys |-> <<"2", ":", "1", " ", "1", " ", "1", "1", "cr">>,
    mem |-> [Zero EXCEPT ![2] = 1, ![3] = 1], dump |-> <<0>>]}

NOSESSION == [keys |-> <<>>, mem |-> Zero, dump |-> <<>>]
I2cOff ==
  /\ st = "idle" /\ op = {} /\ cur = 0 /\ byteNack = FALSE /\ bus = FALSE /\ cmd = {} /\ tx = <<>> /\ rx = <<>>
  /\ flags = {} /\ slave = SlaveInit(16) /\ wire = <<>> /\ script = <<>> /\ code = <<>>
  /\ rc = "ok" /\ got = <<>> /\ fails = 0
SpiOff == SpiReset /\ dev = DevInit("loop") /\ sscript = <<>> /\ scode = <<>>
MonOff == MonIdle /\ msession = NOSESSION
EchoOff == EchoIdle /\ sent = 2 * PHASE_CHARS /\ epc = "parked"
SerialInit ==
  \/ Init /\ SpiOff /\ MonOff /\ EchoOff /\ inputs = None
  \/ SpiInit /\ I2cOff /\ MonOff /\ EchoOff /\ inputs = None
  \/ MonInit /\ I2cOff /\ SpiOff /\ EchoOff /\ inputs = None
  \/ EchoInit /\ I2cOff /\ SpiOff /\ MonOff /\ inputs = None
  \/ I2cOff /\ SpiOff /\ MonOff /\ EchoOff /\ inputs \in Cases
NotI2c == UNCHANGED <<spiVars, monVars, echoVars, inputs>>
NotSpi == UNCHANGED <<vars, monVars, echoVars, inputs>>
NotMon == UNCHANGED <<vars, spiVars, echoVars, inputs>>
NotEcho == UNCHANGED <<vars, spiVars, monVars, inputs>>
allVars == <<vars, spiVars, monVars, echoVars, inputs>>
SerialDone == script = <<>> /\ sscript = <<>> /\ MonDone /\ (epc = "parked" \/ LostWakeup)
SerialNext ==
  \/ (Cpu \/ Engine) /\ NotI2c
  \/ SpiNext /\ NotSpi
  \/ MonNext /\ NotMon
  \/ EchoNext /\ NotEcho
  \/ SerialDone /\ UNCHANGED allVars
(* the core executes, the dividers count, the flash finishes what it started, the peers keep sending *)
SerialSpec ==
  /\ SerialInit /\ [][SerialNext]_allVars
  /\ WF_allVars(Cpu /\ NotI2c) /\ WF_allVars(Engine /\ NotI2c)
  /\ WF_allVars(SpiCpu /\ NotSpi) /\ WF_allVars(SpiEngine /\ NotSpi) /\ WF_allVars(FlashDone /\ NotSpi)
  /\ WF_allVars(MonCpu /\ NotMon) /\ WF_allVars(Type /\ NotMon) /\ WF_allVars(Send /\ NotMon)
  /\ WF_allVars(EchoCpu /\ NotEcho) /\ WF_allVars(PeerSends /\ NotEcho)

(* Every check of every program holds: what was written is what is read back, past the FIFO depth,   *)
(* the register pointer wrap and the flash page; a NACKed call is reported and the next is intact;  *)
(* a conversion is of the channel asked for; a monitor session leaves and dumps the memory it asked *)
(* for; every byte is echoed once and in order, the program's own verdict is GOOD.                  *)
ChecksPass == fails = 0 /\ sfails = 0 /\ MonSession /\ EchoSession

(* Every program ends: no busy-wait of i2c.h, spi.h, w25q.h or uart.h spins for ever, no handler is *)
(* re-entered for ever. The one exception is uart_echo.c's own: LostWakeup.                         *)
CallsReturn == <>SerialDone
=============================================================================
