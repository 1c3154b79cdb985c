------------------------------- MODULE MCIrq -------------------------------
(* The interrupt chain with a firmware that runs for ever, and programs that take interrupts. They *)
(* share nothing: a behaviour is of the one or of the other.                                        *)
EXTENDS IrqChain, IrqPrograms

MCType == [p \in Pins |-> IF p \in Outputs THEN "rise" ELSE "both"]

Repeat(ops, n) == LET r[i \in 0 .. n] == IF i = 0 THEN <<>> ELSE r[i - 1] \o ops IN r[n]
Poll3 == <<PCheck("level", 0), PCheck("level", 0), PCheck("level", 0)>>
(* fft.c, i2s_rx.c with its FIFO, watermarks and frame counts scaled, and the use timer.h is for *)
Frame == i2s_read_frame \o <<PCheck("pair", TRUE)>>
Irq(attach) == attach \o <<Op("src+", "MEI"), Csr("gie+")>>
FftProgram ==
  fft_begin(15) \o fft_begin(0) \o fft_begin(10)
  \o fft_fill("x") \o <<PCheck("page", [dom |-> "time", x |-> "x"])>>
  \o fft_begin(3) \o fft_fill("impulse") \o fft_start({}) \o fft_wait \o fft_swap({}) \o Spectrum("impulse")
  \o fft_begin(4) \o fft_fill("dc") \o fft_start({}) \o fft_wait \o fft_swap({}) \o Spectrum("dc")
  \o fft_begin(3) \o fft_fill("a") \o fft_start({}) \o <<PCheck("fbusy", TRUE)>> \o fft_fill("b")
  \o fft_wait \o fft_start({}) \o Spectrum("a") \o fft_wait \o fft_swap({}) \o Spectrum("b")
  \o fft_begin(5) \o Irq(plic_attach(PLIC_SRC_FFT, "fft_isr"))
  \o fft_fill("c") \o <<St("CTRL", {"irq_en"})>> \o fft_start({"irq_en"}) \o <<Op("seen", 1), Csr("gie-")>>
  \o <<PCheck("claim", PLIC_SRC_FFT), PCheck("unhandled", 0), PCheck("fdone", FALSE)>>
  \o fft_swap({"irq_en"}) \o Spectrum("c")
  \o fft_begin(4) \o fft_transform("cos") \o Spectrum("cos")
  \o <<Csr("gie-"), St("CTRL", {})>>
I2sProgram ==
  <<PCheck("ctrl", I2sReset), PCheck("level", 0), PCheck("overrun", FALSE)>> \o Poll3
  \o i2s_begin("stereo") \o i2s_flush \o Frame
  \o Frame \o <<PCheck("step", TRUE)>> \o Frame \o <<PCheck("step", TRUE), PCheck("overrun", FALSE)>>
  \o i2s_begin("left") \o i2s_flush \o i2s_read_wait("left") \o i2s_read_wait("left") \o <<PCheck("step", TRUE)>>
  \o i2s_begin("right") \o i2s_flush \o i2s_read_wait("right") \o i2s_read_wait("right") \o <<PCheck("step", TRUE)>>
  \o i2s_begin("stereo") \o i2s_set_watermark(I2S_DEPTH) \o i2s_flush
  \o <<Await("level", 2), PCheck("rx", FALSE), Await("level", I2S_DEPTH), PCheck("rx", TRUE),
       Await("overrun", TRUE), PCheck("level", I2S_DEPTH)>> \o i2s_flush \o <<PCheck("overrun", FALSE)>>
  \o Irq(plic_attach(PLIC_SRC_I2S, "i2s_isr")) \o i2s_set_watermark(2) \o i2s_flush \o i2s_irq_enable(TRUE)
  \o <<Op("seen", 1), PCheck("claim", PLIC_SRC_I2S), PCheck("unhandled", 0), Op("seen", 2)>>
  \o i2s_irq_enable(FALSE) \o <<Csr("gie-")>> \o i2s_end
  \o i2s_master_hz \o i2s_begin("left") \o <<PCheck("ctrl", [I2sReset EXCEPT !.enable = TRUE, !.chan = "left", !.master = TRUE])>>
  \o i2s_flush \o i2s_read_wait("left") \o i2s_read_wait("left") \o <<PCheck("step", TRUE), PCheck("overrun", FALSE)>>
  \o i2s_master_off \o <<PCheck("ctrl", [I2sReset EXCEPT !.enable = TRUE, !.chan = "left"])>> \o i2s_end
Timer(handler) == sys_interrupt_attach("MTI", handler) \o <<Op("src+", "MTI"), Csr("gie+")>>
Periodic == Timer("tick") \o timer_arm_us(2) \o <<Op("until", 2)>> \o timer_mtime \o <<Op("target", 0), PCheck("mtip", FALSE)>>
Postponed == Timer("once") \o timer_arm_us(1) \o timer_arm_us(3) \o <<Op("until", 1)>> \o timer_cancel
\* The self-check of guitar_tuner.c: the receiver as bus master, then frame after frame.
tuner_check_i2s ==
  i2s_master_hz \o i2s_begin("left") \o i2s_flush \o i2s_read_wait("left")
  \o Repeat(i2s_read_wait("left") \o <<PCheck("step", TRUE)>>, 4)
  \o fft_fill("ring") \o <<PCheck("page", [dom |-> "time", x |-> "ring"])>>
  \o fft_fill("ramp") \o <<PCheck("page", [dom |-> "time", x |-> "ramp"])>> \o i2s_end \o i2s_master_off
tuner_run_frame(x) == fft_transform(x) \o Spectrum(x)
tuner_check_alias == tuner_run_frame("pass") \o tuner_run_frame("stop")
TunerCheck ==
  fft_begin(10) \o tuner_check_i2s \o tuner_run_frame("E2") \o tuner_run_frame("A2") \o tuner_run_frame("silence")
  \o tuner_run_frame("weak") \o tuner_check_alias

\* fft_tb.cpp, section by section.
Frame0(x) == [dom |-> "time", x |-> x]
tb_conf(n, scale, ctrl) == <<St("CONF", n), St("SCALE", scale), St("CTRL", ctrl)>>
start_and_wait(ctrl) == <<St("CTRL", ctrl \cup {"start"}), Await("fdone", TRUE)>>
run_case(x, n, scale, ctrl) ==
  tb_conf(n, scale, ctrl) \o fft_fill(x) \o start_and_wait(ctrl) \o <<St("CTRL", ctrl \cup {"swap"}),
    PCheck("page", [dom |-> IF ctrl = {} THEN "freq" ELSE "inverse", x |-> x, scale |-> scale])>>
FftTbRegisters ==
  <<PCheck("log2n", 10), PCheck("scale", "1/N"), PCheck("fbusy", FALSE), PCheck("fdone", FALSE), PCheck("buf", 0),
    PCheck("fctrl", {}), PCheck("firq", FALSE),
    St("CTRL", {"irq_en", "inverse"}), PCheck("fctrl", {"irq_en", "inverse"}), St("CTRL", {}),
    St("CONF", 0), PCheck("log2n", 2), St("CONF", 15), PCheck("log2n", 10)>>
FftTbOwnership ==
  fft_fill("one") \o <<PCheck("page", Frame0("one")), PCheck("buf", 0), St("CTRL", {"swap"}), PCheck("buf", 1),
    PCheck("fbusy", FALSE)>> \o fft_fill("two") \o <<PCheck("page", Frame0("two")), St("CTRL", {"swap"}),
    PCheck("page", Frame0("one")), St("CTRL", {"swap"})>>
FftTbFrames ==
  run_case("impulse", 3, "1/N", {}) \o run_case("dc", 4, "1/N", {}) \o run_case("tone", 6, "1/N", {})
  \o run_case("random", 10, "1/N", {}) \o run_case("small", 4, "none", {}) \o run_case("helix", 6, "1/N", {"inverse"})
FftTbDone ==
  <<St("FFT_IRQ", 1), PCheck("fdone", FALSE), PCheck("firq", FALSE), St("CONF", 4), St("CTRL", {"irq_en"})>>
  \o start_and_wait({"irq_en"}) \o <<PCheck("fdone", TRUE), PCheck("firq", TRUE), St("CTRL", {}), PCheck("firq", FALSE),
    PCheck("fdone", TRUE), St("FFT_IRQ", 1), PCheck("fdone", FALSE)>>
FftTbBusy ==
  tb_conf(10, "1/N", {}) \o <<St("CTRL", {"start"}), PCheck("buf", 1), PCheck("fbusy", TRUE),
    St("CTRL", {"start"}), PCheck("buf", 1), St("CTRL", {"swap"}), PCheck("buf", 1),
    St("CONF", 4), PCheck("log2n", 10), St("SCALE", "none"), PCheck("scale", "1/N"), Await("fdone", TRUE), St("FFT_IRQ", 1)>>
FftTbStream ==
  <<St("FFT_IRQ", 1)>> \o tb_conf(6, "1/N", {}) \o fft_fill("a") \o <<St("CTRL", {"start"}), PCheck("fbusy", TRUE)>>
  \o fft_fill("b") \o <<Await("fdone", TRUE), St("CTRL", {"start"})>> \o Spectrum("a")
  \o <<Await("fdone", TRUE), St("CTRL", {"swap"})>> \o Spectrum("b")
FftTb == FftTbRegisters \o FftTbOwnership \o FftTbFrames \o FftTbDone \o FftTbBusy \o FftTbStream

\* i2s_tb.cpp: its bus stands still except for the words the bench sends.
ctrl_word(on) ==
  <<St("I2S_CTRL", [f \in DOMAIN I2sReset |-> IF f = "chan" THEN on.chan ELSE f \in on.bits])>>
Chan(chan, bits) == ctrl_word([chan |-> chan, bits |-> bits])
drain == <<Op("flush", 0)>>
send_frame == <<Op("slot", "left"), Op("slot", "right")>>
pop_frame == i2s_read_wait("left") \o i2s_read_wait("right") \o <<PCheck("same", TRUE)>>
I2sTbReset ==
  <<PCheck("level", 0), PCheck("overrun", FALSE), PCheck("ctrl", I2sReset), PCheck("water", 1), PCheck("iirq", FALSE)>>
  \o send_frame \o <<PCheck("level", 0)>>
  \o Chan("right", {"enable", "ie_rx", "ie_ovr"})
  \o <<PCheck("ctrl", [I2sReset EXCEPT !.enable = TRUE, !.chan = "right", !.ie_rx = TRUE, !.ie_ovr = TRUE]),
        St("WATER", 5), PCheck("water", 5), St("WATER", 1)>>
I2sTbWords ==
  Chan("stereo", {"enable"}) \o drain \o Repeat(send_frame \o pop_frame \o <<PCheck("level", 0)>>, 2)
  \o <<Op("cut", "left"), Op("slot", "right"), PCheck("level", 1)>> \o i2s_read_wait("right")
  \o Chan("left", {"enable"}) \o drain \o send_frame \o <<PCheck("level", 1)>> \o i2s_read_wait("left")
  \o Chan("right", {"enable"}) \o drain \o send_frame \o <<PCheck("level", 1)>> \o i2s_read_wait("right")
I2sTbOverrun ==
  Chan("stereo", {"enable"}) \o drain \o Repeat(send_frame, I2S_DEPTH \div 2)
  \o <<PCheck("level", I2S_DEPTH), PCheck("overrun", FALSE)>> \o send_frame
  \o <<PCheck("overrun", TRUE), PCheck("level", I2S_DEPTH)>> \o pop_frame
  \o Repeat(i2s_read_wait("left") \o <<PCheck("step", TRUE)>> \o i2s_read_wait("right") \o <<PCheck("same", TRUE)>>,
             I2S_DEPTH \div 2 - 1)
  \o <<PCheck("level", 0), PCheck("overrun", TRUE), St("I2S_IRQ", "rx"), PCheck("overrun", TRUE)>>
  \o i2s_overrun_clear \o <<PCheck("overrun", FALSE)>>
I2sTbLevel ==
  Chan("stereo", {"enable", "ie_rx"}) \o <<St("WATER", 4)>> \o drain \o send_frame
  \o <<PCheck("iirq", FALSE), PCheck("rx", FALSE)>> \o send_frame \o <<PCheck("iirq", TRUE), PCheck("rx", TRUE)>>
  \o <<St("I2S_IRQ", "rx"), PCheck("iirq", TRUE)>> \o i2s_read_wait("left") \o <<PCheck("iirq", FALSE)>>
  \o send_frame \o <<PCheck("iirq", TRUE)>> \o Chan("stereo", {"enable"}) \o <<PCheck("iirq", FALSE), PCheck("rx", TRUE)>>
  \o drain \o <<St("WATER", 0)>> \o Chan("stereo", {"enable", "ie_rx"}) \o <<PCheck("iirq", FALSE)>>
  \o send_frame \o <<PCheck("iirq", TRUE), St("WATER", 1)>>
  \o Chan("stereo", {"enable", "ie_ovr"}) \o drain \o <<PCheck("iirq", FALSE)>>
  \o Repeat(send_frame, I2S_DEPTH \div 2 + 1) \o <<PCheck("iirq", TRUE)>> \o i2s_overrun_clear \o drain
  \o <<PCheck("iirq", FALSE)>>
I2sTbDisable ==
  Chan("stereo", {"enable"}) \o drain \o send_frame \o Chan("stereo", {}) \o send_frame \o <<PCheck("level", 2)>>
  \o pop_frame \o Chan("stereo", {"enable"}) \o send_frame \o <<PCheck("level", 2)>> \o pop_frame
  \o drain \o Repeat(<<PCheck("level", 0)>>, 4)
I2sTbMaster ==
  Chan("stereo", {}) \o Chan("stereo", {"master"}) \o <<PCheck("ctrl", [I2sReset EXCEPT !.master = TRUE])>>
  \o Chan("stereo", {}) \o Chan("left", {"enable", "master"}) \o drain \o i2s_read_wait("left")
  \o drain \o i2s_read_wait("left") \o Repeat(i2s_read_wait("left") \o <<PCheck("step", TRUE)>>, 4) \o Chan("stereo", {})
I2sTb == I2sTbReset \o I2sTbWords \o I2sTbOverrun \o I2sTbLevel \o I2sTbDisable \o I2sTbMaster
Program(ops, audio, slack) == [ops |-> ops, audio |-> audio, slack |-> slack]

MCIrqScripts ==
  {Program(FftProgram, FALSE, 0), Program(I2sProgram, TRUE, 0),
   Program(FftTb, FALSE, 0), Program(I2sTb, FALSE, 0), Program(TunerCheck, FALSE, 0),
   Program(Periodic, FALSE, 5), Program(Postponed, FALSE, 6)}

chainVars == vars
programVars == <<deviceVars, irqVars>>
everyVar == <<chainVars, programVars>>
ChainOff ==
  /\ GpioInit /\ PlicInit /\ gpio_sync0_q = Pins /\ gpio_sync1_q = Pins
  /\ lines = {} /\ bus = NoWrite /\ rdata_q = NoRead /\ pc = "off" /\ mie = FALSE /\ claimed = 0 /\ edges = {}
ProgramsOff ==
  /\ TimerInit /\ FftInit /\ I2sInit /\ CpuReset /\ prog = <<>> /\ bench = [audio |-> FALSE, slack |-> 0]
IrqBoth ==
  \/ Init /\ ProgramsOff
  \/ IrqInit /\ ChainOff

OfChain(step) == pc # "off" /\ step /\ UNCHANGED programVars
OfPrograms(step) == pc = "off" /\ step /\ UNCHANGED chainVars
EitherNext == OfChain(Next) \/ OfPrograms(IrqNext)

\* The clock runs, posted stores land, the hart executes; the timer counts, transforms end, the bus
\* brings words.
EitherSpec ==
  /\ IrqBoth /\ [][EitherNext]_everyVar
  /\ WF_everyVar(EitherNext)
  /\ WF_everyVar(OfChain(Lands)) /\ WF_everyVar(OfChain(Runs))
  /\ WF_everyVar(OfPrograms(TimePasses)) /\ WF_everyVar(OfPrograms(Transforms))
  /\ WF_everyVar(OfPrograms(WordComes))
=============================================================================
