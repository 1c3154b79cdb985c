# YARV32-uC: a TLA+ verification project

YARV32-uC is a RISC-V microcontroller in SystemVerilog: a three-stage in-order
RV32IMC core (fetch, decode, execute; Zicsr, Zifencei, Zilx indexed loads)
with tightly coupled instruction and data memories on a native request bus and
memory-mapped peripherals behind an AXI4-Lite bridge and crossbar. Beside the
RTL the repository holds bare-metal firmware: a header per peripheral, programs
over them, a guitar tuner, a monitor, and Verilator benches. Both are modelled.
A step of a core or bus model is one rising edge of `clk_core`; a step of a
driver or program model is one register access, or one event of the hardware
or the outside world. Paths below are relative to the repository; `sw` is
`src/sim/sw`.

## 1. Inventory

| Component | State it keeps | Operations | Talks to | What is hard |
|---|---|---|---|---|
| `native_ram` | array, one-deep read pipeline, skid FIFO | read, byte-strobed write | fetch (I-mem), LSU (D-mem) | pop, landing and launch in one cycle; ready must count a read still in the pipe |
| `fetch_stage` | PC, in-flight and stale counts, stamp of the read, 8-entry ring | launch, split a 64-bit block, push 0-2, pop 0-2, redirect | I-mem, decode, execute | responses of a killed path, two redirects in a cycle, one stamp for several reads, addresses outside the memory |
| `decode_stage`, alignment | hold buffer (one halfword), D/E register | stitch, stash, predict, flush, stall | fetch buffer (two read ports), predictor, execute | instructions that straddle words, faults behind a stash, kills that do not reach the stash |
| `decode_stage`, decoder | none | expand RVC, decode, classify control flow | - | a second, faster decoder that must agree with the first |
| `execute_stage` | FSM, latched address and port, WFI halt | commit, launch, wait, trap, redirect | decode, ALU, CSRs, D-mem, bridge, predictor | an interrupt in the cycle of a launch, freeze against wake, precise `mepc` |
| `trap_unit` | none | cause priority, vectoring, `mstatus` stacking | execute, CSRs | priorities |
| `csr_regfile` | CSRs, registered read | RMW, trap write, counters | execute | a read one cycle before its write-back |
| `alu` | divider | start, iterate, done | execute | a start that is squashed |
| `reg_file`, bypass | 32 words | read, write, forward | decode, execute | read-after-write in one cycle |
| `branch_predictor` | PHT, history, return stack | lookup, train | fetch, decode, execute | wrap and underflow of the stack, late training |
| `axi4_lite_master_bridge` | 7-state FSM, latched request | one write or read at a time | LSU, crossbar | AW and W accepted in any order, posted stores |
| `axi4_lite_xbar` | routes, decode-error terminator | route, mux, terminate | bridge, targets | responses after the address is gone, unmapped addresses |
| AXI slaves (`axi4_lite_ram` pattern) | seen flags, response flags, registers | accept, commit, respond | crossbar | commit exactly once |
| `axi4_lite_gpio` | OUT, DIR, TYPE, EN, sticky STATUS, previous pins | sample, set, clear | pads, PLIC | an event in the cycle of its clear, reset levels |
| `axi4_lite_plic` | ENABLE | aggregate, claim | peripherals, hart | lines that move between `meip` and the claim |
| `clint_timer`, `msip_peri` | `mtime`, `mtimecmp`, `msip` | count, compare | hart | two-word update, latency of `mtip` against `mret` |
| `axi4_lite_uart` | two FIFOs, receive level | send, receive | pads, PLIC | bytes that arrive while the program prints |
| `axi4_lite_spi`, `spi.h` and its devices | two FIFOs, BUSY, chip select | transfer, select | flash, converter | BUSY between two bytes, a select that cuts one |
| `axi4_lite_i2c`, `i2c.h` | byte engine, two FIFOs, sticky flags | START, write, read, STOP | slaves | a NACK with bytes still to push, lost arbitration |
| `axi4_lite_i2s`, `i2s.h` | FIFO, overrun, watermark, clock generator | capture, pop, flush | microphone, hart | a source that never waits, pairing of words |
| `axi4_lite_fft`, `fft.h` | two sample buffers, engine | fill, start, swap, read | hart | ownership of the buffers |
| `sys.h`, `plic.h`, `timer.h` | handler tables | attach, dispatch, arm | all programs | an interrupt between any two accesses |
| `guitar_tuner` | ring, dirty count, framebuffer, page hashes, needle | acquire, launch, analyse, draw | I2S, FFT, I2C | gaps in the stream, results a hop old, stale pages |
| `yarvmon`, `uart_echo` | line buffer and modes; phase and counts | edit, parse, dump; poll, interrupt | UART | keys past a buffer; test and sleep in two steps |
| arithmetic, pitch, drawing of the headers | none | multiply, divide, convert, find, draw | - | widths, signs, clipping |
| `top_module`, core top, package | wiring, synchronisers, address map | - | all | disjoint windows, synchroniser latency |

What makes the parts correct, in one line each. Fetch: decode sees the words of
the current path, in order, each once. Decode: execute sees the instructions of
that path, whole, with their own address and prediction. Execute: the result is
that of a sequential hart, and each access happens exactly once. Bus: each
access is performed once on the register it names, and is answered. Interrupts:
no event is lost, none is invented, each is served. Drivers: what is on the
wire is the call, and the next call starts clean. Programs: their own checks
hold and they end. Tuner: a window declared clean has no gap, what is shown is
the latest reading.

## 2. Modules

    NativeRam, FetchStage ── FetchUnit ──refines── FetchStream
                                                     │ is fetch for
    DecodeStage ── DecodeUnit ──refines── InstrStream
    Decoder ── RvcIsa (reference)
              TrapCsrs ── ExecuteStage ── ExecUnit ──refines── Hart
                                               │ its ports are
                                           NativePort
                                               │ kept by
    AxiBridge, AxiXbar, AxiSlave ── AxiFabric ──refines── PeriBus
    Gpio, Plic ── IrqChain
    ProgramPeris ── IrqPrograms
    I2cMaster ── I2cDriver      SpiDriver      UartPrograms
    Tuner                       SoftMath       Panel

    FetchUnitProofs, DecodeProofs, ExecProofs, AxiProofs, IrqProofs,
    TunerProofs, I2cProofs, SerialProofs: each extends the module it is about;
    SerialProofs extends UartPrograms and SpiDriver

`MCIrq` runs `IrqChain` and `IrqPrograms`; `MCSerial` the three serial modules and,
through `MCPure`, the computations of the programs (`SoftMath`, `Panel`); `MCDecode`
both halves of decode (`DecodeUnit`, `RvcIsa`). What is put into one run shares no
state: a behaviour is of one of them.

The pipeline is cut at two promises. `FetchStream` is what fetch promises and
what `DecodeUnit` takes fetch to be; `NativePort` is what execute needs of a
memory port and what `AxiFabric` is shown to keep. So each composition stays
small and the results add up. Both promises are proved, not only checked: the
detailed modules implement them for every value of their constants (section 4).

**Memory and fetch.** `NativeRam` is one clock edge of `native_ram`; its
operators have the names of the source's wires. `FetchStage` has a definition per wire and
three actions, the three ways a cycle can go: `FetchExecRedirect`,
`FetchPredRedirect`, `FetchRun`. `FetchUnit` composes it with the I-mem as
built. `FetchStream`: a queue of entries `[pc, word, fault]`,
`Advance(pop, push)` and `Redirect(target)`. An address is a halfword index, a
block is one 64-bit row of the I-mem.

**Decode.** `DecodeStage` finds instructions in words. A halfword is abstracted
to whether an instruction beginning with it is 32 bits wide, its kind of
control flow and its offset; everything else about it is carried along, so a
wrong halfword is seen. `DecodeUnit` has one action for each row of the
source's priority: `Redirect` (flush), `Stall`, `Predict`, `Take`.
`InstrStream` is the promise. `Decoder` is the combinational half: `c_expand`,
the opcode tables and the predictor's fast decoder, on numbers, with the
immediates assembled bit by bit. `RvcIsa` is a reference written the opposite
way round from the manual's tables (which bit of the immediate each bit of the
encoding is), and holds the properties.

**Execute.** `ExecuteStage` has a definition per wire of `execute_stage`, from
the launch gates through the trap conditions to the next state, over `TrapCsrs`
(`trap_unit` and `csr_regfile`). Values are abstracted: an instruction in D/E is a record
`[kind, pc, len, ea, size, target, pred, csr, ...]`, chosen freely by `Deliver`.
`ExecUnit` closes it: decode (`Redirect`, `Hold`, `Starve`, `Deliver`), two ports
that answer whenever they like within `NativePort`, interrupt lines that move
freely. `Hart` is the promise: a sequential machine.

**Bus.** `AxiBridge`, `AxiXbar` (any number of windows) and `AxiSlave` (the
handshake all peripherals repeat, with any channel held off at will) compose in
`AxiFabric` with a load/store unit that may issue, hold, wait or change its
request. `PeriBus` is the promise: one transaction at a time, done once.

**Interrupts.** `Gpio` and `Plic` compose in `IrqChain` with the pads and the
two-flop synchroniser of `top_module`, posted stores, and the program of
`sim/sw/peri/plic_gpio`: type, clear, arm, enable, read back, unmask; claim,
acknowledge, look, return. A register read is sampled when the slave takes its
address and reaches the program later, with the hardware moving in between. Other
sources' lines rise at any time and stay up until serviced.

**Interrupt programs.** `IrqPrograms` runs a program of `sw/peri` or a bench
against `ProgramPeris` (the CLINT timer, the FFT coprocessor, the I2S receiver),
through the libraries of `sw/common` (`sys.h`, `plic.h`, `timer.h`, `fft.h`, `i2s.h`). A library function
is a sequence of register accesses with the name of the source, and a step is one
of them, or a trap entry, or a handler's access. A store is posted and lands
within two cycles; `mip` is a register, so `mtip` follows the compare by one.
The programs are in `MCIrq`: `fft.c`, `i2s_rx.c`, two users of the timer, the
self-check of the tuner, `fft_tb` and `i2s_tb`, each with its checks (`PCheck`).
A frame in the FFT is a name and what was done to it, a word in the I2S FIFO is
its slot and its place in the stream. `UsesTimerLib` says what it is to use the
timer through `timer.h` only; the programs do, and the proof about the timer asks
for no more.

**Serial.** Three masters, each with its driver and the devices that the
repository drives: `I2cMaster` under `I2cDriver` (`i2c.h`, register slave; SDA is a
wired AND, so a device that drives a 0 hides a START or a STOP),
`SpiDriver` (`spi.h` over the loopback, `w25q.h`, `mcp3208.h`, and the slave of
`spi_tb`), and the UART under `UartPrograms` (`yarvmon.c` and `uart_echo.c`, which
share no state). A call is a sequence of
accesses and a script a sequence of calls with what each must return; `MCSerial`
holds them: `i2c_reg.c`, `i2c_scan.c`, `i2c_tb`, raw commands, all pairs of
calls to a device present or absent on a bus that may be busy or lost, reads of
registers with known contents before every call,
`spi_loop.c`, a flash session and a write at every place of two pages, every
channel of the converter, `spi_tb`, three monitor sessions, and `uart_echo.c`.
The engines move a byte per step, the processor an access per step, in any order.

**Tuner.** `Tuner` is the board loop of `guitar_tuner.c`: the probe of the
microphone, the splash, the priming of the ring, then hop after hop
acquire, launch, animate, analyse, draw, flush. A word of the microphone is
whether one was lost before it; it arrives at any step, as many as the step has
time for. A spectrum is the launch it came from; a reading is chosen freely.
Pages go out only if their hash differs, in the order of the source, one chunk
per step.

**Pure parts.** `SoftMath` (the arithmetic that replaces 64 bits, division and
`printf`, on narrow words; search of the fundamental, interpolation, note and
cents) and `Panel` (drawing with clipping, text, needle) are functions, each held
against a definition of the shortest kind.

## 3. Runs

| Run | Question | Result |
|---|---|---|
| `fetch` | Does fetch, as shipped on its block RAM, deliver the stream under any redirects, stalls and pops? Do its own assertions hold? Does it ever stop? | holds |
| `decode` | Does decode deliver the program's instructions, whatever the alignment, timing, stalls, flushes and return-stack answers? Do expansion and decode agree with the manual, and the fast decoder with the real one? | holds |
| `exec_lsu` | Loads, stores, divisions, CSR writes, WFI, an interrupt: is every access made exactly once and by its owner? Can decode be held for ever? | holds |
| `exec_trap` | Exceptions, two interrupt lines, vectored mode, CSR read-modify-writes, branches, `mret`, WFI: are traps precise and CSR operations atomic? | holds |
| `axi` | One transaction at a time, performed once, always answered? | holds |
| `irq` | Are the sticky bits exact, is no interrupt taken for nothing, is every event served? Do the programs over timer, FFT and I2S pass their own checks and end, and does the timer fire once per deadline and not before? | holds |
| `serial` | Is each I2C frame the call and the engine clean after it? Does a select cut a byte, does the flash ignore a command? Does the monitor parse what its terminal shows? Are bytes echoed once? Does every call return? Is the substitute arithmetic exact, is a string read as its fundamental, is the drawing the clipped shape? | holds |
| `tuner` | Does a window have a gap nobody knows of? Which launch is a spectrum from? Does the panel show the reading, does the needle settle, does analysis go on? | holds |
| `exec_wfi_pair` | Does the wake of a WFI return to the instruction after it? | violated |
| `decode_span_fault` | Does an access fault name the instruction it belongs to? | violated |
| `i2c_long` | Does a failed I2C write leave nothing queued for the next call? | violated |
| `i2c_empty_read` | Does a read of no bytes release the bus? | violated |

Refinements (`ImplementsStream`, `ImplementsInstrStream`, `ImplementsHart`,
`ImplementsBus`, `ImplementsPort`) are checked as temporal properties: every step
of the detailed module is a step of the abstract one under the mapping in its
`INSTANCE ... WITH`, or a stutter.

### The four violations

*Two WFIs in a row* (`execute_stage.sv:711`). `wfi_retire` looks at the
instruction in D/E without looking at `wfi_stall`. While the first WFI halts,
the second one, held behind it, overwrites `wfi_next_pc_q`; the wake interrupt
then saves the address after the second, which is never executed or counted.
The comment above it says the WFI retires once and `mepc` is the instruction
that follows it. All other runs and the theorem `TrapsPrecise` exclude a WFI
directly behind a WFI (`WFI_PAIRS = FALSE`), and hold.

*A 32-bit instruction across the end of the memory* (`decode_stage.sv:756`). The
fault is raised with the address of the half that cannot be fetched, so `mepc`
points into the middle of an instruction. `mtval` is meant to be that address;
`mepc` is not. The instruction stream itself is still right: `InstrStream` says
the fault names the missing halfword, and the refinement holds.

*A write longer than the FIFO to nobody* (`sw/common/i2c.h:187`). The header says
a failed transaction never leaves bytes queued, because the engine drains the
FIFO. It drains once, at the NACK; `i2c_write` pushes on without looking, and
what does not fit at that moment is queued afterwards. The next call sends those
bytes as its address. With more than twice the FIFO the push loop never ends.
`ssd1306_begin` sends 24 bytes in one write. The run `serial` keeps writes to an
absent device within the FIFO, and `CleanReturn` holds there.

*A read of no bytes* (`sw/common/i2c.h:175`). The header says that the START and STOP
after a read of no bytes are a clean bus release. A device that has acknowledged its
address and R drives the first bit of its first byte at once
(`sim/i2c_slave_model.sv:90-149`). Where that bit is 0, and it is in every register of
the repository's device until one is written otherwise, SDA stays low: neither the START nor the STOP of the engine
(`axi4_lite_i2c.sv:210-229`, `274-293`) is an edge on the bus, and the device goes on
waiting to send. `i2c_read` returns `I2C_OK` with the line held, and the address of
the next call finds SDA low under a 1 and loses arbitration (lines 410-418), with one
master on the bus. The run `serial` and the theorems about I2C take at least one byte
from a device they read.

### Bounds

Every bound is a CONSTANT of a cfg or a set named in an MC module.

- `fetch`: five blocks of address space, three implemented, so a stream runs off
  the memory, faults, and wraps to address 0 within the eight entries of the
  buffer; all words differ.
- `decode`: twelve halfwords holding every kind of instruction at both
  alignments; redirects land on each of them, so all sequences of length, kind
  and alignment are met; a four-entry buffer suffices because decode looks at two
  entries. For the decoders all 49152 compressed halfwords, and native words with
  all opcodes, funct3 and the funct7 and register values any arm tells apart.
- `exec_*`: one or two addresses, one aligned and one misaligned D-mem address,
  one peripheral address; a divider of one bit (`XLEN = 1`) in `exec_lsu`, the run
  that divides. The runs split the
  instruction kinds because only pairs and triples of neighbours interact. The
  retirement counter is modulo 2 where it is observed. The captured load/store
  build (`LSU_LIVE_LOAD = FALSE`) is left to the theorems, which cover it.
- `axi`: two targets, one with two registers and a stalling AW, one stalling any
  channel, one unmapped address.
- `irq`: two pins (one driven, one input armed on both edges), four sources, one
  of them disabled and one of lower priority. A timer word counts modulo 4, so
  the low word wraps between any two accesses; the I2S FIFO has six entries; a
  program waits for at most three interrupts (`SEEN_MAX`). A transform takes at
  least three cycles, more with `log2n` (`FFT_MIN`, `Shortest`).
- `serial`: FIFOs of four (I2C) and two (SPI, UART), so every program has a
  transfer longer than its FIFO; four slave registers, so the pointer wraps;
  flash pages of four in eight bytes, so a write crosses a page at every place;
  a line of six keys, four-bit addresses. For the computations double words of six
  bits; a spectrum of bins 4 to 63, with fundamentals on both sides of the guard
  `best/2 > KMIN` (`guitar_tuner.c:869`); a panel of 6 by 16 pixels (two pages) with
  shapes that begin and end on and beyond every side.
- `tuner`: a window of six samples, so three hops of two, a decimation of two, a
  FIFO of three words. One word may arrive during a chunk of a page
  (`CHUNK_WORDS`) and during a redraw (`DRAW_WORDS`), four during a whole update
  (`UPDATE_WORDS`): the ratios of the source, where a page fits the FIFO and an
  update does not. `TunerProofs` needs no such values.

### Timing taken for granted

A model of steps has no clock rate, so what the source owes to its speed is said
here, by name. `CpuKeptUp` (I2C): a program in its push loop has filled the FIFO
before the byte on the wire is acknowledged; a byte takes over a thousand
clocks, a push a few tens. `PACE` (I2S): four cycles at least lie between two
words; the shipped rates leave thousands. `Shortest` (FFT): a program that reads
BUSY right after START does so before the transform ends. `Midway` and
`MayAdvance` (timer): the low word does not turn over whole between the reads of
one `timer_mtime`, and `slack` units pass beside the program before it comes to
wait for its deadline. A posted store lands within two cycles, as on an idle bus.
The tuner's pump polls faster than words come: it waits with at most one word
queued, and takes in the words queued when it began before it ends
(`CHUNK_WORDS <= (Slice - 1) * TUNER_DECIM + 1`; 15 against 505 in the source).
That is what makes the dirty count right: `tuner_pump` declares a gap from the
word it reads when it sees the overrun flag, with the words queued before the gap
still to be read, so that a pump that began with a full FIFO could count a gap as
gone while it is in the window. The loop never begins one so: where the FIFO may
have filled up, it is flushed (line 1854) or emptied by `tuner_drain`, which reads
all words before it looks at the flag.
The I2S bus is clocked by an audio master for the whole program, by the receiver
in master mode, or by the bench for a word.

### Fairness

`fetch`: a cycle without redirect is taken eventually unless redirects pre-empt
it (`KeepsDelivering` says so in its own second disjunct). `exec_lsu`: the
clock runs and both ports answer again and again; for the peripheral port that is
`AlwaysAnswers` of `axi`, for the D-mem it follows from the RAM, which is always
ready for a ready master. `axi`: no peripheral refuses a channel for ever (only
the UART does at all, while its transmit FIFO drains) and the load/store unit
takes its data, which it does in the state it waits in. `irq`: the clock runs, a
posted store lands (`AlwaysAnswers`), the hart executes its program
(`NoStuckStall`), time passes, transforms end, and an I2S bus that is clocked
brings words. `serial`: the processor executes, the dividers count, the flash
finishes what it has begun, the terminal types and the peer sends what is left.
`tuner`: the loop runs, and the coprocessor ends its transforms. Deadlock
checking is on in all runs.

## 4. Proofs

TLAPS proves, for every value of the constants that satisfies the named ASSUME
of the module:

| Module | Theorems | Argument |
|---|---|---|
| `FetchUnitProofs` | `FetchInvariant`, `TypeCorrect`, `BufferNeverOverflows`, `ReqPcSafe`, `AtMostOneRead`, `StreamInOrder`, `FetchImplementsStream` | `FetchInv` is inductive; every step is one of the stream |
| `DecodeProofs` | `DecodeInvariant`, `StashIsHighHalf`, `DecodeImplementsInstrStream`; `FastDecoderAgrees` | `DecodeInv` is inductive; every step is one of the instruction stream; the two decoders agree on every source of 32-bit words (`WordFields`) |
| `ExecProofs` | `ExecInvariant`, `ExecTypeCorrect`, `StageAssertions`, `RequestsCorrect`, `MultiCycleCorrect`, `TrapsPrecise`, `ExecImplementsHart` | `ExecInv` is inductive; every step is one of the hart |
| `AxiProofs` | `FabricInvariant`, `SingleOutstanding`, `BridgeKeepsPort`, `FabricImplementsBus` | `FabricInv` is inductive if the windows are disjoint; every step is one of the bus |
| `IrqProofs` | `IrqInvariant`, `NoEventLost`, `NoSpuriousClaim`; `TickInvariant`, `TickIsDue`, `TimeReadIsInCall` | `IrqInv` is inductive for the chain, `TickInv` for the timer while time is left (`TimeLeft`) |
| `TunerProofs` | `TunerInvariant`, `WindowIsClean`, `SpectrumOneHopOld`, `ScreenIsCurrent` | `TunerInv` is inductive |
| `SerialProofs` | `MonInvariant`, `ParsesWhatIsShown`, `EchoInvariant`, `EchoesOnce`; `SpiInvariant`, `SelectsBetweenBytes`, `FlashInvariant`, `FlashHeeded`; `DriverCallsFit`, `CallsJoin` | `MonInv`, `EchoInv` and `SpiInv` are inductive; `FlashInv` is, given `SpiInv` |
| `I2cProofs` | `I2cInvariant`, `ReturnsClean`; `FrameInvariant`, `FrameOnTheBus` | `I2cInv` is inductive for calls that fit (`CallsFit`); `FrameInv` is, on it, if a frame is that of its call (`FramesFit`) |

Together: `FetchImplementsStream` gives `DecodeUnit` the fetch it is composed
with, and `BridgeKeepsPort` gives `ExecUnit` its peripheral port, so the chain
from the memory to the sequential hart, and from its load or store to the
register of a peripheral, is proved at each link.

*Fetch* (any memory size, image, boot address, both redirect builds). That the
buffer holds consecutive entries is not inductive: the words still to come must
be the right ones. `FetchInv` adds that at most one read is in flight and the
RAM's skid is empty (`OneReadInFlight`), that the read in flight is the one
`req_pc_q` names and `pc_q` follows it, except right after a redirect launch,
when the advance is still owed (`ReadMatchesPc`), that room was reserved
(`ReservedFits`), and where the tail is. The two assertions of `fetch_stage.sv`
are consequences; what its comments report as measured on four programs,
`inflight_q` in {0, 1}, is a theorem. For the refinement, the window of the ring
is the queue of `FetchStream`: `FetchInv` says what a push appends to it, and the
proof follows each of the three ways a cycle can go.

*Decode* (any image, prediction table, buffer depth of two or more, any
behaviour of execute and of the return stack). An instruction can be cut in
three places, and `DecodeInv` says how they fit: the queue holds consecutive
entries (`QueueInv`); the stash is the halfword before the head of the queue, at
an odd address, with the direction bit of its own address (`HoldInv`); without a
stash the next instruction is at the head (`HeadInv`). `HeadInv` needs a second
case, found when the first attempt was not inductive: a stash that is dropped in
a stalled cycle because the entry behind it is a fault. The instruction is then
reported as the fault of its second half, which is right.

*The two decoders* (every compressed halfword, every set of 32-bit words). The
predictor redirects fetch by its own small decoder; execute recovers only from what
the real one calls a branch. `FastDecoderAgrees` joins them: a halfword expands into
`jal`, a branch or `jalr` exactly when the small decoder says so (`Expansion`), its
scrambled offset is even and within reach (`Offsets`; `Gather` is a recursive
function, so that it exists and stays below a bound is shown a bit at a time), and
`mk_j` and `mk_b` lay it out so that `imm_j` and `imm_b` read the same number back,
sign included (`JumpRoundTrip`, `BranchRoundTrip`). For a native word only the
width of `f3` is needed. The run takes chosen values of the fields of a native
word; the theorem takes all.

*Execute* (any address space, port timing, instruction mix, divider width, both
load/store builds). `ExecInv` joins the ownership of the LSU states, the latched
address, the fact that nothing multi-cycle is ever caught by a halt
(`TrapNeverFrozen`), the freshness of the CSR read, the divider in step with the
FSM, that what is in D/E was decoded and its alignment is decided by its address
(`Decoded`, `AlignmentDecided`), and `ResumePoint`: decode continues where D/E is
predicted to go, and a halt remembers where execution is. `TrapsPrecise` and
`ExecImplementsHart` need `~WFI_PAIRS`, for the reason of the first violation.
The refinement goes by what the cycle does: commits, traps, wakes, launches, or
nothing the hart sees; a read-modify-write of a CSR is atomic because the
registered read is fresh when it is used. `CsrForms` are the forms the decoder
gives a CSR instruction; a write of `mepc` or `mtvec` gives a whole address.

*Bus* (any number of windows and registers, any pattern of stalls).
`FabricInv` says of each phase in a target, a route or the terminator which
state of the bridge it belongs to. `WindowsDisjoint` is needed: the crossbar
compares each window on its own. `BridgeKeepsPort` is the contract `ExecUnit`
assumes of its peripheral port. In `FabricImplementsBus` a transaction is done
when its target commits a write or samples a read, the bridge's request is what
the bus takes, and every stall in between is a stutter.

*Interrupt chain* (any number of pins and sources, any edges, other lines that
rise and fall as they like, a write posted for any time). The sticky bits can be
compared with the events only if it is known which settings have landed. At most
one write is on the bus, and the place of the firmware tells which (`BusInv`); so
`TypeInv` and `EnableInv` say when the pin types and the PLIC enables hold, and
`RequestInv` that the line an interrupt was taken for is still up at the claim:
only the program clears, and a line of another source stays until serviced.
`IrqAssumption` says that the source of the GPIO is an enabled one and not among
the others, and that the marks for "no write" are no writes.

*Timer* (any word size, any set of programs that use the timer as `timer.h` lets
them, of any length, whatever interrupts them). The compare has two registered stages, `mip`
is a third, stores are posted and the words are written one at a time, so what
the registers say now is not what will fire. `TickInv` tells the phases of a call
apart by what is still to do. The first store of a call makes the high word all
ones: nothing matches from then on (`Off`), and before the low word or the last
high word is written the compare has fallen silent (`HiGoes`, `LoGoes`). Outside a
call either the registers are at or beyond the deadline (`Safe`, `Armed`), or what
matches, in any stage, has its deadline behind it (`OnTime`). The words read by
`timer_mtime` are the time at some moment since the call (`Reading`): if the high
word has moved, the second low word belongs to the second high word, provided the
low word does not turn over whole in between (`MayAdvance`).
`UsesTimerLib` (the ASSUME `TimerAssumption`, which TLC evaluates for the programs
of `MCIrq`) says which programs: the timer registers are touched by whole calls
only, and a program with the handler `"tick"`, which re-arms, makes at most one
call itself. The restriction is needed: `timer_arm_us` is not atomic, so when
handler and program both arm, the words of two deadlines mix, and the interrupt
may come before either. A handler that cancels may interrupt a call of the
program; the rest of that call then arms a deadline the handler knows nothing of, late perhaps
but never early. `TimeLeft` says that `mtime` has not
reached the last 2^32 values, where all ones in the high word stops being "never":
about 11,700 years at 50 MHz.

*Tuner* (any window, hop, decimation, FIFO, number of slices, hold count). Four
parts. The ping-pong: the buffer not owned by the CPU is the one launched last,
and the other holds the finished transform of the launch before. The acquisition
(`Stream`): a gap in the ring is within the dirty count (`Covered`), a gap before
a word still queued is known unless the overrun flag is up (`Tracked`), and the
pump can take in what is queued before it ends (`KeptUp`), the timing assumption
of section 3. The display (`Modes`, `Flushed`): a page that is not pending is on
the panel as its hash says. `WindowIsClean` says of every window declared clean
that no sample but its first may have a gap before it.

*UART programs* (any line buffer, FIFO, session, any number of bytes). For the
monitor, the invariant follows the characters on their way: the line the terminal
will show after everything queued is the line in the buffer, so each step that
moves a character must commute with editing (`TerminalAppend`, `TerminalSend`).
`Literals` is where it matters that no key is one of the program's own control
characters (`MonAssumption`). Also in it: the line buffer never overflows. For
`uart_echo`, `AtEachPlace` says which source is armed, may be in the handler and
has been counted at each place of `main()`, `BytesInOrder` where each byte is;
`EchoesOnce` states `EchoSession`, a conjunct of the checked `ChecksPass`.

*I2C calls* (any FIFO depth, any sequence of calls of `i2c.h`, to a device that is
there, absent or busy, the bus lost in the last of them, reads being of at least one
byte). `I2cInv` pairs what a
call has still to do with what the engine may be doing meanwhile: queueing, in a
START with `k` bytes not yet pushed (`Addressing`), in a read (`Reading`), in a
STOP, or done. The hard place is the NACK: the engine drains the FIFO once, so
the program must not be pushing then. By `CpuKeptUp` it would have the FIFO full
and a byte more in hand, that is `FIFO_DEPTH + 2` bytes with the one being
refused; so a write that may be refused has at most `FIFO_DEPTH` bytes behind its
address, which is `CallsFit`, and a longer one goes to a device that takes all it
gets (`Answers`). The bound is tight: the run `i2c_long` shows what longer writes
leave behind, and the proof fails with one byte more. The other hard place is the
device, whose 0 on SDA would hide a START or a STOP. `SlaveInv` says that it sends only
from the address of a read to its last byte, and `Meets` pairs that with what the engine
has to do: where it wants a START, a STOP or a byte of its own, the line is free
(`LineFree`). A read of no bytes breaks this, and the run `i2c_empty_read` shows how.
`ProgramsCall` says that
the calls of the programs are of this kind. The theorem is about `Spec` of
`I2cDriver`; the functions of `i2c_tb` and the raw commands, which are not calls
of `i2c.h`, are left to the run `serial`.

`FrameInv` adds the bytes. At each place of a call a position `p` splits its frame:
what the bus has carried (`Sent`), the START and the byte in the shift register, and
the bytes queued (`InQueue`) are the first `p` bytes, in that order (`Sending`), and
the accesses still to come are the rest of it (`PushesAt`, `AddressAt`, `ReadsAt`).
So a push moves `p` on, and a step of the engine moves a byte between two parts of
the first `p`. A refused byte ends the first part with a STOP wherever it stands
(`Refused`), and `I2cInv` says that the rest has left the queue. In a read the bytes
popped are those behind the addresses (`Popped`), with at most one in the RX FIFO
(`InRx`). `FrameOnTheBus` is `FrameIsTheCall` at every return that is not `I2C_OK`
with other data than the call was to read (`ReadsBack`): a frame names the data the
device should hold, and another device would drive other bytes. That the data do
come back is a conjunct of `ChecksPass`. `FramesFit` asks that a frame given is the one
of its call, which the frames of `ProgramsFramed` are; the raw START of the bench has its
own checked by the run alone.

*SPI drivers* (any FIFO depth, any flash, any scripts made of driver calls).
Two invariants, one on the other. `SpiInv` counts the bytes between a store and
its load: the access that comes next tells how many are in the TX FIFO, on
the wire and in the RX FIFO (`InStep`; `BufInv` for the window of
`spi_transfer_buf`), so that the engine never finds the RX FIFO full outside the
bench, and between two calls nothing is left. `CsAtByteBoundary` follows.
`FlashInv` relates the program left to what the flash has received. Outside a
frame it says what may come next (`Between`): while the flash may be busy, only a
poll; asleep, only a wake; without WEL, no program or erase. Inside a frame the
bytes sent so far are the command of the frame (`Inside`), and in a
`w25q_status` each place is tied to the byte on its way (`Reading`): the WIP bit in
a status byte may be older than the flash, but only in one direction, since the
flash ends a program by itself and starts none. So when the poll ends the flash
is ready. A transfer of no bytes makes no access at all.
`SpiAssumption` is the grammar of the calls, read off `spi.h` and `w25q.h`:
`UsesSpiLib` (a byte is pushed, waited for and taken) and `UsesFlashLib` (whole
frames between the selects, a write enable before each program or erase and the
poll of `w25q_wait_ready` after it, nothing but a wake after a power-down). The last
is the duty of the program and not of `w25q.h`. That the calls of the drivers are
of this kind is proved too, for every address, length and data (`DriverCallsFit`),
and so are any calls one after the other (`CallsJoin`). For `w25q_write` this goes by
induction over the pages: each chunk is not empty, stays within its page
(`ChunkInPage`), and is a program of its own (`ProgramFrames`). TLC evaluates the
assumption for the scripts of `MCSerial`. The wide transfers of `spi.h` (16 and 32
bits) and the frames of `spi_tb` are covered by that evaluation only.

The recursive definitions of `tuner_drain`, of what a terminal shows and of
`w25q_write` are functions over a part of a sequence. The library's theorems of induction and
of recursive definition take an operator as a parameter, which the provers here
cannot instantiate; but its theorem that a well-founded relation has minimal
elements takes a set, so induction over numbers is available in the form of
`FromZeroUp` (a set with 0 and with the successor of each member has them all).
Existence and uniqueness of those functions are shown with it (`PushesExist`,
`ShowsExists`, `ShowsUnique`, `WritesExist`).

Only model-checked:

- Everything under fairness (`KeepsDelivering`, `NoStuckStall`, `AlwaysAnswers`,
  `EventServed`, `ProgramsEnd`, `CallsReturn`, `NeedleSettles`, `KeepsAnalysing`):
  liveness is out of the prover's reach.
- `ProgramsPass`, and `ChecksPass` but for `EchoSession`: statements about given
  programs and scripts, whose code and expected results are data of the MC modules.
- `ExpansionIsTheIsa`, `ArithmeticExact`, `PitchIsFundamental`, `DrawsTheShape`:
  bit fields and recursive functions over narrow words; TLC goes through the
  inputs instead (`ExpansionIsTheIsa` is about the halfwords only, and the run
  takes every one).

## 5. Disagreements noticed that have no run

Hardware:

- `axi4_lite_xbar.sv:14` says the lowest matching window wins; the comparators
  are independent, and with overlapping windows every match is driven. The
  shipped windows (`top_module.sv`) are disjoint.
- `trap_unit.sv:30-33` says interrupts win over `mret`; `execute_stage.sv:672`
  lets `mret` go first. The interrupt is taken one instruction later.
- `fetch_stage.sv:410` says only a redirect cycle can launch outside the memory;
  the cycle after a redirect to the last block can too. `rsp_fault` covers it.
- `README.md:35` describes `EXEC_REDIR_INCYCLE=0`; the package ships 1. Both are
  covered, here and in the proofs.
- The decoder accepts reserved encodings: shifts with `shamt[5]=1`, the RV64
  forms of c.sub and c.xor, `c.jr x0` (as ebreak), OP with funct7 0100000 and a
  funct3 other than sub and sra. Hints trap as illegal. Atomics are illegal
  although the name says RV32IMAC (the AMO opcode holds Zilx loads).
- `axi4_lite_uart.sv:353`: a BAUDDIV write in the cycle in which an earlier one
  is applied loses its valid flag.
- `axi4_lite_fft.sv:581`: a store that sets START and INVERSE at once starts with
  the INVERSE of before. `fft_tb` writes INVERSE first.
- `axi4_lite_i2c.sv`: a lost arbitration leaves the transmit FIFO as it is; only a
  NACK drains it. `CleanReturn` excepts it; one call, the last, may lose the bus to
  another master. (To the device itself a call loses it after a read of no bytes.)

Firmware:

- `sys_isr_entry` (`sys.h:175`) clears MIE for an unhandled cause, but `mret`
  restores it from MPIE: the source fires again at once.
- `uart_echo.c:388` tests the count and then executes `wfi`: a last byte that is
  handled between the two is never waited for again. `LostWakeup` is that state,
  and `CallsReturn` allows the program to end there and nowhere else. The loops
  of `fft.c` and `i2s_rx.c` have the same shape.
- `fft_isr` clears DONE with a posted store and returns. Where the store lands after
  `mret`, the dispatcher is entered a second time and claims nothing. The checks of
  the program hold either way and do not tell the two apart.
- `guitar_tuner.c:1904`: the dirty count tested is the one of the window just
  launched, the spectrum analysed the one of the window a hop before it
  (`OneHopOld`). The comments at lines 418-420 and 1899-1901 say that a window with
  a gap is not analysed. The last window that holds a gap is: by the time its
  spectrum is read, the window launched is clean. `CleanWindow` is therefore a
  statement about the window that is launched.
- `guitar_tuner.c:1956`: the screen marks a held reading by the count before the
  decrement, the report by the count after it.
- `guitar_tuner.c:1762`: the probe clears the overrun with words still queued; the
  flush at line 1854 makes it harmless.
- `ds3231.h`: the temperature is said to be rounded towards negative infinity and
  is divided by 4, which truncates; `ds3231_set_time` says it starts the
  oscillator and does not.
- `ssd1306_text.h`: a fixed-point number between -1 and 0 loses its sign;
  `ssd1306_fill_rect` with `x = 0, w = 0` does not return.
- `bmp280.h`: the wait for the end of a measurement does not end on a bus error.
- `i2s.h`: `i2s_master_hz` does not bound the divider to its 16 bits, and divides
  by a slot length of 0.

## 6. Not modelled

*Data that no property tells apart*: register values, byte lanes, CSRs that are
plain storage, response codes, prediction history. Decode and execute are
checked with predictions of any kind, so a wrong one is met in every place; the
tables and the return stack of the branch predictor decide only how good a
prediction is. Operands are values chosen freely, so the register file and the
execute-to-decode bypass (`decode_stage.sv:577`) are outside: that an
instruction sees the write of the one before it is not checked here.

*Arithmetic of the hardware*: the ALU and the FFT butterflies are 32-bit and
fixed-point datapaths whose reference would be the same formula; the twiddle ROM
is generated. The division's control is in `ExecuteStage`.

*Below a byte*: BAUDDIV and bit timing of the UART, SPI modes and dividers, I2C
stretching and SCL phases, I2S formats and word lengths (a word is whole or cut).
Metastability: the synchronisers are two ideal flops.

*Time measured*: the budgets the tuner's self-check prints, `check_master_timing`
of `i2s_tb`, the "stalled" branch of `fft_wait` (the engine is fair here). The
IRQ sections of `spi_tb` and `i2c_tb`, the burst section of `spi_tb`.

*Numbers without a short reference*: the compensation polynomials of `bmp280.h`,
the parts of `ee_printf.c` other than its digits; 16-bit hashes of two pages that
collide (a hash is its page here); `ring_count` beyond 32 bits.

*Programs without a question of their own*: `gpio_blink`, CoreMark, Dhrystone,
the ISA tests, the host side of `sim_main.cpp` beyond the terminal and the peers
the programs meet; scripts of the build and of place and route.

Proofs that would add most: that a register written over I2C reads back, for every
sequence of calls; that an expanded halfword does what the manual's table says,
from the bit fields rather than by enumeration.
