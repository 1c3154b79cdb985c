---------------------------- MODULE ProgramPeris ----------------------------
(***************************************************************************)
(* The peripherals behind the interrupt programs.  An AXI handshake is     *)
(* AxiSlave; here a write is what a do_write commits.                      *)
(*                                                                         *)
(* clint_timer: mtime and mtimecmp, each two words of WORD values, and the *)
(* comparison, registered twice.  One unit of mtime stands for many clock  *)
(* cycles, so a cycle may leave it alone.                                  *)
(*                                                                         *)
(* axi4_lite_fft: who owns which sample buffer.  A buffer holds a frame in *)
(* the time or the frequency domain; the butterflies are not modelled, a   *)
(* transform takes at least Shortest cycles and ends with the frame of the *)
(* engine's buffer transformed as the registers said.                      *)
(*                                                                         *)
(* axi4_lite_i2s at the level of words.  The bus carries frame after       *)
(* frame, its left word and then its right one; a word is the frame's      *)
(* number, modulo FRAMES, and the channel.  A master on the other side or, *)
(* in master mode, a microphone that answers in the left slot only: either *)
(* numbers its frames.                                                     *)
(***************************************************************************)
EXTENDS Integers, Sequences

CONSTANT WORD
ASSUME WordAssumption == WORD \in Nat \ {0, 1}

VARIABLES
  mtime, mtimecmp,   \* mtimecmp: its words [hi, lo]
  ge,                \* stage 1: the comparisons of the words
  mtip
timerVars == <<mtime, mtimecmp, ge, mtip>>

ONES == WORD - 1
hi_of(t) == t \div WORD
lo_of(t) == t % WORD

TimerInit ==
  /\ mtime = 0 /\ mtimecmp = [hi |-> ONES, lo |-> ONES]
  /\ ge = [hi |-> FALSE, eq |-> FALSE, lo |-> FALSE] /\ mtip = FALSE

\* Mutant: the high words need not be equal.
EitherHalf == ge.hi \/ ge.lo
Matches == ge.hi \/ (ge.eq /\ ge.lo)
\* One clock: write is [reg, val] for a store that commits in it.
TimerTick(advance, write) ==
  /\ mtime' = mtime + (IF advance THEN 1 ELSE 0)
  /\ mtimecmp' = CASE write.reg = "MTIMECMP_HI" -> [mtimecmp EXCEPT !.hi = write.val]
                   [] write.reg = "MTIMECMP_LO" -> [mtimecmp EXCEPT !.lo = write.val]
                   [] OTHER -> mtimecmp
  /\ ge' = [hi |-> hi_of(mtime) > mtimecmp.hi,
            eq |-> hi_of(mtime) = mtimecmp.hi,
            lo |-> lo_of(mtime) >= mtimecmp.lo]
  /\ mtip' = Matches
-----------------------------------------------------------------------------
CONSTANT FFT_MIN
ASSUME FftAssumption == FFT_MIN \in Nat

VARIABLES
  fbuf,           \* the two buffers: [dom, x], a result also [scale]
  cpu_buf,        \* the one the DATA page shows
  fbusy, left,    \* a transform runs, cycles it needs at least
  fdone,          \* sticky DONE
  fctrl, inv_run, \* CTRL's irq_en and inverse, and the inverse of the transform that runs
  log2n, fscale   \* CONF, SCALE
fftVars == <<fbuf, cpu_buf, fbusy, left, fdone, fctrl, inv_run, log2n, fscale>>

FftInit ==
  /\ fbuf = [b \in {0, 1} |-> [dom |-> "time", x |-> "none"]]
  /\ cpu_buf = 0 /\ fbusy = FALSE /\ left = 0 /\ fdone = FALSE /\ fctrl = {} /\ inv_run = FALSE
  /\ log2n = 10 /\ fscale = "1/N"

Clamp(n) == IF n < 2 THEN 2 ELSE IF n > 10 THEN 10 ELSE n
\* Passes over half the points: the long transforms outlast a series of accesses.
Shortest == IF log2n > 6 THEN 12 * FFT_MIN ELSE FFT_MIN
Transformed(frame) ==
  [dom |-> IF frame.dom # "time" THEN "twice" ELSE IF inv_run THEN "inverse" ELSE "freq",
   x |-> frame.x, scale |-> fscale]

\* START and SWAP are ignored while a transform runs.
Starts(write) == write.reg = "CTRL" /\ ~fbusy /\ "start" \in write.val
Swaps(write) == write.reg = "CTRL" /\ ~fbusy /\ write.val \cap {"start", "swap"} # {}

\* One clock: finish is the last cycle of a transform.  DONE set wins over its clear.
FftTick(finish, write) ==
  /\ finish => fbusy /\ left = 0
  /\ fbusy' = (Starts(write) \/ (fbusy /\ ~finish))
  /\ left' = IF Starts(write) THEN Shortest ELSE IF left > 0 THEN left - 1 ELSE 0
  /\ fdone' = (finish \/ (fdone /\ ~Starts(write) /\ write.reg # "FFT_IRQ"))
  /\ cpu_buf' = IF Swaps(write) THEN 1 - cpu_buf ELSE cpu_buf
  /\ fbuf' = [b \in {0, 1} |->
       IF b = cpu_buf /\ write.reg = "DATA" THEN [dom |-> "time", x |-> write.val]
       ELSE IF b # cpu_buf /\ finish THEN Transformed(fbuf[b])
       ELSE fbuf[b]]
  /\ fctrl' = IF write.reg = "CTRL" THEN write.val \cap {"irq_en", "inverse"} ELSE fctrl
  /\ inv_run' = IF Starts(write) THEN "inverse" \in fctrl ELSE inv_run
  /\ fscale' = IF write.reg = "SCALE" /\ ~fbusy THEN write.val ELSE fscale
  /\ log2n' = IF write.reg = "CONF" /\ ~fbusy THEN Clamp(write.val) ELSE log2n

fft_irq == fdone /\ "irq_en" \in fctrl

-----------------------------------------------------------------------------
CONSTANTS
  I2S_DEPTH,      \* entries of the RX FIFO
  FRAMES,
  PACE            \* cycles of the clocked bus between two words, at least
ASSUME I2sAssumption == I2S_DEPTH \in Nat \ {0} /\ FRAMES \in Nat \ {0} /\ PACE \in Nat \ {0}

VARIABLES
  rxq, overrun,   \* the RX FIFO and the sticky flag
  ictrl,          \* CTRL: [enable, chan, ie_rx, ie_ovr, master]
  water,
  collecting,     \* the word on the bus was there from its first bit
  word, pace      \* the word on the bus, and cycles until it is complete at least
i2sVars == <<rxq, overrun, ictrl, water, collecting, word, pace>>

I2sReset == [enable |-> FALSE, chan |-> "stereo", ie_rx |-> FALSE, ie_ovr |-> FALSE, master |-> FALSE]
I2sInit ==
  /\ rxq = <<>> /\ overrun = FALSE /\ ictrl = I2sReset /\ water = 1
  /\ collecting = FALSE /\ word = [k |-> 0, ch |-> "left"] /\ pace = PACE

\* The channel filter.
ch_accept == ictrl.chan \in {"stereo", word.ch}
NextWord == IF word.ch = "left" THEN [word EXCEPT !.ch = "right"]
            ELSE [k |-> (word.k + 1) % FRAMES, ch |-> "left"]

\* One clock. The bus: stopped, running, at the last bit of a word, or at a WS edge that cuts a
\* word short. A word starts at WS, in the first of its cycles. pop: RXDATA is read.
I2sTick(bus, pop, write) ==
  LET next == bus \in {"word", "cut"}
      req  == bus = "word" /\ ictrl.enable /\ collecting /\ ch_accept
      full == Len(rxq) = I2S_DEPTH
      kept == IF pop /\ rxq # <<>> THEN Tail(rxq) ELSE rxq
  IN  /\ next => pace = 0
      /\ pace' = IF next THEN PACE ELSE IF bus = "run" /\ pace > 0 THEN pace - 1 ELSE pace
      /\ word' = IF next THEN NextWord ELSE word
      /\ collecting' = (ictrl.enable /\ ~next /\ (collecting \/ (bus = "run" /\ pace = PACE)))
      /\ rxq' = IF req /\ ~full THEN Append(kept, word) ELSE kept
      /\ overrun' = ((req /\ full) \/ (overrun /\ ~(write.reg = "I2S_IRQ" /\ write.val = "ovr")))
      /\ ictrl' = IF write.reg = "I2S_CTRL" THEN write.val ELSE ictrl
      /\ water' = IF write.reg = "WATER" THEN write.val ELSE water

rx_water_hit == Len(rxq) >= (IF water = 0 THEN 1 ELSE water)
i2s_irq == (rx_water_hit /\ ictrl.ie_rx) \/ (overrun /\ ictrl.ie_ovr)
=============================================================================
