---------------------------- MODULE IrqPrograms -----------------------------
(***************************************************************************)
(* Programs that take interrupts through sys.h and plic.h: the dispatcher  *)
(* behind mtvec, the CLINT timer as timer.h arms it, the FFT and the I2S   *)
(* receiver as fft.h and i2s.h drive them.  A program and its handlers are *)
(* sequences of accesses; an interrupt may come between any two.  Stores   *)
(* are posted: one is on the bus and lands a cycle or two later, the next  *)
(* access waits for it.  Every step is a clock cycle.                      *)
(***************************************************************************)
EXTENDS ProgramPeris

CONSTANTS
  IrqScripts       \* the programs: [ops, audio, slack]

VARIABLES
  bench,           \* audio: the I2S bus is clocked; slack: see MayAdvance
  prog, hops,      \* accesses left in the main program and in the handler
  in_isr, halted,  \* a handler runs; the hart sleeps in wfi
  posted,          \* the store on the bus
  pmie, pmpie, psrc, \* mstatus.MIE, mstatus.MPIE, the sources set in mie
  pmip,            \* the mip register
  isr_tab, plic_tab, \* sys_isr_tab and plic_tab
  mt,              \* per context: the words timer_mtime has read, and when it began
  lr,              \* what i2s_read_frame returned, and the frame before
  irq_seen, claim_id, unhandled, pfails,
  due, spurious    \* history: the deadline that is armed, timer interrupts without one
irqVars == <<bench, prog, hops, in_isr, halted, posted, pmie, pmpie, psrc, pmip, isr_tab, plic_tab,
             mt, lr, irq_seen, claim_id, unhandled, pfails, due, spurious>>
deviceVars == <<timerVars, fftVars, i2sVars>>

None == [reg |-> "none", val |-> 0, age |-> 0]
PLIC_SRC_FFT == 5
PLIC_SRC_I2S == 6
NEVER == ONES * WORD
SEEN_MAX == 3      \* no program waits for more interrupts
MinOf(a, b) == IF a < b THEN a ELSE b
-----------------------------------------------------------------------------
(* The libraries, as accesses.                                             *)
Op(k, v) == [k |-> k, v |-> v]
St(reg, val) == [k |-> "st", reg |-> reg, v |-> val]
Csr(k) == Op(k, 0)
PCheck(c, v) == [k |-> "check", c |-> c, v |-> v]
Await(c, v) == [k |-> "await", c |-> c, v |-> v]

timer_mtime == <<Op("hi", 0), Op("lo", 0), Op("hi2", 0)>>
timer_arm_us(d) ==
  timer_mtime \o <<Op("target", d), St("MTIMECMP_HI", ONES), Csr("st_lo"), Csr("st_hi")>>
timer_cancel ==
  <<St("MTIMECMP_HI", ONES), St("MTIMECMP_LO", ONES), Csr("cancel_hi")>>

sys_interrupt_attach(cause, fn) == <<[k |-> "attach", cause |-> cause, v |-> fn]>>
plic_attach(src, fn) == <<[k |-> "plic", src |-> src, v |-> fn]>> \o sys_interrupt_attach("MEI", "plic_mei_isr")

fft_start(shadow) == <<St("FFT_IRQ", 1), St("CTRL", shadow \cup {"start"})>>
fft_swap(shadow) == <<St("CTRL", shadow \cup {"swap"})>>
fft_begin(n) == <<St("CTRL", {}), St("FFT_IRQ", 1), St("CONF", n), St("SCALE", "1/N"), PCheck("log2n", Clamp(n))>>
fft_wait == <<Await("fdone", TRUE)>>
fft_fill(x) == <<St("DATA", x)>>
\* Mutant: the buffers are swapped while the transform runs.
SwapAtOnce(x) == fft_fill(x) \o fft_start({}) \o fft_swap({})
fft_transform(x) == fft_fill(x) \o fft_start({}) \o fft_wait \o fft_swap({})
Spectrum(x) == <<PCheck("page", [dom |-> "freq", x |-> x, scale |-> "1/N"])>>

i2s_overrun_clear == <<St("I2S_IRQ", "ovr")>>
\* Mutant: the words stay.
FlushFlagOnly == i2s_overrun_clear
i2s_flush == <<Op("flush", 0)>> \o i2s_overrun_clear
i2s_ctrl(f, v) == <<[k |-> "ctrl", f |-> f, v |-> v]>>
i2s_begin(chan) == <<Op("begin", chan)>>
i2s_end == i2s_ctrl("enable", FALSE)
i2s_irq_enable(rx) == i2s_ctrl("ie_rx", rx)
i2s_master_hz == i2s_ctrl("master", TRUE)
i2s_master_off == i2s_ctrl("master", FALSE)
i2s_set_watermark(n) == <<St("WATER", n)>>
i2s_read_wait(ch) == <<Op("read", ch)>>
i2s_read_frame == <<Op("align", 0), Op("right", 0)>>
-----------------------------------------------------------------------------
(* The handlers.                                                           *)
Serve(fn) ==
  CASE fn = "fft_isr" -> <<St("FFT_IRQ", 1), Csr("irq_seen")>>
    [] fn = "i2s_isr" -> i2s_flush \o <<Csr("irq_seen")>>
    [] fn = "tick"    -> <<Csr("irq_seen"), Op("again", 2)>>      \* re-arms, the second time cancels
    [] fn = "once"    -> <<Csr("irq_seen")>> \o timer_cancel
    [] fn = "plic_mei_isr" -> <<Csr("claim")>>

\* The dispatcher. Without a handler it clears mstatus.MIE, as do the hooks of fft.c and i2s_rx.c.
sys_isr_entry(cause) == IF isr_tab[cause] # "none" THEN Serve(isr_tab[cause]) ELSE <<Csr("gie-")>>

plic_lines == (IF fft_irq THEN {PLIC_SRC_FFT} ELSE {}) \cup (IF i2s_irq THEN {PLIC_SRC_I2S} ELSE {})
plic_claim == IF plic_lines = {} THEN 0 ELSE CHOOSE s \in plic_lines : \A t \in plic_lines : s <= t
int_pending == IF pmie THEN pmip \cap psrc ELSE {}
-----------------------------------------------------------------------------
(* The hart's part of a cycle.                                             *)
Ctx == IF in_isr THEN "isr" ELSE "main"
Ops == IF in_isr THEN hops ELSE prog
At1(k) == Ops # <<>> /\ Head(Ops).k = k
V == Head(Ops).v
Todo(ops) == prog' = (IF in_isr THEN prog ELSE ops) /\ hops' = (IF in_isr THEN ops ELSE hops)
Go == Todo(Tail(Ops))

IsStore == Ops # <<>> /\ Head(Ops).k \in {"st", "st_lo", "st_hi", "cancel_hi", "ctrl", "begin"}
Executes == int_pending = {} /\ ~halted
Posts == Executes /\ IsStore /\ posted = None

ctlVars == <<in_isr, halted, pmie, pmpie, psrc, isr_tab, plic_tab>>
logVars == <<irq_seen, claim_id, unhandled>>
histVars == <<due, spurious>>

\* A load waits for the store before it.
Load(k) == At1(k) /\ posted = None

\* Stores: a constant, a word of the target, or CTRL of the I2S receiver read,
\* changed and written back.
ToPost ==
  CASE At1("st")        -> [reg |-> Head(Ops).reg, val |-> V, age |-> 0]
    [] At1("st_lo")     -> [reg |-> "MTIMECMP_LO", val |-> lo_of(mt[Ctx].target), age |-> 0]
    [] At1("st_hi")     -> [reg |-> "MTIMECMP_HI", val |-> hi_of(mt[Ctx].target), age |-> 0]
    [] At1("cancel_hi") -> [reg |-> "MTIMECMP_HI", val |-> ONES, age |-> 0]
    [] At1("ctrl")      -> [reg |-> "I2S_CTRL", val |-> [ictrl EXCEPT ![Head(Ops).f] = V], age |-> 0]
    [] At1("begin")     -> [reg |-> "I2S_CTRL", age |-> 0,
                            val |-> [I2sReset EXCEPT !.enable = TRUE, !.chan = V, !.master = ictrl.master]]
PStore ==
  /\ Posts /\ Go
  /\ due' = IF At1("st_hi") THEN mt[Ctx].target ELSE IF At1("cancel_hi") THEN NEVER ELSE due
  /\ UNCHANGED <<ctlVars, mt, lr, logVars, pfails, spurious>>

\* timer_mtime: a high word that has moved is taken again with a new low word.
ReadTime ==
  /\ \/ Load("hi") /\ mt' = [mt EXCEPT ![Ctx].hi = hi_of(mtime), ![Ctx].at = mtime, ![Ctx].from = mtime] /\ Go
     \/ Load("lo") /\ mt' = [mt EXCEPT ![Ctx].lo = lo_of(mtime)] /\ Go
     \/ Load("hi2") /\ hi_of(mtime) = mt[Ctx].hi /\ Go /\ UNCHANGED mt
     \/ Load("hi2") /\ hi_of(mtime) # mt[Ctx].hi /\ Todo(<<Op("lo", 0)>> \o Tail(Ops))
        /\ mt' = [mt EXCEPT ![Ctx].hi = hi_of(mtime), ![Ctx].at = mtime]
  /\ UNCHANGED <<ctlVars, lr, logVars, pfails, histVars>>
\* The time read lies between the call and the return.
TimeRead == mt[Ctx].hi * WORD + mt[Ctx].lo
Target ==
  /\ At1("target") /\ Go
  /\ mt' = [mt EXCEPT ![Ctx].target = TimeRead + V]
  /\ pfails' = pfails + IF TimeRead \in mt[Ctx].from .. mtime THEN 0 ELSE 1
  /\ UNCHANGED <<ctlVars, lr, logVars, histVars>>

\* A poll, and a check of the program.
Reads(c) ==
  CASE c = "fdone" -> fdone [] c = "fbusy" -> fbusy [] c = "page" -> fbuf[cpu_buf] [] c = "buf" -> cpu_buf
    [] c = "log2n" -> log2n [] c = "scale" -> fscale [] c = "fctrl" -> fctrl [] c = "firq" -> fft_irq
    [] c = "level" -> Len(rxq) [] c = "overrun" -> overrun [] c = "water" -> water [] c = "iirq" -> i2s_irq
    [] c = "rx" -> rx_water_hit [] c = "ctrl" -> ictrl [] c = "mtip" -> "MTI" \in pmip
    [] c = "pair" -> lr.l = lr.r [] c = "same" -> lr.l = lr.prev [] c = "step" -> lr.l = (lr.prev + 1) % FRAMES
    [] c = "claim" -> claim_id [] c = "unhandled" -> unhandled
Look1 ==
  /\ \/ Load("await") /\ (IF Reads(Head(Ops).c) = V THEN Go ELSE UNCHANGED <<prog, hops>>) /\ UNCHANGED pfails
     \/ Load("check") /\ Go /\ pfails' = pfails + IF Reads(Head(Ops).c) = V THEN 0 ELSE 1
  /\ UNCHANGED <<ctlVars, mt, lr, logVars, histVars>>

\* A read of RXDATA pops. i2s_read looks at STATUS first; the head stays as it is in between.
Popping ==
  Executes /\ posted = None /\ rxq # <<>> /\ Ops # <<>> /\ Head(Ops).k \in {"flush", "read", "align", "right"}
ReadWords ==
  LET w == Head(rxq)
  IN  /\ \/ Load("flush") /\ rxq = <<>> /\ Go /\ UNCHANGED <<lr, pfails>>
         \/ Load("flush") /\ rxq # <<>> /\ UNCHANGED <<prog, hops, lr, pfails>>
         \/ (Load("read") \/ Load("align") \/ Load("right")) /\ rxq = <<>> /\ UNCHANGED <<prog, hops, lr, pfails>>
         \/ Load("read") /\ rxq # <<>> /\ Go /\ lr' = [lr EXCEPT !.prev = lr.l, !.l = w.k]
            /\ pfails' = pfails + IF w.ch = V THEN 0 ELSE 1
         \/ Load("align") /\ rxq # <<>> /\ UNCHANGED pfails
            /\ IF w.ch = "left" THEN Go /\ lr' = [lr EXCEPT !.prev = lr.l, !.l = w.k]
               ELSE UNCHANGED <<prog, hops, lr>>
         \/ Load("right") /\ rxq # <<>> /\ Go /\ lr' = [lr EXCEPT !.r = w.k] /\ UNCHANGED pfails
      /\ UNCHANGED <<ctlVars, mt, logVars, histVars>>

\* CSR accesses and the tables of the dispatchers.
Local ==
  /\ \/ At1("gie+") /\ pmie' = TRUE /\ UNCHANGED <<psrc, isr_tab, plic_tab>>
     \/ At1("gie-") /\ pmie' = FALSE /\ UNCHANGED <<psrc, isr_tab, plic_tab>>
     \/ At1("src+") /\ psrc' = psrc \cup {V} /\ UNCHANGED <<pmie, isr_tab, plic_tab>>
     \/ At1("attach") /\ isr_tab' = [isr_tab EXCEPT ![Head(Ops).cause] = V] /\ UNCHANGED <<pmie, psrc, plic_tab>>
     \/ At1("plic") /\ plic_tab' = [plic_tab EXCEPT ![Head(Ops).src] = V] /\ UNCHANGED <<pmie, psrc, isr_tab>>
  /\ Go /\ UNCHANGED <<in_isr, halted, pmpie, mt, lr, logVars, pfails, histVars>>

\* while (irq_seen < n) sys_wfi(), the loop that spins instead, and a bench that drives a word.
Loops ==
  /\ \/ At1("seen") /\ Todo(IF irq_seen >= V THEN Tail(Ops) ELSE <<Op("wfi", 0)>> \o Ops) /\ UNCHANGED halted
     \/ At1("wfi") /\ halted' = TRUE /\ Go
     \/ At1("until") /\ (IF irq_seen >= V THEN Go ELSE UNCHANGED <<prog, hops>>) /\ UNCHANGED halted
     \/ (Load("slot") \/ Load("cut")) /\ (IF word.ch # V THEN Go ELSE UNCHANGED <<prog, hops>>) /\ UNCHANGED halted
  /\ UNCHANGED <<in_isr, pmie, pmpie, psrc, isr_tab, plic_tab, mt, lr, logVars, pfails, histVars>>

\* The handlers' bookkeeping; plic_mei_isr claims once and calls the handler of the source.
Handle ==
  /\ \/ At1("irq_seen") /\ irq_seen' = MinOf(irq_seen + 1, SEEN_MAX) /\ Go /\ UNCHANGED <<claim_id, unhandled>>
     \/ Load("claim") /\ UNCHANGED <<irq_seen, unhandled>>
        /\ IF plic_claim # 0 /\ plic_tab[plic_claim] # "none"
           THEN claim_id' = plic_claim /\ Todo(Serve(plic_tab[plic_claim]) \o Tail(Ops))
           ELSE UNCHANGED claim_id /\ Go
     \/ At1("again") /\ Todo((IF irq_seen < V THEN timer_arm_us(2) ELSE timer_cancel) \o Tail(Ops))
        /\ UNCHANGED logVars
  /\ UNCHANGED <<ctlVars, mt, lr, pfails, histVars>>

Instruction ==
  /\ Executes
  /\ PStore \/ ReadTime \/ Target \/ Look1 \/ ReadWords \/ Local \/ Loops \/ Handle

\* An access that waits for the bus, and a hart that sleeps or has parked.
Blocked ==
  /\ int_pending = {}
  /\ \/ halted \/ (Ops = <<>> /\ ~in_isr)
     \/ posted # None /\ (IsStore \/ (Ops # <<>> /\ Head(Ops).k \in
           {"hi", "lo", "hi2", "await", "check", "flush", "read", "align", "right", "claim", "slot", "cut"}))
  /\ UNCHANGED <<prog, hops, ctlVars, mt, lr, logVars, pfails, histVars>>

\* The external interrupt comes before the timer's.
TakeIrq ==
  LET cause == IF "MEI" \in int_pending THEN "MEI" ELSE "MTI"
  IN  /\ int_pending # {}
      /\ in_isr' = TRUE /\ halted' = FALSE /\ pmpie' = pmie /\ pmie' = FALSE
      /\ hops' = sys_isr_entry(cause)
      /\ IF cause = "MTI" /\ isr_tab[cause] # "none"
         THEN spurious' = (spurious \/ mtime < due) /\ due' = NEVER
         ELSE UNCHANGED histVars
      /\ unhandled' = IF isr_tab[cause] = "none" /\ unhandled < 2 THEN unhandled + 1 ELSE unhandled
      /\ UNCHANGED <<prog, psrc, isr_tab, plic_tab, mt, lr, irq_seen, claim_id, pfails>>
Mret ==
  /\ in_isr /\ hops = <<>> /\ int_pending = {}
  /\ in_isr' = FALSE /\ pmie' = pmpie
  /\ UNCHANGED <<prog, hops, halted, pmpie, psrc, isr_tab, plic_tab, mt, lr, logVars, pfails, histVars>>

Hart1 == Instruction \/ Blocked \/ TakeIrq \/ Mret
-----------------------------------------------------------------------------
CpuReset ==
  /\ hops = <<>> /\ in_isr = FALSE /\ halted = FALSE /\ posted = None
  /\ pmie = FALSE /\ pmpie = FALSE /\ psrc = {} /\ pmip = {}
  /\ isr_tab = [c \in {"MTI", "MEI"} |-> "none"]
  /\ plic_tab = [s \in {PLIC_SRC_FFT, PLIC_SRC_I2S} |-> "none"]
  /\ mt = [c \in {"main", "isr"} |-> [hi |-> 0, lo |-> 0, at |-> 0, from |-> 0, target |-> 0]]
  /\ lr = [l |-> 0, r |-> 0, prev |-> 0]
  /\ irq_seen = 0 /\ claim_id = 0 /\ unhandled = 0 /\ pfails = 0
  /\ due = NEVER /\ spurious = FALSE
IrqInit ==
  /\ TimerInit /\ FftInit /\ I2sInit
  /\ \E s \in IrqScripts : prog = s.ops /\ bench = [audio |-> s.audio, slack |-> s.slack]
  /\ CpuReset

(* The scaled clock: no context is held between its reads of mtime for a whole turn of the low      *)
(* word. Up to bench.slack time passes beside the program; later, while it waits for the deadline.  *)
Midway(ops) == ops # <<>> /\ Head(ops).k \in {"lo", "hi2"}
MayAdvance ==
  /\ mtime < bench.slack \/ (mtime < due /\ due # NEVER /\ ~in_isr /\ At1("until"))
  /\ Midway(prog) => mtime - mt["main"].at < WORD - 1
  /\ Midway(hops) => mtime - mt["isr"].at < WORD - 1

\* The audio bus is clocked by a master outside, by the receiver, or by a bench for a word.
Driven == (Load("slot") \/ Load("cut")) /\ word.ch = V
Clocked == bench.audio \/ ictrl.master \/ Driven
Bus(arrive) ==
  IF ~Clocked THEN "stopped" ELSE IF ~arrive THEN "run" ELSE IF At1("cut") THEN "cut" ELSE "word"

\* A clock cycle: the store lands, time advances, a transform ends, a word is complete.
PCycle(land, advance, finish, arrive) ==
  LET write == IF land THEN posted ELSE None
  IN  /\ (land => posted # None) /\ (advance => MayAdvance) /\ (posted.age = 1 => land) /\ (arrive => Clocked)
      /\ Hart1 /\ UNCHANGED bench
      /\ posted' = IF Posts THEN ToPost
                   ELSE IF land \/ posted = None THEN None ELSE [posted EXCEPT !.age = 1]
      /\ TimerTick(advance, write) /\ FftTick(finish, write)
      /\ I2sTick(Bus(arrive), Popping, write)
      /\ pmip' = (IF mtip THEN {"MTI"} ELSE {}) \cup (IF plic_lines # {} THEN {"MEI"} ELSE {})

IrqNext == \E land, advance, finish, arrive \in BOOLEAN : PCycle(land, advance, finish, arrive)
TimePasses == \E land, finish, arrive \in BOOLEAN : PCycle(land, TRUE, finish, arrive)
Transforms == \E land, advance, arrive \in BOOLEAN : PCycle(land, advance, TRUE, arrive)
WordComes == \E land, advance, finish \in BOOLEAN : PCycle(land, advance, finish, TRUE)
IrqDone == prog = <<>> /\ ~in_isr
IrqSpec == IrqInit /\ [][IrqNext]_<<deviceVars, irqVars>>

(* Programs that use the timer through timer.h only: its accesses come in whole calls, the handler  *)
(* re-arms or cancels. A handler that re-arms is the only one to do so, but for one call before.    *)
Stage(o) == IF o.k = "st" /\ o.reg \in {"MTIMECMP_HI", "MTIMECMP_LO"} THEN o.reg ELSE o.k
Inner == {"lo", "hi2", "target", "st_lo", "st_hi", "MTIMECMP_LO", "cancel_hi"}
Opened == {"hi", "lo", "hi2", "MTIMECMP_HI", "MTIMECMP_LO", "st_lo"}
Follows(f, g) ==
  CASE f = "MTIMECMP_HI" -> g \in {"st_lo", "MTIMECMP_LO"}
    [] f = "MTIMECMP_LO" -> g = "cancel_hi"
    [] f = "st_lo" -> g = "st_hi"
    [] f = "hi" -> g = "lo"
    [] f = "lo" -> g = "hi2"
    [] f = "hi2" -> g = "target"
    [] OTHER -> g \notin Inner
CallsWhole(ops) ==
  /\ ops # <<>> => Stage(ops[1]) \notin Inner /\ Stage(ops[Len(ops)]) \notin Opened
  /\ \A i \in 1 .. Len(ops) - 1 : Follows(Stage(ops[i]), Stage(ops[i + 1]))
OneCall(ops) ==
  \A i, j \in 1 .. Len(ops) :
    i < j /\ Stage(ops[i]) \in {"st_hi", "cancel_hi"} => Stage(ops[j]) \notin {"MTIMECMP_HI", "st_hi", "cancel_hi"}
Rearms(ops) == \E i \in 1 .. Len(ops) : ops[i].k = "attach" /\ ops[i].v = "tick"
Allowed(o) ==
  /\ o.k \notin {"again", "claim", "irq_seen"}
  /\ o.k = "target" => o.v \in Nat
  /\ Stage(o) \in {"MTIMECMP_HI", "MTIMECMP_LO"} => o.v = ONES
  /\ o.k = "attach" => (o.cause = "MTI" /\ o.v \in {"once", "tick"}) \/ (o.cause = "MEI" /\ o.v = "plic_mei_isr")
  /\ o.k = "plic" => o.v \in {"fft_isr", "i2s_isr"}
UsesTimerLib(ops) ==
  /\ Len(ops) \in Nat /\ ops = [i \in 1 .. Len(ops) |-> ops[i]] /\ \A i \in 1 .. Len(ops) : Allowed(ops[i])
  /\ CallsWhole(ops) /\ (Rearms(ops) => OneCall(ops))
ASSUME TimerAssumption == \A s \in IrqScripts : UsesTimerLib(s.ops)
(***************************************************************************)
(* Properties.                                                             *)
(***************************************************************************)

\* Every check of the programs holds: results one frame behind in the other buffer, samples
\* written while a transform runs, frames in order and paired, the watermark and the overrun,
\* the source claimed, no interrupt unexpected; and a time read is never outside its call.
ProgramsPass == pfails = 0

\* The timer interrupt is taken only when the deadline of the last timer_arm_us has passed, once
\* for each, and never after timer_cancel: in no order of the word stores, the two stages of the
\* comparison, mip and mret, re-armed by the handler or by the program, does a transient fire.
TickWhenDue == ~spurious

\* A time read by timer_mtime lies between its call and its return, though an interrupt comes between
\* two of its reads and the low word rolls over.
TimeReadInCall == At1("target") => TimeRead \in mt[Ctx].from .. mtime

\* Nothing waits for ever: every transform ends, every word comes, every wfi is woken, no handler
\* is re-entered without end.
ProgramsEnd == <>IrqDone
=============================================================================
