------------------------------- MODULE Tuner -------------------------------
(* The board loop of guitar_tuner.c: the I2S FIFO filled by the microphone   *)
(* while the CPU is busy, the sample ring and its dirty count, the ping-pong *)
(* of the FFT, and the display with its page hashes and animated needle.     *)
(* A sample is what the properties need of it: whether a word was lost       *)
(* between it and the sample before. Readings are chosen by the environment. *)
EXTENDS Integers, Sequences
CONSTANTS
  FIFO_DEPTH,      \* words of the I2S FIFO
  TUNER_N,         \* samples of the window
  TUNER_HOP,       \* samples between two launches
  TUNER_ANIM_STEPS,
  TUNER_DECIM,     \* words per sample
  TUNER_HOLD_FRAMES,
  TUNER_IN_TUNE_CENTS,
  Notes,           \* what a reading may be
  FLAT, SHARP,     \* and how many cents below and above its note
  CHUNK_WORDS,     \* words that may arrive during a chunk, a character or a pass over the samples
  DRAW_WORDS,      \* during the drawing of a framebuffer
  UPDATE_WORDS     \* during a whole ssd1306_update()
Slice == TUNER_HOP \div TUNER_ANIM_STEPS   \* samples between two steps of the needle
ASSUME TunerAssumption ==
  /\ {TUNER_N, TUNER_HOP, TUNER_ANIM_STEPS, TUNER_DECIM, Slice} \subseteq Nat \ {0}
  /\ {CHUNK_WORDS, DRAW_WORDS, UPDATE_WORDS, FIFO_DEPTH, TUNER_HOLD_FRAMES} \subseteq Nat
  /\ TUNER_HOP % TUNER_ANIM_STEPS = 0 /\ TUNER_HOP <= TUNER_N
  /\ CHUNK_WORDS + 1 < FIFO_DEPTH /\ DRAW_WORDS < FIFO_DEPTH
  /\ CHUNK_WORDS <= (Slice - 1) * TUNER_DECIM + 1   \* a slice takes in what a chunk leaves

VARIABLES
  pc,              \* where the loop is
  aq,              \* acquisition: FIFO, CIC phase, ring, dirty count
  need,            \* samples the current tuner_pump still waits for
  step,            \* animation slices done in this hop
  fft,             \* the coprocessor: buffers, the CPU's one, BUSY and DONE, launches
  r, last,         \* the readings
  ui,              \* hold, showing, anim, target and floor
  fb, disp, hash,  \* framebuffer, display memory and page hashes, by page
  page,            \* pages still to flush
  quiet            \* analyses since the last valid one, -1 before the first analysis
vars == <<pc, aq, need, step, fft, r, last, ui, fb, disp, hash, page, quiet>>

-----------------------------------------------------------------------------
(* Acquisition. A queued word is TRUE when words were lost just before it.   *)
Arrived(a, k) ==
  LET room == FIFO_DEPTH - Len(a.fifo)
      m == IF k < room THEN k ELSE room IN
  [a EXCEPT !.fifo = @ \o [i \in 1..m |-> i = 1 /\ a.lost],
            !.lost = (m = 0 /\ @) \/ k > m, !.ovr = @ \/ k > m]
tuner_push_input(a, w) ==
  IF a.phase + 1 < TUNER_DECIM THEN [a EXCEPT !.phase = @ + 1, !.gap = @ \/ w]
  ELSE [a EXCEPT !.phase = 0, !.gap = FALSE, !.ring = Append(Tail(@), a.gap \/ w),
                 !.dirty = IF @ = 0 THEN 0 ELSE @ - 1]
(* Mutants: half a window is declared dirty; the flag is not cleared. *)
DirtyForAHop(a) ==
  IF a.ovr THEN [a EXCEPT !.ovr = FALSE, !.dirty = TUNER_HOP, !.frameOvr = TRUE] ELSE a
OverrunNotCleared(a) == IF a.ovr THEN [a EXCEPT !.dirty = TUNER_N, !.frameOvr = TRUE] ELSE a
CheckOverrun(a) ==
  IF a.ovr THEN [a EXCEPT !.ovr = FALSE, !.dirty = TUNER_N, !.frameOvr = TRUE] ELSE a
tuner_drain(a) ==
  LET drained[i \in 0..Len(a.fifo)] ==
        IF i = 0 THEN [a EXCEPT !.fifo = <<>>] ELSE tuner_push_input(drained[i - 1], a.fifo[i])
  IN CheckOverrun(drained[Len(a.fifo)])
(* one pass of tuner_pump: the head word, then the overrun flag *)
PumpPass(a) == CheckOverrun(tuner_push_input([a EXCEPT !.fifo = Tail(@)], Head(a.fifo)))
(* no word is missing between the samples of the ring *)
Contiguous(ring) == \A i \in 2..TUNER_N : ~ring[i]

(* The display *)
(* Mutant: the last page is never compared. *)
PagesButLast == <<"text", "gauge">>
Pages == <<"text", "gauge", "banner">>
Picture(x, held, needle) ==
  IF ~x.valid THEN [text |-> <<"PLUCK A STRING">>, gauge |-> <<>>, banner |-> <<"NO SIGNAL">>]
  ELSE [text |-> <<x.note, x.cents, held>>, gauge |-> <<needle>>,
        banner |-> <<IF x.cents > TUNER_IN_TUNE_CENTS THEN "SHARP"
                     ELSE IF x.cents < -TUNER_IN_TUNE_CENTS THEN "FLAT" ELSE "IN TUNE">>]
Blank == [p \in {Pages[i] : i \in 1..Len(Pages)} |-> <<>>]
Splash == [text |-> <<"YARV TUNER">>, gauge |-> <<>>, banner |-> <<"E A D G B E">>]
UNPRIMED == <<0, 0, 0, 0>>
(* Mutant: a third of nothing is no step. *)
StepByThird(cur, target) == LET d == target - cur IN cur + IF d < 0 THEN -(-d \div 3) ELSE d \div 3
tuner_anim_step(cur, target) ==
  LET d == target - cur
      third == IF d < 0 THEN -(-d \div 3) ELSE d \div 3
  IN cur + IF third # 0 THEN third ELSE IF d > 0 THEN 1 ELSE -1

NOTHING == [valid |-> FALSE, note |-> 0, cents |-> 0]
Init ==
  /\ pc = "probe" /\ need = TUNER_N /\ step = 0
  /\ aq = [fifo |-> <<>>, lost |-> FALSE, ovr |-> FALSE, phase |-> 0, gap |-> FALSE,
           ring |-> [i \in 1..TUNER_N |-> TRUE], dirty |-> TUNER_N, frameOvr |-> FALSE]
  /\ fft = [buf |-> [i \in {0, 1} |-> [result |-> FALSE, clean |-> FALSE, launch |-> 0]],
            cpu |-> 0, busy |-> FALSE, done |-> FALSE, launch |-> 0]
  /\ r = NOTHING /\ last = NOTHING
  /\ ui = [hold |-> 0, showing |-> 0, anim |-> 0, target |-> 0, floor |-> "attack"]
  /\ fb = Blank /\ disp = Blank /\ hash = [p \in DOMAIN Blank |-> UNPRIMED]
  /\ page = <<>> /\ quiet = -1

i2s_flush(a) == [a EXCEPT !.fifo = <<>>, !.ovr = FALSE]

(* tuner_mic_probe: takes words while there are some and it has not spun too long; its report      *)
(* takes longer than the FIFO, and its overrun is cleared with the words before the gap queued.     *)
MicProbe ==
  /\ pc = "probe" /\ UNCHANGED <<need, step, fft, r, last, ui, fb, disp, hash, page, quiet>>
  /\ \E k \in 0..1 :
       LET a == Arrived(aq, k) IN
       \/ pc' = "probe" /\ aq' = IF a.fifo = <<>> THEN a ELSE [a EXCEPT !.fifo = Tail(@)]
       \/ pc' = "splash" /\ \E u \in 0..UPDATE_WORDS : aq' = [Arrived(a, u) EXCEPT !.ovr = FALSE]
(* the splash goes out whole, and the stream starts from a clean slate *)
Splashed ==
  /\ pc = "splash" /\ pc' = "prime"
  /\ \E u \in 0..UPDATE_WORDS : aq' = i2s_flush(Arrived(aq, u))
  /\ fb' = Splash /\ disp' = Splash
  /\ UNCHANGED <<need, step, fft, r, last, ui, hash, page, quiet>>

NewSlice == pc' = "pump" /\ need' = Slice
NextSlice == IF step' = TUNER_ANIM_STEPS THEN pc' = "launch" /\ UNCHANGED need ELSE NewSlice
(* tuner_pump: blocks on the microphone when the FIFO is empty. A pass is a small part of a word's  *)
(* 3200 cycles: what is queued is taken before more arrives, "the loop cannot fall behind".          *)
Pump ==
  /\ pc \in {"prime", "pump"}
  /\ \E k \in (IF aq.fifo = <<>> THEN {1} ELSE IF Len(aq.fifo) = 1 THEN {0, 1} ELSE {0}) :
       /\ aq' = PumpPass(Arrived(aq, k))
       /\ need' = need - IF aq'.phase = 0 THEN 1 ELSE 0
  /\ pc' = IF need' > 0 THEN pc ELSE IF pc = "prime" THEN "launch" ELSE "anim"
  /\ UNCHANGED <<step, fft, r, last, ui, fb, disp, hash, page, quiet>>

(* tuner_render: drain, draw, and push the silent screen whole; a report may follow *)
Render(a, x, held, needle, reports) ==
  /\ fb' = Picture(x, held, needle)
  /\ \E k \in 0..DRAW_WORDS, u \in 0..UPDATE_WORDS, report \in reports, c \in 0..CHUNK_WORDS :
       /\ x.valid => u = 0
       /\ ~report => c = 0
       /\ LET drawn == Arrived(tuner_drain(a), k + u) IN
            aq' = IF report THEN Arrived(tuner_drain(drawn), c) ELSE drawn
  /\ disp' = IF x.valid THEN disp ELSE fb'
  /\ pc' = "flush" /\ page' = Pages
(* the needle moves between two slices of a hop *)
NeedleMoves == ui.showing # 0 /\ ui.anim # ui.target
Animate ==
  /\ pc = "anim" /\ step' = step + 1
  /\ \/ /\ NeedleMoves
        /\ ui' = [ui EXCEPT !.anim = tuner_anim_step(@, ui.target)]
        /\ Render(aq, IF ui.showing = 2 THEN last ELSE r, ui.showing = 2, ui'.anim, {FALSE})
        /\ UNCHANGED need
     \/ /\ ~NeedleMoves
        /\ NextSlice
        /\ UNCHANGED <<aq, ui, fb, disp, page>>
  /\ UNCHANGED <<fft, r, last, hash, quiet>>

(* tuner_flush_display: a drain, then a page whose hash differs goes out in chunks, each drained *)
FlushPage ==
  /\ pc = "flush" /\ page # <<>> /\ page' = Tail(page)
  /\ \E p \in {Head(page)}, a \in {IF Len(page) = Len(Pages) THEN tuner_drain(aq) ELSE aq} :
       \/ /\ hash[p] # fb[p]
          /\ \E w, c \in 0..CHUNK_WORDS :
               aq' = tuner_drain(Arrived(tuner_drain(Arrived(tuner_drain(a), w)), c))
          /\ disp' = [disp EXCEPT ![p] = fb[p]] /\ hash' = [hash EXCEPT ![p] = fb[p]]
       \/ /\ hash[p] = fb[p]
          /\ aq' = a /\ UNCHANGED <<disp, hash>>
  /\ UNCHANGED <<pc, need, step, fft, r, last, ui, fb, quiet>>
FlushEnd ==
  /\ pc = "flush" /\ page = <<>> /\ step' = step /\ NextSlice
  /\ UNCHANGED <<aq, fft, r, last, ui, fb, disp, hash, page, quiet>>

(* fft_wait, tuner_fill_fft, fft_start: the window goes out, the buffer with the previous result   *)
(* comes back. DONE is cleared; START is ignored while BUSY. The first launch waits for nothing.    *)
Filled == [fft EXCEPT !.buf[fft.cpu] =
             [result |-> FALSE, clean |-> Contiguous(aq.ring), launch |-> fft.launch]]
(* Mutant: DONE of the launch before is still up. *)
StartKeepsDone(f) == IF f.busy THEN f
                     ELSE [f EXCEPT !.cpu = 1 - @, !.busy = TRUE, !.launch = (@ + 1) % 3]
fft_start(f) == IF f.busy THEN [f EXCEPT !.done = FALSE]
                ELSE [f EXCEPT !.cpu = 1 - @, !.busy = TRUE, !.done = FALSE, !.launch = (@ + 1) % 3]
Launch ==
  /\ pc = "launch" /\ (step = 0 \/ fft.done)
  /\ fft' = fft_start(Filled)
  /\ \E k \in 0..CHUNK_WORDS : aq' = Arrived(aq, k)
  /\ step' = 0
  /\ IF step = 0 THEN NewSlice ELSE pc' = "check" /\ UNCHANGED need
  /\ UNCHANGED <<r, last, ui, fb, disp, hash, page, quiet>>
(* the engine transforms the other buffer in place *)
Engine ==
  /\ fft.busy
  /\ fft' = [fft EXCEPT !.buf[1 - fft.cpu].result = TRUE, !.busy = FALSE, !.done = TRUE]
  /\ UNCHANGED <<pc, aq, need, step, r, last, ui, fb, disp, hash, page, quiet>>

(* an overrun is reported, draining at every character; a dirty window is not analysed *)
Check ==
  /\ pc = "check"
  /\ \/ /\ aq.frameOvr
        /\ \E k \in 0..CHUNK_WORDS : aq' = Arrived(tuner_drain([aq EXCEPT !.frameOvr = FALSE]), k)
     \/ ~aq.frameOvr /\ UNCHANGED aq
  /\ IF aq'.dirty # 0 THEN NewSlice ELSE pc' = "analyse" /\ UNCHANGED need
  /\ UNCHANGED <<step, fft, r, last, ui, fb, disp, hash, page, quiet>>

(* tuner_analyse and what main() makes of it: catch hard, release soft, then hold *)
Heard(level) == level = "loud" \/ (level = "soft" /\ ui.floor = "hold")
Analyse ==
  /\ pc = "analyse" /\ UNCHANGED <<need, step, fft, hash>>
  /\ \/ \E level \in {"loud", "soft"}, note \in Notes, cents \in {-FLAT, SHARP} :
          /\ Heard(level)
          /\ r' = [valid |-> TRUE, note |-> note, cents |-> cents] /\ last' = r' /\ quiet' = 0
          /\ ui' = [hold |-> TUNER_HOLD_FRAMES, showing |-> 1, target |-> cents, floor |-> "hold",
                    anim |-> IF ui.showing = 0 \/ note # last.note THEN cents ELSE ui.anim]
          /\ Render(aq, r', FALSE, ui'.anim, BOOLEAN)
     \/ /\ r' = NOTHING /\ UNCHANGED last
        /\ quiet' = IF quiet \in 0..TUNER_HOLD_FRAMES THEN quiet + 1 ELSE TUNER_HOLD_FRAMES + 1
        /\ \/ /\ ui.hold > 0
              /\ ui' = [ui EXCEPT !.hold = @ - 1, !.target = last.cents, !.showing = 2]
              /\ Render(aq, last, TRUE, ui.anim, BOOLEAN)
           \/ /\ ui.hold = 0
              /\ ui' = [ui EXCEPT !.floor = "attack", !.showing = 0]
              /\ Render(aq, r', FALSE, ui.anim, BOOLEAN)

Next == MicProbe \/ Splashed \/ Pump \/ Animate \/ FlushPage \/ FlushEnd \/ Launch \/ Engine \/ Check \/ Analyse
(* the microphone and the core keep running, the engine finishes *)
Spec == Init /\ [][Next]_vars /\ WF_vars(Next) /\ WF_vars(Engine)

-----------------------------------------------------------------------------
(* A window declared clean is clean: with the dirty count at zero no word is missing between two   *)
(* samples of the ring, whatever overran the FIFO and wherever the drain found it.                  *)
CleanWindow == aq.dirty = 0 => Contiguous(aq.ring)

(* The spectrum analysed is the finished result of the launch before the last, never the buffer    *)
(* being transformed nor the samples of either window: "the displayed reading is one hop old".     *)
OneHopOld == pc = "analyse" => fft.buf[fft.cpu].result /\ fft.buf[fft.cpu].launch = (fft.launch + 1) % 3

(* After every flush the display memory, not only the framebuffer, shows the latest reading: live, *)
(* then held for TUNER_HOLD_FRAMES analyses with the mark, then silence; the needle where the       *)
(* animation has it.                                                                                *)
ScreenShowsReading ==
  pc \in {"pump", "launch"} /\ quiet >= 0 =>
    disp = IF quiet = 0 THEN Picture(r, FALSE, ui.anim)
           ELSE IF quiet <= TUNER_HOLD_FRAMES /\ last.valid THEN Picture(last, TRUE, ui.anim)
           ELSE Picture(NOTHING, FALSE, 0)

(* The needle settles: once the readings stop changing it reaches the reading's cents and stays.    *)
NeedleSettles == (<>[][ui'.target = ui.target /\ ui'.showing = ui.showing]_vars) => <>[](ui.showing # 0 => ui.anim = ui.target)

(* The tuner keeps listening: every window lost to the silent screen's long push is made up for,    *)
(* and a spectrum is analysed again and again.                                                      *)
KeepsAnalysing == []<>(pc = "analyse")
=============================================================================
