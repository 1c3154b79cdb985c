---------------------------- MODULE TunerProofs -----------------------------
(***************************************************************************)
(* The three safety properties of the tuner, for every size of window,     *)
(* FIFO and hop, every decimation and every number of words that the       *)
(* microphone delivers during a drawing or an update.                      *)
(***************************************************************************)
EXTENDS Tuner, TLAPS, WellFoundedInduction

(***************************************************************************)
(* The ping-pong of the coprocessor.                                       *)
(***************************************************************************)
FftType ==
  /\ fft \in [buf : [{0, 1} -> [result : BOOLEAN, clean : BOOLEAN, launch : 0 .. 2]],
              cpu : {0, 1}, busy : BOOLEAN, done : BOOLEAN, launch : 0 .. 2]
  /\ step \in Nat

\* The engine runs or has finished on the buffer launched last; the CPU's own
\* buffer holds, from the launch to its analysis, the result of the one before.
PingPong ==
  /\ ~(fft.busy /\ fft.done)
  /\ pc \in {"probe", "splash", "prime"} => step = 0 /\ ~fft.busy /\ ~fft.done
  /\ pc = "launch" => (step = 0 <=> ~(fft.busy \/ fft.done))
  /\ pc \in {"pump", "anim", "flush", "check", "analyse"} => fft.busy \/ fft.done
  /\ fft.done => fft.buf[1 - fft.cpu].result
  /\ fft.busy \/ fft.done => fft.buf[1 - fft.cpu].launch = (fft.launch + 2) % 3
  /\ pc \in {"check", "analyse"} =>
       fft.buf[fft.cpu].result /\ fft.buf[fft.cpu].launch = (fft.launch + 1) % 3

(***************************************************************************)
(* The display.                                                            *)
(***************************************************************************)
PageSet == {"text", "gauge", "banner"}
Prefixes == {<<>>, <<"banner">>, <<"gauge", "banner">>, Pages}
Pending(s) == {s[i] : i \in 1 .. Len(s)}

\* What the framebuffer holds once something has been analysed.
Shown == IF quiet = 0 THEN Picture(r, FALSE, ui.anim)
         ELSE IF quiet <= TUNER_HOLD_FRAMES /\ last.valid THEN Picture(last, TRUE, ui.anim)
         ELSE Picture(NOTHING, FALSE, 0)

\* How the mode of the display, the hold count and the time since the last
\* reading go together.
Modes ==
  /\ ui = [hold |-> ui.hold, showing |-> ui.showing, target |-> ui.target, floor |-> ui.floor,
           anim |-> ui.anim]
  /\ quiet \in -1 .. TUNER_HOLD_FRAMES + 1
  /\ quiet = -1 => ui.showing = 0 /\ ui.hold = 0
  /\ quiet = 0 => ui.showing = 1 /\ ui.hold = TUNER_HOLD_FRAMES
  /\ quiet \in 1 .. TUNER_HOLD_FRAMES =>
       ui.showing = 2 /\ last.valid /\ ui.hold = TUNER_HOLD_FRAMES - quiet
  /\ quiet = 0 => last.valid
  /\ quiet = TUNER_HOLD_FRAMES + 1 => ui.showing = 0 /\ ui.hold = 0

\* A page that is not pending is on the panel; one whose hash says so is, too.
Flushed ==
  /\ fb = [p \in PageSet |-> fb[p]] /\ disp = [p \in PageSet |-> disp[p]]
  /\ hash = [p \in PageSet |-> hash[p]]
  /\ page \in Prefixes
  /\ pc # "flush" => page = <<>>
  /\ pc = "flush" => quiet >= 0
  /\ pc \in {"probe", "splash"} => quiet = -1
  /\ quiet = -1 => \A p \in PageSet : hash[p] = UNPRIMED
  /\ quiet >= 0 =>
       /\ fb = Shown
       /\ \A p \in PageSet : p \in Pending(page) => (hash[p] = fb[p] => disp[p] = fb[p])
       /\ \A p \in PageSet : p \notin Pending(page) => hash[p] = fb[p] /\ disp[p] = fb[p]

(***************************************************************************)
(* Acquisition.                                                            *)
(***************************************************************************)
Acquisition ==
  [fifo : Seq(BOOLEAN), lost : BOOLEAN, ovr : BOOLEAN, phase : 0 .. TUNER_DECIM - 1,
   gap : BOOLEAN, ring : Seq(BOOLEAN), dirty : 0 .. TUNER_N, frameOvr : BOOLEAN]

\* A gap in the ring or in the sample being assembled is within the dirty count.
Covered(a) ==
  /\ Len(a.ring) = TUNER_N
  /\ \A i \in 1 .. TUNER_N : a.ring[i] => i <= a.dirty + 1
  /\ a.gap => a.dirty = TUNER_N

\* A gap before a word still to come is known, unless the overrun flag is up.
Tracked(a) ==
  ~a.ovr =>
    /\ a.lost => a.fifo = <<>> /\ a.dirty = TUNER_N
    /\ \A j \in 1 .. Len(a.fifo) : a.fifo[j] => j = 1 /\ a.dirty = TUNER_N

\* The loop cannot fall behind: words queued when a pump begins are taken in by its end.
KeptUp ==
  /\ need \in Nat
  /\ pc \in {"probe", "splash"} => aq.dirty = TUNER_N /\ ~aq.gap /\ aq.phase = 0 /\ need = TUNER_N
  /\ pc \in {"prime", "pump"} => /\ ~aq.ovr /\ need > 0 /\ Len(aq.fifo) < FIFO_DEPTH
                                 /\ Len(aq.fifo) <= need * TUNER_DECIM - aq.phase + 1
  /\ pc \in {"anim", "launch"} => ~aq.ovr /\ Len(aq.fifo) <= 1
  /\ pc \in {"check", "analyse"} => ~aq.ovr /\ Len(aq.fifo) <= CHUNK_WORDS + 1
  /\ pc = "flush" /\ page # Pages => ~aq.ovr /\ aq.fifo = <<>>

Stream ==
  /\ aq \in Acquisition /\ Len(aq.fifo) <= FIFO_DEPTH
  /\ Covered(aq)
  /\ pc \notin {"probe", "splash"} => Tracked(aq)
  /\ KeptUp

PcValues == {"probe", "splash", "prime", "pump", "anim", "flush", "launch", "check", "analyse"}
TunerInv ==
  /\ pc \in PcValues
  /\ FftType /\ PingPong
  /\ Modes /\ Flushed
  /\ Stream

-----------------------------------------------------------------------------
(***************************************************************************)
(* The ping-pong is kept.                                                  *)
(***************************************************************************)
LEMMA Launches ==
  ASSUME FftType, PingPong, pc = "launch", step = 0 \/ fft.done, NEW clean \in BOOLEAN,
         NEW f, f = [fft EXCEPT !.buf[fft.cpu] = [result |-> FALSE, clean |-> clean, launch |-> fft.launch]]
  PROVE  LET g == fft_start(f) IN
         /\ g \in [buf : [{0, 1} -> [result : BOOLEAN, clean : BOOLEAN, launch : 0 .. 2]],
                   cpu : {0, 1}, busy : BOOLEAN, done : BOOLEAN, launch : 0 .. 2]
         /\ g.busy /\ ~g.done
         /\ g.buf[1 - g.cpu].launch = (g.launch + 2) % 3
         /\ step # 0 => g.buf[g.cpu].result /\ g.buf[g.cpu].launch = (g.launch + 1) % 3
  <1> DEFINE Buf == [result : BOOLEAN, clean : BOOLEAN, launch : 0 .. 2]
             g == fft_start(f)
  <1>1. /\ fft.cpu \in {0, 1} /\ 1 - fft.cpu \in {0, 1} /\ 1 - (1 - fft.cpu) = fft.cpu
        /\ fft.launch \in 0 .. 2 /\ fft.buf \in [{0, 1} -> Buf] /\ ~fft.busy
    BY DEF FftType, PingPong
  <1>2. /\ f = [buf |-> [fft.buf EXCEPT ![fft.cpu] =
                           [result |-> FALSE, clean |-> clean, launch |-> fft.launch]],
                cpu |-> fft.cpu, busy |-> fft.busy, done |-> fft.done, launch |-> fft.launch]
    BY DEF FftType
  <1>3. g = [buf |-> [fft.buf EXCEPT ![fft.cpu] =
                        [result |-> FALSE, clean |-> clean, launch |-> fft.launch]],
             cpu |-> 1 - fft.cpu, busy |-> TRUE, done |-> FALSE, launch |-> (fft.launch + 1) % 3]
    BY <1>1, <1>2 DEF fft_start
  <1>4. /\ (fft.launch + 1) % 3 \in 0 .. 2 /\ (((fft.launch + 1) % 3) + 2) % 3 = fft.launch
        /\ (((fft.launch + 1) % 3) + 1) % 3 = (fft.launch + 2) % 3
    BY <1>1
  <1>5. [result |-> FALSE, clean |-> clean, launch |-> fft.launch] \in Buf
    BY <1>1
  <1>6. \A b, n \in {0, 1}, x \in Buf : b # n =>
          LET h == [fft.buf EXCEPT ![b] = x]
          IN  h \in [{0, 1} -> Buf] /\ h[b] = x /\ h[n] = fft.buf[n]
    BY <1>1
  <1>7. step # 0 => /\ fft.buf[1 - fft.cpu].result
                    /\ fft.buf[1 - fft.cpu].launch = (fft.launch + 2) % 3
    BY <1>1 DEF PingPong
  <1> DEFINE x == [result |-> FALSE, clean |-> clean, launch |-> fft.launch]
             h == [fft.buf EXCEPT ![fft.cpu] = x]
  <1>8. h \in [{0, 1} -> Buf] /\ h[fft.cpu] = x /\ h[1 - fft.cpu] = fft.buf[1 - fft.cpu]
    BY <1>1, <1>5, <1>6
  <1>9. /\ g.buf = h /\ g.cpu = 1 - fft.cpu /\ g.busy = TRUE /\ g.done = FALSE
        /\ g.launch = (fft.launch + 1) % 3 /\ x.launch = fft.launch
        /\ g = [buf |-> g.buf, cpu |-> g.cpu, busy |-> g.busy, done |-> g.done, launch |-> g.launch]
    BY <1>3
  <1> HIDE DEF g, h, x
  <1>10. g \in [buf : [{0, 1} -> Buf], cpu : {0, 1}, busy : BOOLEAN, done : BOOLEAN, launch : 0 .. 2]
    BY <1>1, <1>4, <1>8, <1>9
  <1>11. /\ g.busy /\ ~g.done /\ g.buf[1 - g.cpu].launch = (g.launch + 2) % 3
         /\ step # 0 => g.buf[g.cpu].result /\ g.buf[g.cpu].launch = (g.launch + 1) % 3
    BY <1>1, <1>4, <1>7, <1>8, <1>9
  <1> QED
    BY <1>10, <1>11 DEF g

LEMMA PingPongStep ==
  ASSUME TunerInv, [Next]_vars
  PROVE  (FftType /\ PingPong)'
  <1> USE TunerAssumption DEF TunerInv
  <1>0. TUNER_ANIM_STEPS \in Nat \ {0}
    OBVIOUS
  <1>1. CASE MicProbe \/ Splashed \/ Pump
    BY <1>1 DEF MicProbe, Splashed, Pump, FftType, PingPong
  <1>2. CASE Animate
    BY <1>0, <1>2 DEF Animate, Render, NextSlice, NewSlice, FftType, PingPong
  <1>3. CASE FlushPage
    BY <1>3 DEF FlushPage, FftType, PingPong
  <1>4. CASE FlushEnd
    BY <1>0, <1>4 DEF FlushEnd, NextSlice, NewSlice, FftType, PingPong
  <1>5. CASE Launch
    <2>1. Contiguous(aq.ring) \in BOOLEAN
      BY DEF Contiguous
    <2>2. /\ fft' = fft_start(Filled) /\ step' = 0 /\ pc = "launch" /\ (step = 0 \/ fft.done)
          /\ pc' \in {"pump", "check"} /\ (pc' = "check" => step # 0)
      BY <1>5 DEF Launch, NewSlice
    <2>3. /\ fft' \in [buf : [{0, 1} -> [result : BOOLEAN, clean : BOOLEAN, launch : 0 .. 2]],
                       cpu : {0, 1}, busy : BOOLEAN, done : BOOLEAN, launch : 0 .. 2]
          /\ fft'.busy /\ ~fft'.done
          /\ fft'.buf[1 - fft'.cpu].launch = (fft'.launch + 2) % 3
          /\ step # 0 => fft'.buf[fft'.cpu].result /\ fft'.buf[fft'.cpu].launch = (fft'.launch + 1) % 3
      BY <2>1, <2>2, Launches DEF Filled
    <2> QED
      BY <2>2, <2>3 DEF FftType, PingPong
  <1>6. CASE Engine
    <2>1. /\ fft.cpu \in {0, 1} /\ 1 - fft.cpu \in {0, 1} /\ 1 - fft.cpu # fft.cpu
          /\ fft' = [fft EXCEPT !.buf[1 - fft.cpu].result = TRUE, !.busy = FALSE, !.done = TRUE]
          /\ fft.busy /\ UNCHANGED <<pc, step>>
      BY <1>6 DEF Engine, FftType
    <2>2. fft' = [buf |-> [fft.buf EXCEPT ![1 - fft.cpu] = [@ EXCEPT !.result = TRUE]],
                  cpu |-> fft.cpu, busy |-> FALSE, done |-> TRUE, launch |-> fft.launch]
      BY <2>1 DEF FftType
    <2> DEFINE Buf == [result : BOOLEAN, clean : BOOLEAN, launch : 0 .. 2]
    <2>3. \A x \in Buf : LET y == [x EXCEPT !.result = TRUE]
                         IN  y \in Buf /\ y.result /\ y.launch = x.launch
      OBVIOUS
    <2>4. \A b, n \in {0, 1}, x \in Buf : b # n =>
            LET h == [fft.buf EXCEPT ![b] = x]
            IN  h \in [{0, 1} -> Buf] /\ h[b] = x /\ h[n] = fft.buf[n]
      BY DEF FftType
    <2>5. fft.buf[1 - fft.cpu] \in Buf
      BY <2>1 DEF FftType
    <2> DEFINE x == [fft.buf[1 - fft.cpu] EXCEPT !.result = TRUE]
               h == [fft.buf EXCEPT ![1 - fft.cpu] = x]
    <2>6. x \in Buf /\ x.result /\ x.launch = fft.buf[1 - fft.cpu].launch
      BY <2>3, <2>5
    <2>7. h \in [{0, 1} -> Buf] /\ h[1 - fft.cpu] = x /\ h[fft.cpu] = fft.buf[fft.cpu]
      <3> HIDE DEF x, Buf
      <3> QED
        BY <2>1, <2>4, <2>6
    <2>8. /\ fft'.buf = h /\ fft'.cpu = fft.cpu /\ fft'.busy = FALSE /\ fft'.done = TRUE
          /\ fft'.launch = fft.launch
          /\ fft' = [buf |-> fft'.buf, cpu |-> fft'.cpu, busy |-> fft'.busy, done |-> fft'.done,
                     launch |-> fft'.launch]
      BY <2>2
    <2> HIDE DEF x, h
    <2>9. FftType'
      BY <2>1, <2>7, <2>8 DEF FftType
    <2> QED
      BY <2>1, <2>6, <2>7, <2>8, <2>9 DEF FftType, PingPong
  <1>7. CASE Check
    BY <1>7 DEF Check, NewSlice, FftType, PingPong
  <1>8. CASE Analyse
    BY <1>8 DEF Analyse, Render, FftType, PingPong
  <1>9. CASE UNCHANGED vars
    BY <1>9 DEF vars, FftType, PingPong
  <1> QED
    BY <1>1, <1>2, <1>3, <1>4, <1>5, <1>6, <1>7, <1>8, <1>9 DEF Next

-----------------------------------------------------------------------------
(***************************************************************************)
(* The display is kept.                                                    *)
(***************************************************************************)
LEMMA ThreePages ==
  ASSUME NEW t, NEW g, NEW b, NEW P, P = [text |-> t, gauge |-> g, banner |-> b]
  PROVE  P = [p \in PageSet |-> P[p]] /\ P["text"] = t /\ P["gauge"] = g /\ P["banner"] = b
  BY DEF PageSet

LEMMA PicturePages ==
  ASSUME NEW x, NEW held, NEW needle
  PROVE  /\ Picture(x, held, needle) = [p \in PageSet |-> Picture(x, held, needle)[p]]
         /\ \A p \in PageSet : Picture(x, held, needle)[p] # UNPRIMED
  <1> DEFINE P == Picture(x, held, needle)
  <1>1. \A a, b, c : <<a>> # UNPRIMED /\ <<a, b, c>> # UNPRIMED /\ <<>> # UNPRIMED
    BY DEF UNPRIMED
  <1>2. \E t, g, b : /\ P = [text |-> t, gauge |-> g, banner |-> b]
                     /\ t # UNPRIMED /\ g # UNPRIMED /\ b # UNPRIMED
    <2>1. CASE x.valid
      <3>1. P = [text |-> <<x.note, x.cents, held>>, gauge |-> <<needle>>,
                 banner |-> <<IF x.cents > TUNER_IN_TUNE_CENTS THEN "SHARP"
                              ELSE IF x.cents < -TUNER_IN_TUNE_CENTS THEN "FLAT" ELSE "IN TUNE">>]
        BY <2>1 DEF Picture
      <3> HIDE DEF P
      <3> QED
        BY <1>1, <3>1
    <2>2. CASE ~x.valid
      <3>1. P = [text |-> <<"PLUCK A STRING">>, gauge |-> <<>>, banner |-> <<"NO SIGNAL">>]
        BY <2>2 DEF Picture
      <3> HIDE DEF P
      <3> QED
        BY <1>1, <3>1
    <2> QED
      BY <2>1, <2>2
  <1> HIDE DEF P
  <1>3. PICK t, g, b : /\ P = [text |-> t, gauge |-> g, banner |-> b]
                       /\ t # UNPRIMED /\ g # UNPRIMED /\ b # UNPRIMED
    BY <1>2
  <1>4. P = [p \in PageSet |-> P[p]] /\ P["text"] = t /\ P["gauge"] = g /\ P["banner"] = b
    BY <1>3, ThreePages
  <1>5. \A p \in PageSet : P[p] # UNPRIMED
    BY <1>3, <1>4 DEF PageSet
  <1> QED
    BY <1>4, <1>5 DEF P

LEMMA SilentPicture ==
  \A x, held, needle : ~x.valid => Picture(x, held, needle) = Picture(NOTHING, FALSE, 0)
  BY DEF Picture, NOTHING

LEMMA PendingOf ==
  /\ Pending(<<>>) = {} /\ Pending(<<"banner">>) = {"banner"}
  /\ Pending(<<"gauge", "banner">>) = {"gauge", "banner"} /\ Pending(Pages) = PageSet
  <1>1. Pending(<<>>) = {} /\ Pending(<<"banner">>) = {"banner"}
    BY DEF Pending
  <1>2. ASSUME NEW s, s = <<"gauge", "banner">>
        PROVE  {s[i] : i \in 1 .. Len(s)} = {"gauge", "banner"}
    <2>1. Len(s) = 2 /\ 1 .. Len(s) = {1, 2} /\ s[1] = "gauge" /\ s[2] = "banner"
      BY <1>2
    <2> QED
      BY <2>1
  <1>3. ASSUME NEW s, s = <<"text", "gauge", "banner">>
        PROVE  {s[i] : i \in 1 .. Len(s)} = {"text", "gauge", "banner"}
    <2>1. Len(s) = 3 /\ 1 .. Len(s) = {1, 2, 3} /\ s[1] = "text" /\ s[2] = "gauge" /\ s[3] = "banner"
      BY <1>3
    <2> QED
      BY <2>1
  <1> QED
    BY <1>1, <1>2, <1>3 DEF Pending, PageSet, Pages

\* A rendering leaves the framebuffer, the display and the hashes consistent.
LEMMA Rendered ==
  ASSUME Flushed, pc \in {"anim", "analyse"},
         NEW x, NEW held, NEW needle, NEW reports,
         Render(aq, x, held, needle, reports), hash' = hash, quiet' >= 0,
         quiet = -1 \/ quiet >= 0,
         Shown' = Picture(x, held, needle)
  PROVE  Flushed'
  <1> DEFINE picture == Picture(x, held, needle)
  <1>1. /\ fb' = picture /\ disp' = (IF x.valid THEN disp ELSE picture)
        /\ pc' = "flush" /\ page' = Pages /\ hash' = hash
    BY DEF Render
  <1>2. picture = [p \in PageSet |-> picture[p]] /\ \A p \in PageSet : picture[p] # UNPRIMED
    BY PicturePages
  <1>3. page = <<>> /\ Pending(page) = {} /\ Pending(page') = PageSet
    BY <1>1, PendingOf DEF Flushed
  <1> HIDE DEF picture
  <1>4. \A p \in PageSet : hash[p] = picture[p] => disp'[p] = picture[p]
    <2>1. CASE quiet = -1
      BY <1>2, <2>1 DEF Flushed
    <2>2. CASE quiet >= 0
      BY <1>1, <1>3, <2>2 DEF Flushed
    <2> QED
      BY <2>1, <2>2
  <1>5. disp' = [p \in PageSet |-> disp'[p]] /\ fb' = [p \in PageSet |-> fb'[p]]
        /\ hash' = [p \in PageSet |-> hash'[p]]
    BY <1>1, <1>2 DEF Flushed
  <1>6. quiet' >= 0 /\ quiet' # -1 /\ Shown' = picture
    BY DEF picture
  <1> QED
    BY <1>1, <1>3, <1>4, <1>5, <1>6 DEF Flushed, Prefixes

\* What the framebuffer is to hold changes only with the readings and the needle.
LEMMA Untouched ==
  ASSUME UNCHANGED <<r, last, ui, quiet>>
  PROVE  Shown' = Shown /\ (Modes => Modes')
  BY DEF Shown, Modes

LEMMA DisplayStep ==
  ASSUME TunerInv, [Next]_vars
  PROVE  (Modes /\ Flushed)'
  <1> USE DEF TunerInv
  <1>0. TUNER_HOLD_FRAMES \in Nat
    BY TunerAssumption
  <1>1. ASSUME UNCHANGED <<r, last, ui, fb, disp, hash, page, quiet>>,
               pc' # "flush" => page = <<>>, pc' = "flush" => pc = "flush",
               pc' \in {"probe", "splash"} => pc \in {"probe", "splash"}
        PROVE  (Modes /\ Flushed)'
    BY <1>1, Untouched DEF Flushed
  <1>2. CASE MicProbe \/ Pump \/ Launch \/ Engine \/ Check
    <2>1. CASE MicProbe \/ Pump \/ Check
      BY <1>1, <2>1 DEF MicProbe, Pump, Check, NewSlice, Flushed
    <2>2. CASE Launch \/ Engine
      BY <1>1, <2>2 DEF Launch, Engine, NewSlice, Flushed
    <2> QED
      BY <1>2, <2>1, <2>2
  <1>3. CASE FlushEnd \/ UNCHANGED vars
    BY <1>1, <1>3 DEF FlushEnd, NextSlice, NewSlice, vars, Flushed
  <1>4. CASE Splashed
    <2>1. /\ fb' = Splash /\ disp' = Splash /\ pc' = "prime" /\ pc = "splash"
          /\ UNCHANGED <<r, last, ui, hash, page, quiet>>
      BY <1>4 DEF Splashed
    <2>2. quiet = -1
      BY <2>1 DEF Flushed
    <2>3. Splash = [p \in PageSet |-> Splash[p]]
      <3> DEFINE t == <<"YARV TUNER">>  g == <<>>  b == <<"E A D G B E">>
      <3>1. Splash = [text |-> t, gauge |-> g, banner |-> b]
        BY DEF Splash
      <3> HIDE DEF t, g, b
      <3> QED
        BY <3>1, ThreePages
    <2> QED
      BY <2>1, <2>2, <2>3, Untouched DEF Flushed
  <1>5. CASE Animate
    <2>1. CASE NeedleMoves
      <3>1. /\ pc = "anim" /\ ui' = [ui EXCEPT !.anim = tuner_anim_step(@, ui.target)]
            /\ Render(aq, IF ui.showing = 2 THEN last ELSE r, ui.showing = 2, ui'.anim, {FALSE})
            /\ UNCHANGED <<r, last, hash, quiet>>
        BY <1>5, <2>1 DEF Animate
      <3>2. ui.showing # 0
        BY <2>1 DEF NeedleMoves
      <3>3. ui'.showing = ui.showing /\ ui'.hold = ui.hold
        BY <3>1 DEF Modes
      <3>4. Modes'
        BY <3>1, <3>3 DEF Modes
      <3>5. /\ quiet \in Int /\ quiet >= 0 /\ quiet <= TUNER_HOLD_FRAMES
            /\ quiet = 0 => ui.showing = 1
            /\ quiet > 0 => ui.showing = 2 /\ last.valid
        BY <1>0, <3>2 DEF Modes
      <3> DEFINE x == IF ui.showing = 2 THEN last ELSE r
                 held == ui.showing = 2
                 needle == ui'.anim
                 reports == {FALSE}
      <3>6. Shown' = Picture(x, held, needle)
        <4>1. CASE quiet = 0
          <5>1. x = r /\ held = FALSE
            BY <3>5, <4>1
          <5> HIDE DEF x, held
          <5> QED
            BY <3>1, <4>1, <5>1 DEF Shown
        <4>2. CASE quiet # 0
          <5>1. x = last /\ held = TRUE
            BY <3>5, <4>2
          <5>2. quiet' # 0 /\ quiet' <= TUNER_HOLD_FRAMES /\ last'.valid /\ last' = last
            BY <3>1, <3>5, <4>2
          <5> HIDE DEF x, held
          <5> QED
            BY <5>1, <5>2, Zenon DEF Shown
        <4> QED
          BY <4>1, <4>2
      <3>7. Flushed'
        <4>1. /\ Render(aq, x, held, needle, reports)
              /\ pc \in {"anim", "analyse"} /\ hash' = hash /\ quiet' >= 0 /\ quiet >= 0
          BY <3>1, <3>5
        <4> HIDE DEF x, held, needle, reports
        <4> QED
          BY <3>6, <4>1, Rendered
      <3> QED
        BY <3>4, <3>7
    <2>2. CASE ~NeedleMoves
      BY <1>1, <1>5, <2>2 DEF Animate, NextSlice, NewSlice, Flushed
    <2> QED
      BY <2>1, <2>2
  <1>6. CASE FlushPage
    <2>1. /\ pc = "flush" /\ page # <<>> /\ page' = Tail(page)
          /\ UNCHANGED <<pc, r, last, ui, fb, quiet>>
      BY <1>6 DEF FlushPage
    <2> DEFINE p == Head(page)
    <2>2. /\ p \in PageSet /\ page' \in Prefixes
          /\ Pending(page) = Pending(page') \cup {p} /\ p \notin Pending(page')
      <3>1. CASE page = <<"banner">>
        BY <2>1, <3>1, PendingOf DEF PageSet, Prefixes
      <3>2. CASE page = <<"gauge", "banner">>
        <4>1. p = "gauge" /\ page' = <<"banner">>
          BY <2>1, <3>2
        <4> QED
          BY <3>2, <4>1, PendingOf DEF PageSet, Prefixes
      <3>3. CASE page = Pages
        <4>1. p = "text" /\ page' = <<"gauge", "banner">>
          BY <2>1, <3>3 DEF Pages
        <4> QED
          BY <3>3, <4>1, PendingOf DEF PageSet, Prefixes
      <3> QED
        BY <2>1, <3>1, <3>2, <3>3 DEF Flushed, Prefixes
    <2>3. quiet >= 0 /\ Shown' = Shown /\ Modes'
      BY <2>1, Untouched DEF Flushed
    <2>4. /\ disp' = [q \in PageSet |-> disp'[q]] /\ hash' = [q \in PageSet |-> hash'[q]]
          /\ hash'[p] = fb[p] /\ disp'[p] = fb[p]
          /\ \A q \in PageSet : q # p => hash'[q] = hash[q] /\ disp'[q] = disp[q]
      <3>1. CASE hash[p] # fb[p]
        <4>1. disp' = [disp EXCEPT ![p] = fb[p]] /\ hash' = [hash EXCEPT ![p] = fb[p]]
          BY <1>6, <3>1 DEF FlushPage
        <4>2. disp = [q \in PageSet |-> disp[q]] /\ hash = [q \in PageSet |-> hash[q]]
          BY DEF Flushed
        <4> HIDE DEF p
        <4> QED
          BY <2>2, <4>1, <4>2
      <3>2. CASE hash[p] = fb[p]
        <4>1. UNCHANGED <<disp, hash>>
          BY <1>6, <3>2 DEF FlushPage
        <4>2. disp[p] = fb[p]
          BY <2>2, <2>3, <3>2 DEF Flushed
        <4> HIDE DEF p
        <4> QED
          BY <3>2, <4>1, <4>2 DEF Flushed
      <3> QED
        BY <3>1, <3>2
    <2> HIDE DEF p
    <2>5. /\ \A q \in PageSet : q \in Pending(page') => (hash'[q] = fb[q] => disp'[q] = fb[q])
          /\ \A q \in PageSet : q \notin Pending(page') => hash'[q] = fb[q] /\ disp'[q] = fb[q]
      BY <2>2, <2>3, <2>4 DEF Flushed
    <2> QED
      BY <2>1, <2>2, <2>3, <2>4, <2>5 DEF Flushed
  <1>7. CASE Analyse
    <2>1. pc = "analyse" /\ hash' = hash /\ quiet \in Int /\ (quiet = -1 \/ quiet >= 0)
      BY <1>0, <1>7 DEF Analyse, Modes
    <2>2. ASSUME NEW note, NEW cents,
                 r' = [valid |-> TRUE, note |-> note, cents |-> cents], last' = r', quiet' = 0,
                 ui' = [hold |-> TUNER_HOLD_FRAMES, showing |-> 1, target |-> cents, floor |-> "hold",
                        anim |-> IF ui.showing = 0 \/ note # last.note THEN cents ELSE ui.anim],
                 Render(aq, r', FALSE, ui'.anim, BOOLEAN)
          PROVE  (Modes /\ Flushed)'
      <3>1. ui'.hold = TUNER_HOLD_FRAMES /\ ui'.showing = 1 /\ last'.valid
        BY <2>2
      <3>2. Modes'
        BY <1>0, <2>2, <3>1 DEF Modes
      <3> DEFINE x == r'  held == FALSE  needle == ui'.anim  reports == BOOLEAN
      <3>3. Shown' = Picture(x, held, needle) /\ Render(aq, x, held, needle, reports) /\ quiet' >= 0
        <4>1. quiet' = 0 /\ quiet' >= 0
          BY <2>2
        <4> QED
          BY <2>2, <4>1, Zenon DEF Shown
      <3> HIDE DEF x, held, needle, reports
      <3>4. Flushed'
        BY <2>1, <3>3, Rendered
      <3> QED
        BY <3>2, <3>4
    <2>3. ASSUME r' = NOTHING, last' = last,
                 quiet' = IF quiet \in 0 .. TUNER_HOLD_FRAMES THEN quiet + 1 ELSE TUNER_HOLD_FRAMES + 1,
                 ui.hold > 0,
                 ui' = [ui EXCEPT !.hold = @ - 1, !.target = last.cents, !.showing = 2],
                 Render(aq, last, TRUE, ui.anim, BOOLEAN)
          PROVE  (Modes /\ Flushed)'
      <3>1. quiet \in 0 .. TUNER_HOLD_FRAMES - 1 /\ ui.hold = TUNER_HOLD_FRAMES - quiet /\ last.valid
        BY <1>0, <2>3 DEF Modes
      <3>2. quiet' \in 1 .. TUNER_HOLD_FRAMES /\ quiet' = quiet + 1
        BY <1>0, <2>3, <3>1
      <3>3. ui'.hold = ui.hold - 1 /\ ui'.showing = 2 /\ ui'.anim = ui.anim
        BY <2>3 DEF Modes
      <3>4. Modes'
        <4>1. ui' = [hold |-> ui'.hold, showing |-> ui'.showing, target |-> ui'.target,
                     floor |-> ui'.floor, anim |-> ui'.anim]
          BY <2>3 DEF Modes
        <4> QED
          BY <1>0, <2>3, <3>1, <3>2, <3>3, <4>1 DEF Modes
      <3> DEFINE held == TRUE  needle == ui.anim  reports == BOOLEAN
      <3>5. Shown' = Picture(last, held, needle) /\ Render(aq, last, held, needle, reports)
        <4>1. quiet' # 0 /\ quiet' <= TUNER_HOLD_FRAMES /\ last'.valid /\ last' = last
          BY <1>0, <2>3, <3>1, <3>2
        <4> QED
          BY <2>3, <3>3, <4>1, Zenon DEF Shown
      <3>6. quiet' >= 0
        BY <1>0, <3>2
      <3> HIDE DEF held, needle, reports
      <3>7. Flushed'
        BY <2>1, <3>5, <3>6, Rendered
      <3> QED
        BY <3>4, <3>7
    <2>4. ASSUME r' = NOTHING, last' = last,
                 quiet' = IF quiet \in 0 .. TUNER_HOLD_FRAMES THEN quiet + 1 ELSE TUNER_HOLD_FRAMES + 1,
                 ui.hold = 0,
                 ui' = [ui EXCEPT !.floor = "attack", !.showing = 0],
                 Render(aq, r', FALSE, ui.anim, BOOLEAN)
          PROVE  (Modes /\ Flushed)'
      <3>1. quiet' = TUNER_HOLD_FRAMES + 1
        BY <1>0, <2>4 DEF Modes
      <3>2. ui'.hold = 0 /\ ui'.showing = 0
        BY <2>4 DEF Modes
      <3>3. Modes'
        <4>1. ui' = [hold |-> ui'.hold, showing |-> ui'.showing, target |-> ui'.target,
                     floor |-> ui'.floor, anim |-> ui'.anim]
          BY <2>4 DEF Modes
        <4> QED
          BY <1>0, <3>1, <3>2, <4>1 DEF Modes
      <3> DEFINE held == FALSE  needle == ui.anim  reports == BOOLEAN
      <3>4. Shown' = Picture(NOTHING, held, needle) /\ Render(aq, NOTHING, held, needle, reports)
        <4>1. quiet' # 0 /\ ~(quiet' <= TUNER_HOLD_FRAMES)
          BY <1>0, <3>1
        <4>2. Shown' = Picture(NOTHING, FALSE, 0)
          BY <4>1, Zenon DEF Shown
        <4>3. ~NOTHING.valid
          BY DEF NOTHING
        <4> QED
          BY <2>4, <4>2, <4>3, SilentPicture, Zenon
      <3>5. quiet' >= 0
        BY <1>0, <3>1
      <3> HIDE DEF held, needle, reports
      <3>6. Flushed'
        BY <2>1, <3>4, <3>5, Rendered
      <3> QED
        BY <3>3, <3>6
    <2> QED
      BY <1>7, <2>2, <2>3, <2>4 DEF Analyse
  <1> QED
    BY <1>2, <1>3, <1>4, <1>5, <1>6, <1>7 DEF Next

-----------------------------------------------------------------------------
(***************************************************************************)
(* Draining the FIFO.  The library's theorems of recursive definition take *)
(* the definition as an operator, so that tuner_drain's exists is shown    *)
(* here, from the least n for which it would not.                          *)
(***************************************************************************)
LEMMA LessOnNat ==
  \E R : IsWellFoundedOn(R, Nat) /\ \A x, y \in Nat : x < y => <<x, y>> \in R
  <1> WITNESS OpToRel(<, Nat)
  <1>1. \A x, y \in Nat : x < y => <<x, y>> \in OpToRel(<, Nat)
    BY DEF OpToRel
  <1> QED
    BY <1>1, NatLessThanWellFounded

\* A set of numbers that has 0 and with each number the next one has them all.
LEMMA FromZeroUp ==
  ASSUME NEW S, 0 \in S, \A n \in Nat : n \in S => n + 1 \in S
  PROVE  Nat \subseteq S
  <1> DEFINE T == Nat \ S
  <1>1. SUFFICES ASSUME T # {} PROVE FALSE
    OBVIOUS
  <1>2. PICK R : IsWellFoundedOn(R, Nat) /\ \A x, y \in Nat : x < y => <<x, y>> \in R
    BY LessOnNat
  <1>3. PICK n \in T : \A m \in T : ~(<<m, n>> \in R)
    <2>1. T \subseteq Nat /\ IsWellFoundedOn(R, Nat)
      BY <1>2
    <2> QED
      BY <1>1, <2>1, WFMin, Zenon
  <1>4. n \in Nat /\ n # 0 /\ n - 1 \in Nat /\ n - 1 < n /\ (n - 1) + 1 = n
    OBVIOUS
  <1>5. n - 1 \in S
    BY <1>2, <1>3, <1>4
  <1> QED
    BY <1>4, <1>5

\* Words pushed one after the other.
Pushes(a, s, n, d) ==
  d = [i \in 0 .. n |-> IF i = 0 THEN [a EXCEPT !.fifo = <<>>] ELSE tuner_push_input(d[i - 1], s[i])]

LEMMA PushesExist ==
  ASSUME NEW a, NEW s, NEW n \in Nat
  PROVE  \E d : Pushes(a, s, n, d)
  <1> DEFINE S == {k \in Nat : \E d : Pushes(a, s, k, d)}
             b == [a EXCEPT !.fifo = <<>>]
  <1>1. 0 \in S
    <2> DEFINE d == [i \in 0 .. 0 |-> b]
    <2>1. d = [i \in 0 .. 0 |-> IF i = 0 THEN b ELSE tuner_push_input(d[i - 1], s[i])]
      OBVIOUS
    <2>2. Pushes(a, s, 0, d)
      BY <2>1 DEF Pushes
    <2> QED
      BY <2>2
  <1>2. ASSUME NEW k \in Nat, k \in S PROVE k + 1 \in S
    <2>1. PICK d : Pushes(a, s, k, d)
      BY <1>2
    <2> DEFINE e == [i \in 0 .. (k + 1) |-> IF i <= k THEN d[i] ELSE tuner_push_input(d[k], s[k + 1])]
    <2>2. \A i \in 0 .. (k + 1) :
            e[i] = IF i = 0 THEN b ELSE tuner_push_input(e[i - 1], s[i])
      <3> SUFFICES ASSUME NEW i \in 0 .. (k + 1)
                   PROVE  e[i] = IF i = 0 THEN b ELSE tuner_push_input(e[i - 1], s[i])
        OBVIOUS
      <3> HIDE DEF b
      <3>1. d = [j \in 0 .. k |-> IF j = 0 THEN b ELSE tuner_push_input(d[j - 1], s[j])]
        BY <2>1 DEF Pushes, b
      <3>2. CASE i = 0
        BY <3>1, <3>2
      <3>3. CASE i \in 1 .. k
        <4>1. d[i] = tuner_push_input(d[i - 1], s[i])
          BY <3>1, <3>3
        <4>2. e[i] = d[i] /\ e[i - 1] = d[i - 1] /\ i # 0
          BY <3>3
        <4> QED
          BY <4>1, <4>2
      <3>4. CASE i = k + 1
        <4>1. e[i] = tuner_push_input(d[k], s[i]) /\ e[i - 1] = d[k] /\ i # 0
          BY <3>4
        <4> QED
          BY <4>1
      <3> QED
        BY <3>2, <3>3, <3>4
    <2>3. e = [i \in 0 .. (k + 1) |-> e[i]]
      OBVIOUS
    <2>4. Pushes(a, s, k + 1, e)
      <3> HIDE DEF e
      <3> QED
        BY <2>2, <2>3 DEF Pushes
    <2> QED
      BY <2>4
  <1>3. \A k \in Nat : k \in S => k + 1 \in S
    BY <1>2
  <1> HIDE DEF S
  <1>4. n \in S
    BY <1>1, <1>3, FromZeroUp
  <1> QED
    BY <1>4 DEF S

LEMMA Drained ==
  ASSUME NEW a
  PROVE  Len(a.fifo) \in Nat =>
           \E d : Pushes(a, a.fifo, Len(a.fifo), d) /\ tuner_drain(a) = CheckOverrun(d[Len(a.fifo)])
  <1> SUFFICES ASSUME Len(a.fifo) \in Nat
               PROVE  \E d : /\ Pushes(a, a.fifo, Len(a.fifo), d)
                             /\ tuner_drain(a) = CheckOverrun(d[Len(a.fifo)])
    OBVIOUS
  <1> DEFINE f == CHOOSE d : Pushes(a, a.fifo, Len(a.fifo), d)
  <1>1. Pushes(a, a.fifo, Len(a.fifo), f)
    BY PushesExist
  <1>2. tuner_drain(a) = CheckOverrun(f[Len(a.fifo)])
    BY DEF tuner_drain, Pushes
  <1> QED
    BY <1>1, <1>2

-----------------------------------------------------------------------------
(***************************************************************************)
(* What the acquisition's operators keep.                                  *)
(***************************************************************************)
\* The ring shifts by one.
LEMMA Shifted ==
  ASSUME NEW N \in Nat \ {0}, NEW s \in Seq(BOOLEAN), Len(s) = N, NEW x \in BOOLEAN
  PROVE  LET t == Append(Tail(s), x) IN
         /\ t \in Seq(BOOLEAN) /\ Len(t) = N /\ t[N] = x
         /\ \A i \in 1 .. N - 1 : t[i] = s[i + 1]
  <1> DEFINE u == Tail(s)
  <1>1. u \in Seq(BOOLEAN) /\ Len(u) = N - 1 /\ \A i \in 1 .. N - 1 : u[i] = s[i + 1]
    OBVIOUS
  <1> HIDE DEF u
  <1>2. LET t == Append(u, x) IN
        t \in Seq(BOOLEAN) /\ Len(t) = N /\ t[N] = x /\ \A i \in 1 .. N - 1 : t[i] = u[i]
    BY <1>1
  <1> QED
    BY <1>1, <1>2 DEF u

LEMMA Fields ==
  ASSUME NEW a, NEW b, a \in Acquisition,
         b = [fifo |-> b.fifo, lost |-> b.lost, ovr |-> b.ovr, phase |-> b.phase, gap |-> b.gap,
              ring |-> b.ring, dirty |-> b.dirty, frameOvr |-> b.frameOvr],
         b.fifo \in Seq(BOOLEAN), b.lost \in BOOLEAN, b.ovr \in BOOLEAN,
         b.phase \in 0 .. TUNER_DECIM - 1, b.gap \in BOOLEAN, b.ring \in Seq(BOOLEAN),
         b.dirty \in 0 .. TUNER_N, b.frameOvr \in BOOLEAN
  PROVE  b \in Acquisition
  BY DEF Acquisition

LEMMA Typed ==
  ASSUME NEW a \in Acquisition
  PROVE  /\ a = [fifo |-> a.fifo, lost |-> a.lost, ovr |-> a.ovr, phase |-> a.phase, gap |-> a.gap,
                 ring |-> a.ring, dirty |-> a.dirty, frameOvr |-> a.frameOvr]
         /\ a.fifo \in Seq(BOOLEAN) /\ a.lost \in BOOLEAN /\ a.ovr \in BOOLEAN
         /\ a.phase \in 0 .. TUNER_DECIM - 1 /\ a.gap \in BOOLEAN /\ a.ring \in Seq(BOOLEAN)
         /\ a.dirty \in 0 .. TUNER_N /\ a.frameOvr \in BOOLEAN
  BY DEF Acquisition

\* The fields the environment and the program set beside the stream itself.
Apart(a, c) ==
  /\ c \in Acquisition
  /\ c.lost = a.lost /\ c.phase = a.phase /\ c.gap = a.gap /\ c.ring = a.ring /\ c.dirty = a.dirty

LEMMA Rebuilt ==
  ASSUME NEW a \in Acquisition, NEW g, NEW v, NEW w, NEW c,
         g \in Seq(BOOLEAN), v \in BOOLEAN, w \in BOOLEAN,
         c = [fifo |-> g, lost |-> a.lost, ovr |-> v, phase |-> a.phase, gap |-> a.gap,
              ring |-> a.ring, dirty |-> a.dirty, frameOvr |-> w]
  PROVE  Apart(a, c) /\ c.fifo = g /\ c.ovr = v
  <1>1. /\ c.fifo = g /\ c.lost = a.lost /\ c.ovr = v /\ c.frameOvr = w
        /\ c.phase = a.phase /\ c.gap = a.gap /\ c.ring = a.ring /\ c.dirty = a.dirty
        /\ c = [fifo |-> c.fifo, lost |-> c.lost, ovr |-> c.ovr, phase |-> c.phase, gap |-> c.gap,
                ring |-> c.ring, dirty |-> c.dirty, frameOvr |-> c.frameOvr]
    OBVIOUS
  <1>2. c \in Acquisition
    BY <1>1, Typed, Fields
  <1> QED
    BY <1>1, <1>2 DEF Apart

LEMMA Refilled ==
  ASSUME NEW a \in Acquisition, NEW f \in Seq(BOOLEAN)
  PROVE  LET c == [a EXCEPT !.fifo = f] IN Apart(a, c) /\ c.fifo = f /\ c.ovr = a.ovr
  <1>1. /\ a = [fifo |-> a.fifo, lost |-> a.lost, ovr |-> a.ovr, phase |-> a.phase, gap |-> a.gap,
                ring |-> a.ring, dirty |-> a.dirty, frameOvr |-> a.frameOvr]
        /\ a.ovr \in BOOLEAN /\ a.frameOvr \in BOOLEAN
    BY Typed
  <1>2. [a EXCEPT !.fifo = f] =
          [fifo |-> f, lost |-> a.lost, ovr |-> a.ovr, phase |-> a.phase, gap |-> a.gap,
           ring |-> a.ring, dirty |-> a.dirty, frameOvr |-> a.frameOvr]
    BY <1>1
  <1> QED
    BY <1>1, <1>2, Rebuilt

LEMMA Reflagged ==
  ASSUME NEW a \in Acquisition, NEW v, v \in BOOLEAN
  PROVE  /\ LET c == [a EXCEPT !.ovr = v] IN Apart(a, c) /\ c.fifo = a.fifo /\ c.ovr = v
         /\ LET c == [a EXCEPT !.frameOvr = v] IN Apart(a, c) /\ c.fifo = a.fifo /\ c.ovr = a.ovr
  <1>1. /\ a = [fifo |-> a.fifo, lost |-> a.lost, ovr |-> a.ovr, phase |-> a.phase, gap |-> a.gap,
                ring |-> a.ring, dirty |-> a.dirty, frameOvr |-> a.frameOvr]
        /\ a.fifo \in Seq(BOOLEAN) /\ a.ovr \in BOOLEAN /\ a.frameOvr \in BOOLEAN
    BY Typed
  <1>2. [a EXCEPT !.ovr = v] =
          [fifo |-> a.fifo, lost |-> a.lost, ovr |-> v, phase |-> a.phase, gap |-> a.gap,
           ring |-> a.ring, dirty |-> a.dirty, frameOvr |-> a.frameOvr]
    BY <1>1
  <1>3. [a EXCEPT !.frameOvr = v] =
          [fifo |-> a.fifo, lost |-> a.lost, ovr |-> a.ovr, phase |-> a.phase, gap |-> a.gap,
           ring |-> a.ring, dirty |-> a.dirty, frameOvr |-> v]
    BY <1>1
  <1> QED
    BY <1>1, <1>2, <1>3, Rebuilt

\* A word that is pushed leaves everything but the sample and the ring; the phase
\* counts it, and its gap stays within the dirty count if it came within it.
LEMMA Pushed ==
  ASSUME NEW a \in Acquisition, Len(a.ring) = TUNER_N, NEW w \in BOOLEAN
  PROVE  LET b == tuner_push_input(a, w) IN
         /\ b \in Acquisition /\ Len(b.ring) = TUNER_N
         /\ b.fifo = a.fifo /\ b.lost = a.lost /\ b.ovr = a.ovr /\ b.frameOvr = a.frameOvr
         /\ b.phase = IF a.phase + 1 < TUNER_DECIM THEN a.phase + 1 ELSE 0
         /\ Covered(a) /\ (w => a.dirty = TUNER_N) => Covered(b)
  <1> DEFINE b == tuner_push_input(a, w)
  <1>0. TUNER_N \in Nat \ {0} /\ TUNER_DECIM \in Nat \ {0}
    BY TunerAssumption
  <1>1. /\ a = [fifo |-> a.fifo, lost |-> a.lost, ovr |-> a.ovr, phase |-> a.phase, gap |-> a.gap,
                ring |-> a.ring, dirty |-> a.dirty, frameOvr |-> a.frameOvr]
        /\ a.fifo \in Seq(BOOLEAN) /\ a.lost \in BOOLEAN /\ a.ovr \in BOOLEAN
        /\ a.phase \in 0 .. TUNER_DECIM - 1 /\ a.gap \in BOOLEAN /\ a.ring \in Seq(BOOLEAN)
        /\ a.dirty \in 0 .. TUNER_N /\ a.frameOvr \in BOOLEAN
    BY Typed
  <1>2. CASE a.phase + 1 < TUNER_DECIM
    <2>1. b = [fifo |-> a.fifo, lost |-> a.lost, ovr |-> a.ovr, phase |-> a.phase + 1,
               gap |-> a.gap \/ w, ring |-> a.ring, dirty |-> a.dirty, frameOvr |-> a.frameOvr]
      BY <1>1, <1>2 DEF tuner_push_input
    <2> HIDE DEF b
    <2>2. /\ b.fifo = a.fifo /\ b.lost = a.lost /\ b.ovr = a.ovr /\ b.frameOvr = a.frameOvr
          /\ b.phase = a.phase + 1 /\ b.gap = (a.gap \/ w) /\ b.ring = a.ring /\ b.dirty = a.dirty
          /\ b = [fifo |-> b.fifo, lost |-> b.lost, ovr |-> b.ovr, phase |-> b.phase, gap |-> b.gap,
                  ring |-> b.ring, dirty |-> b.dirty, frameOvr |-> b.frameOvr]
      BY <2>1
    <2>3. b.gap \in BOOLEAN /\ b.phase \in 0 .. TUNER_DECIM - 1
      BY <1>0, <1>1, <1>2, <2>2
    <2>4. b \in Acquisition
      BY <1>1, <2>2, <2>3, Fields
    <2>5. Covered(a) /\ (w => a.dirty = TUNER_N) => Covered(b)
      BY <1>1, <2>2 DEF Covered
    <2> QED
      BY <1>2, <2>2, <2>4, <2>5 DEF b
  <1>3. CASE ~(a.phase + 1 < TUNER_DECIM)
    <2> DEFINE g == a.gap \/ w
               t == Append(Tail(a.ring), g)
               k == IF a.dirty = 0 THEN 0 ELSE a.dirty - 1
    <2>1. b = [fifo |-> a.fifo, lost |-> a.lost, ovr |-> a.ovr, phase |-> 0, gap |-> FALSE,
               ring |-> t, dirty |-> k, frameOvr |-> a.frameOvr]
      BY <1>1, <1>3 DEF tuner_push_input
    <2>2. g \in BOOLEAN /\ k \in 0 .. TUNER_N /\ (a.dirty # 0 => k = a.dirty - 1)
      BY <1>0, <1>1
    <2>3. /\ t \in Seq(BOOLEAN) /\ Len(t) = TUNER_N /\ t[TUNER_N] = g
          /\ \A i \in 1 .. TUNER_N - 1 : t[i] = a.ring[i + 1]
      <3> HIDE DEF g
      <3> QED
        BY <1>0, <1>1, <2>2, Shifted
    <2> HIDE DEF b, t, k
    <2>4. /\ b.fifo = a.fifo /\ b.lost = a.lost /\ b.ovr = a.ovr /\ b.frameOvr = a.frameOvr
          /\ b.phase = 0 /\ b.gap = FALSE /\ b.ring = t /\ b.dirty = k
          /\ b = [fifo |-> b.fifo, lost |-> b.lost, ovr |-> b.ovr, phase |-> b.phase, gap |-> b.gap,
                  ring |-> b.ring, dirty |-> b.dirty, frameOvr |-> b.frameOvr]
      BY <2>1
    <2>5. b \in Acquisition
      <3>1. 0 \in 0 .. TUNER_DECIM - 1
        BY <1>0
      <3> QED
        BY <1>1, <2>2, <2>3, <2>4, <3>1, Fields
    <2>6. ASSUME Covered(a), w => a.dirty = TUNER_N PROVE Covered(b)
      <3>1. ASSUME NEW i \in 1 .. TUNER_N, t[i] PROVE i <= k + 1
        <4>1. CASE i = TUNER_N
          <5>1. a.dirty = TUNER_N
            BY <2>3, <2>6, <3>1, <4>1 DEF Covered
          <5> QED
            BY <1>0, <2>2, <4>1, <5>1
        <4>2. CASE i # TUNER_N
          <5>1. i + 1 \in 1 .. TUNER_N /\ a.ring[i + 1]
            BY <1>0, <2>3, <3>1, <4>2
          <5>2. i + 1 <= a.dirty + 1
            BY <2>6, <5>1 DEF Covered
          <5> QED
            BY <1>0, <1>1, <2>2, <5>2
        <4> QED
          BY <4>1, <4>2
      <3> QED
        BY <2>3, <2>4, <3>1 DEF Covered
    <2> QED
      BY <1>3, <2>3, <2>4, <2>5, <2>6 DEF b
  <1> QED
    BY <1>2, <1>3

LEMMA Checked ==
  ASSUME NEW a \in Acquisition, Len(a.ring) = TUNER_N
  PROVE  LET b == CheckOverrun(a) IN
         /\ b \in Acquisition /\ Len(b.ring) = TUNER_N
         /\ ~b.ovr /\ b.fifo = a.fifo /\ b.lost = a.lost /\ b.phase = a.phase /\ b.gap = a.gap
         /\ a.ovr => b.dirty = TUNER_N /\ Covered(b)
         /\ ~a.ovr => b = a
  <1> DEFINE b == CheckOverrun(a)
  <1>0. TUNER_N \in Nat \ {0}
    BY TunerAssumption
  <1>1. CASE a.ovr
    <2>1. b = [fifo |-> a.fifo, lost |-> a.lost, ovr |-> FALSE, phase |-> a.phase, gap |-> a.gap,
               ring |-> a.ring, dirty |-> TUNER_N, frameOvr |-> TRUE]
      <3>1. a = [fifo |-> a.fifo, lost |-> a.lost, ovr |-> a.ovr, phase |-> a.phase, gap |-> a.gap,
                 ring |-> a.ring, dirty |-> a.dirty, frameOvr |-> a.frameOvr]
        BY Typed
      <3>2. b = [a EXCEPT !.ovr = FALSE, !.dirty = TUNER_N, !.frameOvr = TRUE]
        BY <1>1 DEF CheckOverrun
      <3> HIDE DEF b
      <3> QED
        BY <3>1, <3>2
    <2> HIDE DEF b
    <2>2. /\ b.fifo = a.fifo /\ b.lost = a.lost /\ b.ovr = FALSE /\ b.frameOvr = TRUE
          /\ b.phase = a.phase /\ b.gap = a.gap /\ b.ring = a.ring /\ b.dirty = TUNER_N
          /\ b = [fifo |-> b.fifo, lost |-> b.lost, ovr |-> b.ovr, phase |-> b.phase, gap |-> b.gap,
                  ring |-> b.ring, dirty |-> b.dirty, frameOvr |-> b.frameOvr]
      BY <2>1
    <2>3. b \in Acquisition
      <3>1. TUNER_N \in 0 .. TUNER_N
        BY <1>0
      <3> QED
        BY <2>2, <3>1, Typed, Fields
    <2>4. Covered(b)
      BY <1>0, <2>2 DEF Covered
    <2> QED
      BY <1>1, <2>2, <2>3, <2>4 DEF b
  <1>2. CASE ~a.ovr
    BY <1>2 DEF CheckOverrun
  <1> QED
    BY <1>1, <1>2

\* A drain leaves the FIFO empty, and every gap known: those before the words it
\* pushes were, and if the flag is up the whole window is declared dirty.
LEMMA DrainKeeps ==
  ASSUME NEW a \in Acquisition, Covered(a), Tracked(a)
  PROVE  LET b == tuner_drain(a) IN
         b \in Acquisition /\ Covered(b) /\ Tracked(b) /\ ~b.ovr /\ b.fifo = <<>>
  <1> DEFINE n == Len(a.fifo)
             b == tuner_drain(a)
             e == [a EXCEPT !.fifo = <<>>]
             Kept(x) == /\ x \in Acquisition /\ Len(x.ring) = TUNER_N
                        /\ x.fifo = <<>> /\ x.lost = a.lost /\ x.ovr = a.ovr
                        /\ ~a.ovr => Covered(x)
  <1>1. /\ n \in Nat /\ Len(a.ring) = TUNER_N /\ a.fifo \in Seq(BOOLEAN)
        /\ \A i \in 1 .. n : a.fifo[i] \in BOOLEAN
    BY Typed DEF Covered
  <1>2. PICK d : Pushes(a, a.fifo, n, d) /\ b = CheckOverrun(d[n])
    <2> HIDE DEF b
    <2> QED
      BY <1>1, Drained DEF b
  <1>3. /\ d[0] = e
        /\ \A i \in 1 .. n : d[i] = tuner_push_input(d[i - 1], a.fifo[i])
    <2>1. d = [i \in 0 .. n |-> IF i = 0 THEN e ELSE tuner_push_input(d[i - 1], a.fifo[i])]
      BY <1>2 DEF Pushes
    <2> HIDE DEF e, n
    <2>2. 0 \in 0 .. n /\ \A i \in 1 .. n : i \in 0 .. n /\ i # 0
      BY <1>1
    <2> QED
      BY <2>1, <2>2
  <1>4. Kept(e) /\ e.dirty = a.dirty
    <2>1. e = [fifo |-> <<>>, lost |-> a.lost, ovr |-> a.ovr, phase |-> a.phase, gap |-> a.gap,
               ring |-> a.ring, dirty |-> a.dirty, frameOvr |-> a.frameOvr]
      BY Typed
    <2> HIDE DEF e
    <2>2. /\ e.fifo = <<>> /\ e.lost = a.lost /\ e.ovr = a.ovr /\ e.frameOvr = a.frameOvr
          /\ e.phase = a.phase /\ e.gap = a.gap /\ e.ring = a.ring /\ e.dirty = a.dirty
          /\ e = [fifo |-> e.fifo, lost |-> e.lost, ovr |-> e.ovr, phase |-> e.phase, gap |-> e.gap,
                  ring |-> e.ring, dirty |-> e.dirty, frameOvr |-> e.frameOvr]
          /\ e.fifo \in Seq(BOOLEAN)
      BY <2>1
    <2>3. e \in Acquisition
      BY <2>2, Typed, Fields
    <2>4. Covered(e)
      BY <2>2 DEF Covered
    <2> QED
      BY <1>1, <2>2, <2>3, <2>4
  <1> HIDE DEF n, e
  <1> DEFINE S == {k \in Nat : k <= n => Kept(d[k])}
  <1>5. 0 \in S
    BY <1>3, <1>4
  <1>6. ASSUME NEW k \in Nat, k \in S PROVE k + 1 \in S
    <2> SUFFICES ASSUME k + 1 <= n PROVE Kept(d[k + 1])
      OBVIOUS
    <2>1. k <= n /\ k + 1 \in 1 .. n /\ (k + 1) - 1 = k
      BY <1>1
    <2> DEFINE x == d[k]  w == a.fifo[k + 1]
    <2>2. Kept(x) /\ w \in BOOLEAN /\ d[k + 1] = tuner_push_input(x, w)
      BY <1>1, <1>3, <1>6, <2>1
    <2>3. ~a.ovr => (w => x.dirty = TUNER_N)
      <3>1. ~a.ovr /\ w => k + 1 = 1 /\ a.dirty = TUNER_N
        BY <2>1 DEF Tracked, n
      <3>2. k = 0 => x = e
        BY <1>3
      <3> QED
        BY <1>4, <2>1, <3>1, <3>2
    <2> HIDE DEF x, w
    <2> QED
      BY <2>2, <2>3, Pushed
  <1>7. \A k \in Nat : k \in S => k + 1 \in S
    BY <1>6
  <1>8. Kept(d[n])
    <2>1. n \in S
      <3> HIDE DEF S
      <3> QED
        BY <1>1, <1>5, <1>7, FromZeroUp
    <2> QED
      BY <1>1, <2>1
  <1>9. n = 0 => d[n] = e
    BY <1>3
  <1> DEFINE x == d[n]
  <1> HIDE DEF b, S, x
  <1>10. /\ b \in Acquisition /\ ~b.ovr /\ b.fifo = <<>> /\ b.lost = a.lost
         /\ Covered(b) /\ (a.ovr => b.dirty = TUNER_N) /\ (~a.ovr => b = x)
    <2>1. x \in Acquisition /\ Len(x.ring) = TUNER_N /\ b = CheckOverrun(x)
      BY <1>2, <1>8 DEF x
    <2>2. x.fifo = <<>> /\ x.lost = a.lost /\ x.ovr = a.ovr /\ (~a.ovr => Covered(x))
      BY <1>8 DEF x
    <2> QED
      BY <2>1, <2>2, Checked
  <1>11. b.lost => b.dirty = TUNER_N
    <2>1. ~a.ovr /\ a.lost => a.fifo = <<>> /\ a.dirty = TUNER_N
      BY DEF Tracked
    <2>2. a.fifo = <<>> => n = 0
      BY DEF n
    <2> QED
      BY <1>4, <1>9, <1>10, <2>1, <2>2 DEF x
  <1>12. Tracked(b)
    BY <1>10, <1>11 DEF Tracked
  <1> QED
    BY <1>10, <1>12 DEF b

\* The gap left by a full FIFO is marked on the next word that fits.
LEMMA ArrivedKeeps ==
  ASSUME NEW a \in Acquisition, Len(a.fifo) <= FIFO_DEPTH, NEW k \in Nat
  PROVE  LET b == Arrived(a, k) IN
         /\ b \in Acquisition /\ Len(b.fifo) <= FIFO_DEPTH
         /\ b.phase = a.phase /\ b.gap = a.gap /\ b.ring = a.ring /\ b.dirty = a.dirty
         /\ Len(a.fifo) + k <= FIFO_DEPTH => b.ovr = a.ovr /\ Len(b.fifo) = Len(a.fifo) + k
         /\ Covered(a) => Covered(b)
         /\ Tracked(a) => Tracked(b)
  <1> DEFINE b == Arrived(a, k)
             n == Len(a.fifo)
             room == FIFO_DEPTH - n
             m == IF k < room THEN k ELSE room
             more == [i \in 1 .. m |-> i = 1 /\ a.lost]
             fifo == a.fifo \o more
             lost == (m = 0 /\ a.lost) \/ k > m
             ovr == a.ovr \/ k > m
  <1>0. FIFO_DEPTH \in Nat
    BY TunerAssumption
  <1>1. n \in Nat /\ n <= FIFO_DEPTH /\ a.fifo \in Seq(BOOLEAN)
    BY Typed
  <1>2. m \in Nat /\ n + m <= FIFO_DEPTH /\ m <= k /\ (n + k <= FIFO_DEPTH => m = k)
        /\ (m = 0 => k = 0 \/ k > m)
    <2> HIDE DEF n
    <2> QED
      BY <1>0, <1>1
  <1>3. b = [fifo |-> fifo, lost |-> lost, ovr |-> ovr, phase |-> a.phase, gap |-> a.gap,
             ring |-> a.ring, dirty |-> a.dirty, frameOvr |-> a.frameOvr]
    <2>1. a = [fifo |-> a.fifo, lost |-> a.lost, ovr |-> a.ovr, phase |-> a.phase, gap |-> a.gap,
               ring |-> a.ring, dirty |-> a.dirty, frameOvr |-> a.frameOvr]
      BY Typed
    <2>2. b = [a EXCEPT !.fifo = fifo, !.lost = lost, !.ovr = ovr]
      BY DEF Arrived
    <2> HIDE DEF b, fifo, lost, ovr
    <2> QED
      BY <2>1, <2>2
  <1>4. more \in Seq(BOOLEAN) /\ Len(more) = m /\ \A i \in 1 .. m : more[i] = (i = 1 /\ a.lost)
    <2> HIDE DEF m
    <2> QED
      BY <1>2
  <1>5. /\ fifo \in Seq(BOOLEAN) /\ Len(fifo) = n + m
        /\ \A i \in 1 .. n : fifo[i] = a.fifo[i]
        /\ \A i \in (n + 1) .. (n + m) : fifo[i] = more[i - n]
    <2> HIDE DEF more, m
    <2> QED
      BY <1>1, <1>2, <1>4
  <1>6. lost \in BOOLEAN /\ ovr \in BOOLEAN
    BY Typed
  <1>7. (~ovr => ~a.ovr /\ ~(k > m) /\ lost = (m = 0 /\ a.lost))
        /\ (n + k <= FIFO_DEPTH => ovr = a.ovr)
    <2>1. a.ovr \in BOOLEAN
      BY Typed
    <2>2. n + k <= FIFO_DEPTH => ~(k > m)
      <3> HIDE DEF n, m
      <3> QED
        BY <1>2
    <2> HIDE DEF n, m
    <2> QED
      BY <2>1, <2>2
  <1> HIDE DEF b, n, m, more, fifo, lost, ovr
  <1>8. /\ b.fifo = fifo /\ b.lost = lost /\ b.ovr = ovr /\ b.frameOvr = a.frameOvr
        /\ b.phase = a.phase /\ b.gap = a.gap /\ b.ring = a.ring /\ b.dirty = a.dirty
        /\ b = [fifo |-> b.fifo, lost |-> b.lost, ovr |-> b.ovr, phase |-> b.phase, gap |-> b.gap,
                ring |-> b.ring, dirty |-> b.dirty, frameOvr |-> b.frameOvr]
    BY <1>3
  <1>9. b \in Acquisition
    BY <1>5, <1>6, <1>8, Typed, Fields
  <1>10. Covered(a) => Covered(b)
    BY <1>8 DEF Covered
  <1>11. ASSUME Tracked(a), ~ovr
         PROVE  /\ lost => fifo = <<>> /\ a.dirty = TUNER_N
                /\ \A j \in 1 .. Len(fifo) : fifo[j] => j = 1 /\ a.dirty = TUNER_N
    <2>1. /\ a.lost => a.fifo = <<>> /\ n = 0 /\ a.dirty = TUNER_N
          /\ \A j \in 1 .. n : a.fifo[j] => j = 1 /\ a.dirty = TUNER_N
      BY <1>7, <1>11 DEF Tracked, n
    <2>2. lost => a.lost /\ m = 0
      BY <1>7, <1>11
    <2>3. lost => fifo = <<>> /\ a.dirty = TUNER_N
      BY <1>5, <2>1, <2>2
    <2>4. ASSUME NEW j \in 1 .. Len(fifo), fifo[j] PROVE j = 1 /\ a.dirty = TUNER_N
      <3>1. CASE j \in 1 .. n
        BY <1>5, <2>1, <2>4, <3>1
      <3>2. CASE j \in (n + 1) .. (n + m)
        <4>1. j - n \in 1 .. m
          BY <1>1, <1>2, <3>2
        <4>2. j - n = 1 /\ a.lost
          BY <1>4, <1>5, <2>4, <3>2, <4>1
        <4> QED
          BY <1>1, <2>1, <4>2
      <3> QED
        BY <1>1, <1>2, <1>5, <3>1, <3>2
    <2> QED
      BY <2>3, <2>4
  <1>12. Tracked(a) => Tracked(b)
    BY <1>8, <1>11 DEF Tracked
  <1> QED
    BY <1>2, <1>5, <1>7, <1>8, <1>9, <1>10, <1>12 DEF b, n

\* A pass of tuner_pump over a FIFO that has not overrun.
LEMMA PumpKeeps ==
  ASSUME NEW a \in Acquisition, Covered(a), Tracked(a), ~a.ovr, a.fifo # <<>>
  PROVE  LET b == PumpPass(a) IN
         /\ b \in Acquisition /\ Covered(b) /\ Tracked(b) /\ ~b.ovr
         /\ Len(b.fifo) = Len(a.fifo) - 1
         /\ b.phase = IF a.phase + 1 < TUNER_DECIM THEN a.phase + 1 ELSE 0
  <1> DEFINE w == Head(a.fifo)
             t == Tail(a.fifo)
             c == [a EXCEPT !.fifo = t]
             d == tuner_push_input(c, w)
             b == PumpPass(a)
  <1>1. /\ w \in BOOLEAN /\ t \in Seq(BOOLEAN) /\ Len(t) = Len(a.fifo) - 1
        /\ Len(a.fifo) \in Nat \ {0} /\ w = a.fifo[1]
        /\ \A j \in 1 .. Len(t) : t[j] = a.fifo[j + 1]
    <2>1. \A s \in Seq(BOOLEAN) : s # <<>> =>
            /\ Head(s) \in BOOLEAN /\ Tail(s) \in Seq(BOOLEAN) /\ Len(Tail(s)) = Len(s) - 1
            /\ Len(s) \in Nat \ {0} /\ Head(s) = s[1]
            /\ \A j \in 1 .. Len(Tail(s)) : Tail(s)[j] = s[j + 1]
      OBVIOUS
    <2>2. a.fifo \in Seq(BOOLEAN)
      BY Typed
    <2> QED
      BY <2>1, <2>2
  <1>2. /\ ~a.lost /\ (w => a.dirty = TUNER_N)
        /\ \A j \in 1 .. Len(t) : ~t[j]
    <2>1. \A j \in 1 .. Len(a.fifo) : a.fifo[j] => j = 1 /\ a.dirty = TUNER_N
      BY DEF Tracked
    <2>2. ~a.lost
      BY DEF Tracked
    <2>3. ASSUME NEW j \in 1 .. Len(t) PROVE ~t[j]
      <3>1. j + 1 \in 1 .. Len(a.fifo) /\ j + 1 # 1 /\ t[j] = a.fifo[j + 1]
        BY <1>1
      <3> QED
        BY <2>1, <3>1
    <2>4. w => a.dirty = TUNER_N
      <3>1. 1 \in 1 .. Len(a.fifo) /\ w = a.fifo[1]
        BY <1>1
      <3> HIDE DEF w
      <3> QED
        BY <2>1, <3>1
    <2> HIDE DEF w, t
    <2> QED
      BY <2>2, <2>3, <2>4
  <1>3. b = CheckOverrun(d)
    BY DEF PumpPass
  <1> HIDE DEF w, t
  <1>4. c = [fifo |-> t, lost |-> a.lost, ovr |-> a.ovr, phase |-> a.phase, gap |-> a.gap,
             ring |-> a.ring, dirty |-> a.dirty, frameOvr |-> a.frameOvr]
    <2>1. a = [fifo |-> a.fifo, lost |-> a.lost, ovr |-> a.ovr, phase |-> a.phase, gap |-> a.gap,
               ring |-> a.ring, dirty |-> a.dirty, frameOvr |-> a.frameOvr]
      BY Typed
    <2> QED
      BY <2>1
  <1> HIDE DEF b, c
  <1>5. /\ c.fifo = t /\ c.lost = a.lost /\ c.ovr = a.ovr /\ c.frameOvr = a.frameOvr
        /\ c.phase = a.phase /\ c.gap = a.gap /\ c.ring = a.ring /\ c.dirty = a.dirty
        /\ c = [fifo |-> c.fifo, lost |-> c.lost, ovr |-> c.ovr, phase |-> c.phase, gap |-> c.gap,
                ring |-> c.ring, dirty |-> c.dirty, frameOvr |-> c.frameOvr]
    BY <1>4
  <1>6. c \in Acquisition
    BY <1>1, <1>5, Typed, Fields
  <1>7. Covered(c) /\ Len(c.ring) = TUNER_N /\ (w => c.dirty = TUNER_N)
    BY <1>2, <1>5 DEF Covered
  <1>8. /\ d \in Acquisition /\ Len(d.ring) = TUNER_N /\ Covered(d)
        /\ d.fifo = t /\ d.lost = a.lost /\ d.ovr = a.ovr
        /\ d.phase = IF a.phase + 1 < TUNER_DECIM THEN a.phase + 1 ELSE 0
    <2>1. /\ d \in Acquisition /\ Len(d.ring) = TUNER_N
          /\ d.fifo = c.fifo /\ d.lost = c.lost /\ d.ovr = c.ovr
          /\ d.phase = IF c.phase + 1 < TUNER_DECIM THEN c.phase + 1 ELSE 0
          /\ Covered(c) /\ (w => c.dirty = TUNER_N) => Covered(d)
      BY <1>1, <1>6, <1>7, Pushed
    <2> HIDE DEF d
    <2> QED
      BY <1>5, <1>7, <2>1
  <1> HIDE DEF d
  <1>9. b = d
    BY <1>3, <1>8, Checked
  <1>10. Tracked(b)
    BY <1>2, <1>8, <1>9 DEF Tracked
  <1> QED
    BY <1>1, <1>8, <1>9, <1>10 DEF b

-----------------------------------------------------------------------------
(***************************************************************************)
(* The stream is kept.                                                     *)
(***************************************************************************)
\* Words that are still to be taken in when n samples are wanted.
LEMMA WordsToCome ==
  ASSUME NEW n \in Nat \ {0}, NEW phase \in 0 .. TUNER_DECIM - 1
  PROVE  /\ n * TUNER_DECIM \in Nat /\ n * TUNER_DECIM - phase >= 1
         /\ (n - 1) * TUNER_DECIM = n * TUNER_DECIM - TUNER_DECIM
         /\ (n - 1) * TUNER_DECIM \in Nat
  <1>1. TUNER_DECIM \in Nat /\ TUNER_DECIM > 0 /\ n \in Nat /\ n - 1 \in Nat
    BY TunerAssumption
  <1>2. n * TUNER_DECIM \in Nat /\ (n - 1) * TUNER_DECIM \in Nat
    BY <1>1
  <1>3. (n - 1) * TUNER_DECIM = n * TUNER_DECIM - TUNER_DECIM
    BY <1>1
  <1> QED
    BY <1>1, <1>2, <1>3

LEMMA SliceTakesIn ==
  ASSUME NEW phase \in 0 .. TUNER_DECIM - 1
  PROVE  Slice \in Nat \ {0} /\ CHUNK_WORDS + 1 <= Slice * TUNER_DECIM - phase + 1
  <1>1. /\ Slice \in Nat \ {0} /\ CHUNK_WORDS \in Nat /\ TUNER_DECIM \in Nat
        /\ CHUNK_WORDS <= (Slice - 1) * TUNER_DECIM + 1
    BY TunerAssumption
  <1> HIDE DEF Slice
  <1>2. /\ Slice * TUNER_DECIM \in Nat
        /\ (Slice - 1) * TUNER_DECIM = Slice * TUNER_DECIM - TUNER_DECIM
    BY <1>1, WordsToCome
  <1> QED
    BY <1>1, <1>2

Good(a) == a \in Acquisition /\ Covered(a) /\ Tracked(a) /\ Len(a.fifo) <= FIFO_DEPTH
Empty(a) == Good(a) /\ ~a.ovr /\ a.fifo = <<>>

LEMMA GoodDrained ==
  ASSUME NEW a, Good(a)
  PROVE  Empty(tuner_drain(a))
  <1>1. FIFO_DEPTH \in Nat /\ Len(<<>>) = 0
    BY TunerAssumption
  <1> QED
    BY <1>1, DrainKeeps DEF Good, Empty

LEMMA GoodArrived ==
  ASSUME NEW a, Good(a), NEW k \in Nat
  PROVE  /\ Good(Arrived(a, k)) /\ Arrived(a, k).phase = a.phase
         /\ Len(a.fifo) + k <= FIFO_DEPTH =>
              Arrived(a, k).ovr = a.ovr /\ Len(Arrived(a, k).fifo) = Len(a.fifo) + k
  BY ArrivedKeeps DEF Good

\* Words that arrive at a drained FIFO during a chunk or a character fit.
LEMMA EmptyArrived ==
  ASSUME NEW a, Empty(a), NEW k \in 0 .. CHUNK_WORDS
  PROVE  LET b == Arrived(a, k) IN Good(b) /\ ~b.ovr /\ Len(b.fifo) <= CHUNK_WORDS
  <1>1. CHUNK_WORDS \in Nat /\ FIFO_DEPTH \in Nat /\ CHUNK_WORDS + 1 < FIFO_DEPTH
    BY TunerAssumption
  <1>2. k \in Nat /\ k <= CHUNK_WORDS /\ Len(a.fifo) = 0 /\ 0 + k <= FIFO_DEPTH
    BY <1>1 DEF Empty
  <1>3. /\ Good(Arrived(a, k))
        /\ Arrived(a, k).ovr = a.ovr /\ Len(Arrived(a, k).fifo) = k
    BY <1>2, GoodArrived DEF Empty
  <1> QED
    BY <1>2, <1>3 DEF Empty

LEMMA RenderKeeps ==
  ASSUME Good(aq), NEW x, NEW held, NEW needle, NEW reports, Render(aq, x, held, needle, reports)
  PROVE  Good(aq') /\ pc' = "flush" /\ page' = Pages
  <1>1. CHUNK_WORDS \in Nat /\ DRAW_WORDS \in Nat /\ UPDATE_WORDS \in Nat
    BY TunerAssumption
  <1>2. PICK k \in 0 .. DRAW_WORDS, u \in 0 .. UPDATE_WORDS, report \in reports, c \in 0 .. CHUNK_WORDS :
          LET drawn == Arrived(tuner_drain(aq), k + u) IN
            aq' = IF report THEN Arrived(tuner_drain(drawn), c) ELSE drawn
    BY DEF Render
  <1> DEFINE drained == tuner_drain(aq)
             drawn == Arrived(drained, k + u)
             again == tuner_drain(drawn)
  <1>3. Good(drained)
    BY GoodDrained DEF Empty
  <1>4. k + u \in Nat /\ c \in Nat
    BY <1>1
  <1> HIDE DEF drained
  <1>5. Good(drawn)
    BY <1>3, <1>4, GoodArrived
  <1> HIDE DEF drawn
  <1>6. Good(again)
    BY <1>5, GoodDrained DEF Empty
  <1> HIDE DEF again
  <1>7. Good(Arrived(again, c))
    BY <1>4, <1>6, GoodArrived
  <1>8. aq' = IF report THEN Arrived(again, c) ELSE drawn
    BY <1>2 DEF again, drawn, drained
  <1> QED
    BY <1>5, <1>7, <1>8 DEF Render

LEMMA StreamStep ==
  ASSUME TunerInv, [Next]_vars
  PROVE  Stream'
  <1> USE DEF TunerInv
  <1>0. /\ TUNER_DECIM \in Nat \ {0} /\ TUNER_N \in Nat \ {0}
        /\ FIFO_DEPTH \in Nat /\ CHUNK_WORDS \in Nat /\ UPDATE_WORDS \in Nat
        /\ CHUNK_WORDS + 1 < FIFO_DEPTH
    BY TunerAssumption
  <1>1. /\ aq \in Acquisition /\ Len(aq.fifo) <= FIFO_DEPTH /\ Covered(aq) /\ KeptUp
        /\ pc \notin {"probe", "splash"} => Good(aq)
        /\ aq.phase \in 0 .. TUNER_DECIM - 1 /\ Len(aq.fifo) \in Nat
    BY Typed DEF Stream, Good
  <1>2. ASSUME Good(aq'), pc' \notin {"probe", "splash"}, KeptUp'
        PROVE  Stream'
    BY <1>2 DEF Stream, Good
  \* a slice may begin
  <1>3. ASSUME Good(aq'), ~aq'.ovr, Len(aq'.fifo) <= CHUNK_WORDS + 1, NewSlice
        PROVE  Stream'
    <2>1. aq'.phase \in 0 .. TUNER_DECIM - 1 /\ Len(aq'.fifo) \in Nat
      BY <1>3, Typed DEF Good
    <2>2. /\ Slice \in Nat \ {0} /\ CHUNK_WORDS + 1 <= Slice * TUNER_DECIM - aq'.phase + 1
          /\ Slice * TUNER_DECIM \in Nat
      BY <2>1, SliceTakesIn, WordsToCome
    <2>3. pc' = "pump" /\ need' = Slice
      BY <1>3 DEF NewSlice
    <2> HIDE DEF Slice
    <2>4. KeptUp'
      BY <1>0, <1>3, <2>1, <2>2, <2>3 DEF KeptUp
    <2> QED
      BY <1>2, <1>3, <2>3, <2>4
  <1>4. CASE MicProbe
    <2>1. PICK k \in 0 .. 1 :
            LET a == Arrived(aq, k) IN
            \/ pc' = "probe" /\ aq' = IF a.fifo = <<>> THEN a ELSE [a EXCEPT !.fifo = Tail(@)]
            \/ pc' = "splash" /\ \E u \in 0 .. UPDATE_WORDS : aq' = [Arrived(a, u) EXCEPT !.ovr = FALSE]
      BY <1>4 DEF MicProbe
    <2>2. pc = "probe" /\ UNCHANGED <<need, page>>
      BY <1>4 DEF MicProbe
    <2>3. aq.dirty = TUNER_N /\ ~aq.gap /\ aq.phase = 0 /\ need = TUNER_N
      BY <1>1, <2>2 DEF KeptUp
    <2> DEFINE Fresh(b) == /\ b \in Acquisition /\ Len(b.fifo) <= FIFO_DEPTH /\ Covered(b)
                           /\ b.dirty = TUNER_N /\ ~b.gap /\ b.phase = 0
               a == Arrived(aq, k)
    <2>4. ASSUME NEW b, Fresh(b), NEW u \in Nat PROVE Fresh(Arrived(b, u))
      BY <2>4, ArrivedKeeps
    <2>5. Fresh(a)
      <3>1. Fresh(aq) /\ k \in Nat
        BY <1>1, <2>3
      <3> HIDE DEF Fresh
      <3> QED
        BY <2>4, <3>1
    <2> DEFINE off == FALSE
    <2>6. off \in BOOLEAN /\ <<>> \in Seq(BOOLEAN) /\ ~off
      OBVIOUS
    <2> HIDE DEF off
    <2>7. ASSUME NEW b, Fresh(b)
          PROVE  /\ Fresh([b EXCEPT !.ovr = off])
                 /\ b.fifo # <<>> => Fresh([b EXCEPT !.fifo = Tail(b.fifo)])
      <3>1. b.fifo \in Seq(BOOLEAN) /\ Len(b.fifo) <= FIFO_DEPTH
        BY <2>7, Typed
      <3>2. b.fifo # <<>> => Tail(b.fifo) \in Seq(BOOLEAN) /\ Len(Tail(b.fifo)) <= FIFO_DEPTH
        <4>1. \A s \in Seq(BOOLEAN) : s # <<>> =>
                Tail(s) \in Seq(BOOLEAN) /\ Len(s) \in Nat /\ Len(Tail(s)) = Len(s) - 1
          OBVIOUS
        <4> DEFINE s == b.fifo
        <4>2. s \in Seq(BOOLEAN) /\ Len(s) <= FIFO_DEPTH
          BY <3>1
        <4> HIDE DEF s
        <4>3. s # <<>> => Tail(s) \in Seq(BOOLEAN) /\ Len(Tail(s)) <= FIFO_DEPTH
          BY <1>0, <4>1, <4>2
        <4> QED
          BY <4>3 DEF s
      <3>3. ASSUME NEW c, Apart(b, c), Len(c.fifo) <= FIFO_DEPTH PROVE Fresh(c)
        BY <2>7, <3>3 DEF Apart, Covered
      <3> DEFINE c1 == [b EXCEPT !.ovr = off]  c2 == [b EXCEPT !.fifo = Tail(b.fifo)]
      <3>4. Apart(b, c1) /\ c1.fifo = b.fifo
        BY <2>6, <2>7, Reflagged
      <3>5. b.fifo # <<>> => Apart(b, c2) /\ c2.fifo = Tail(b.fifo)
        <4> DEFINE t == Tail(b.fifo)
        <4> SUFFICES ASSUME b.fifo # <<>> PROVE Apart(b, c2) /\ c2.fifo = t
          OBVIOUS
        <4>1. t \in Seq(BOOLEAN) /\ c2 = [b EXCEPT !.fifo = t]
          BY <3>2
        <4> HIDE DEF c2, t
        <4> QED
          BY <2>7, <4>1, Refilled
      <3> HIDE DEF c1, c2
      <3>6. Fresh(c1) /\ (b.fifo # <<>> => Fresh(c2))
        BY <3>1, <3>2, <3>3, <3>4, <3>5
      <3> QED
        BY <3>6 DEF c1, c2
    <2> HIDE DEF a, Fresh
    <2>8. Fresh(aq') /\ pc' \in {"probe", "splash"}
      <3>1. CASE pc' = "probe" /\ aq' = IF a.fifo = <<>> THEN a ELSE [a EXCEPT !.fifo = Tail(@)]
        <4>1. CASE a.fifo = <<>>
          BY <2>5, <3>1, <4>1
        <4>2. CASE a.fifo # <<>>
          BY <2>5, <2>7, <3>1, <4>2
        <4> QED
          BY <4>1, <4>2
      <3>2. CASE pc' = "splash" /\ \E u \in 0 .. UPDATE_WORDS : aq' = [Arrived(a, u) EXCEPT !.ovr = FALSE]
        <4>1. PICK u \in 0 .. UPDATE_WORDS : aq' = [Arrived(a, u) EXCEPT !.ovr = FALSE]
          BY <3>2
        <4> DEFINE b == Arrived(a, u)
        <4>2. Fresh(b)
          <5>1. u \in Nat
            BY <1>0
          <5> QED
            BY <2>4, <2>5, <5>1
        <4>3. aq' = [b EXCEPT !.ovr = off]
          BY <4>1 DEF off
        <4> HIDE DEF b
        <4> QED
          BY <2>7, <3>2, <4>2, <4>3
      <3> QED
        BY <2>1, <3>1, <3>2 DEF a
    <2> QED
      BY <1>0, <2>2, <2>3, <2>8 DEF Fresh, Stream, KeptUp
  <1>5. CASE Splashed
    <2>1. PICK u \in 0 .. UPDATE_WORDS : aq' = i2s_flush(Arrived(aq, u))
      BY <1>5 DEF Splashed
    <2>2. pc = "splash" /\ pc' = "prime" /\ UNCHANGED <<need, page>>
      BY <1>5 DEF Splashed
    <2>3. aq.dirty = TUNER_N /\ ~aq.gap /\ aq.phase = 0 /\ need = TUNER_N
      BY <1>1, <2>2 DEF KeptUp
    <2> DEFINE a == Arrived(aq, u)  c == i2s_flush(a)
    <2>4. a \in Acquisition /\ Covered(a) /\ a.dirty = TUNER_N /\ a.phase = 0
      <3>1. u \in Nat
        BY <1>0
      <3> QED
        BY <1>1, <2>3, <3>1, ArrivedKeeps
    <2> HIDE DEF a
    <2> DEFINE off == FALSE  none == <<>>
    <2>5. off \in BOOLEAN /\ none \in Seq(BOOLEAN) /\ ~off /\ Len(none) = 0
      OBVIOUS
    <2>6. c = [a EXCEPT !.fifo = none, !.ovr = off] /\ none = <<>>
      BY DEF i2s_flush
    <2> HIDE DEF c, off, none
    <2>7. Apart(a, c) /\ c.fifo = none /\ ~c.ovr
      <3> DEFINE e == [a EXCEPT !.fifo = none]
      <3>1. Apart(a, e) /\ e.fifo = none
        BY <2>4, <2>5, Refilled
      <3>2. c = [e EXCEPT !.ovr = off]
        BY <2>6
      <3> HIDE DEF e
      <3>3. Apart(e, c) /\ c.fifo = e.fifo /\ c.ovr = off
        <4>1. e \in Acquisition
          BY <3>1 DEF Apart
        <4>2. LET x == [e EXCEPT !.ovr = off] IN Apart(e, x) /\ x.fifo = e.fifo /\ x.ovr = off
          BY <2>5, <4>1, Reflagged
        <4> QED
          BY <3>2, <4>2
      <3> QED
        BY <2>5, <3>1, <3>3 DEF Apart
    <2>8. Covered(c) /\ Tracked(c)
      BY <2>4, <2>5, <2>6, <2>7 DEF Covered, Tracked, Apart
    <2>9. Good(aq') /\ ~aq'.ovr /\ Len(aq'.fifo) = 0 /\ aq'.phase = 0
      BY <1>0, <2>1, <2>4, <2>5, <2>7, <2>8 DEF Good, Apart, c, a
    <2>10. TUNER_N * TUNER_DECIM - 0 >= 1 /\ TUNER_N * TUNER_DECIM \in Nat
      <3>1. 0 \in 0 .. TUNER_DECIM - 1
        BY <1>0
      <3> QED
        BY <1>0, <3>1, WordsToCome
    <2>11. KeptUp'
      BY <1>0, <2>2, <2>3, <2>9, <2>10 DEF KeptUp
    <2> QED
      BY <1>2, <2>2, <2>9, <2>11
  <1>6. CASE Pump
    <2>1. PICK k \in (IF aq.fifo = <<>> THEN {1} ELSE IF Len(aq.fifo) = 1 THEN {0, 1} ELSE {0}) :
            /\ aq' = PumpPass(Arrived(aq, k))
            /\ need' = need - IF aq'.phase = 0 THEN 1 ELSE 0
      BY <1>6 DEF Pump
    <2>2. /\ pc \in {"prime", "pump"}
          /\ pc' = IF need' > 0 THEN pc ELSE IF pc = "prime" THEN "launch" ELSE "anim"
      BY <1>6 DEF Pump
    <2>3. /\ ~aq.ovr /\ need \in Nat \ {0} /\ Len(aq.fifo) < FIFO_DEPTH /\ Good(aq)
          /\ Len(aq.fifo) <= need * TUNER_DECIM - aq.phase + 1
      BY <1>1, <2>2 DEF KeptUp
    <2> DEFINE n == Len(aq.fifo)
               a == Arrived(aq, k)
    <2>4. /\ k \in {0, 1} /\ n \in Nat /\ n + k <= FIFO_DEPTH /\ n + k > 0
          /\ k = 1 => n <= 1
      <3>1. aq.fifo \in Seq(BOOLEAN) /\ (aq.fifo = <<>> <=> n = 0)
        <4>1. aq.fifo \in Seq(BOOLEAN)
          BY <1>1, Typed
        <4> QED
          BY <4>1
      <3> HIDE DEF n
      <3>2. CASE n = 0
        <4>1. k = 1
          BY <2>1, <3>1, <3>2
        <4> QED
          BY <1>0, <3>2, <4>1
      <3>3. CASE n = 1
        <4>1. k \in {0, 1} /\ n < FIFO_DEPTH
          BY <2>1, <2>3, <3>1, <3>3 DEF n
        <4> QED
          BY <1>0, <3>3, <4>1
      <3>4. CASE n # 0 /\ n # 1
        <4>1. k = 0 /\ n \in Nat /\ n < FIFO_DEPTH
          BY <1>1, <2>1, <2>3, <3>1, <3>4 DEF n
        <4> QED
          BY <1>0, <3>4, <4>1
      <3> QED
        BY <3>2, <3>3, <3>4
    <2>5. Good(a) /\ ~a.ovr /\ Len(a.fifo) = n + k /\ a.phase = aq.phase
      <3>1. k \in Nat
        BY <2>4
      <3> QED
        BY <2>3, <2>4, <3>1, GoodArrived
    <2> HIDE DEF a
    <2>6. a.fifo # <<>>
      <3>1. Len(<<>>) = 0
        OBVIOUS
      <3> QED
        BY <2>4, <2>5, <3>1
    <2>7. aq' = PumpPass(a)
      BY <2>1 DEF a
    <2>8. /\ aq' \in Acquisition /\ Covered(aq') /\ Tracked(aq') /\ ~aq'.ovr
          /\ Len(aq'.fifo) = Len(a.fifo) - 1
          /\ aq'.phase = IF aq.phase + 1 < TUNER_DECIM THEN aq.phase + 1 ELSE 0
      <3> DEFINE b == PumpPass(a)
      <3>1. /\ b \in Acquisition /\ Covered(b) /\ Tracked(b) /\ ~b.ovr
            /\ Len(b.fifo) = Len(a.fifo) - 1
            /\ b.phase = IF a.phase + 1 < TUNER_DECIM THEN a.phase + 1 ELSE 0
        BY <2>5, <2>6, PumpKeeps DEF Good
      <3> HIDE DEF b
      <3>2. aq' = b
        BY <2>7 DEF b
      <3> QED
        BY <2>5, <3>1, <3>2
    <2>9. Len(aq'.fifo) = n + k - 1
      BY <2>5, <2>8
    <2> HIDE DEF n
    <2>10. Good(aq') /\ Len(aq'.fifo) < FIFO_DEPTH
      BY <1>0, <2>4, <2>8, <2>9 DEF Good
    <2>11. /\ need * TUNER_DECIM \in Nat /\ need * TUNER_DECIM - aq.phase >= 1
           /\ (need - 1) * TUNER_DECIM = need * TUNER_DECIM - TUNER_DECIM
      BY <1>1, <2>3, WordsToCome
    <2>12. n <= need * TUNER_DECIM - aq.phase + 1
      BY <2>3 DEF n
    <2>13. need' \in Nat /\ Len(aq'.fifo) <= need' * TUNER_DECIM - aq'.phase + 1
      <3>1. CASE aq.phase + 1 < TUNER_DECIM
        <4>1. aq'.phase = aq.phase + 1 /\ need' = need
          <5>1. aq'.phase = aq.phase + 1 /\ aq'.phase # 0
            BY <1>1, <2>8, <3>1
          <5>2. need' = need - 0
            BY <2>1, <5>1
          <5> QED
            BY <2>3, <5>1, <5>2
        <4>2. n + k - 1 <= need * TUNER_DECIM - (aq.phase + 1) + 1
          BY <1>0, <1>1, <2>4, <2>11, <2>12
        <4> QED
          BY <2>3, <2>9, <4>1, <4>2
      <3>2. CASE ~(aq.phase + 1 < TUNER_DECIM)
        <4>1. aq'.phase = 0 /\ need' = need - 1 /\ aq.phase = TUNER_DECIM - 1
          BY <1>0, <1>1, <2>1, <2>8, <3>2
        <4>2. n + k - 1 <= (need - 1) * TUNER_DECIM - 0 + 1
          BY <1>0, <1>1, <2>4, <2>11, <2>12, <4>1
        <4> QED
          BY <2>3, <2>9, <4>1, <4>2
      <3> QED
        BY <3>1, <3>2
    <2>14. need' = 0 => Len(aq'.fifo) <= 1
      <3>1. need' = 0 => aq'.phase = 0 /\ need' * TUNER_DECIM = 0
        BY <1>0, <2>1, <2>3
      <3> QED
        BY <2>13, <3>1
    <2>15. KeptUp'
      <3>1. CASE need' > 0
        <4>1. pc' \in {"prime", "pump"}
          BY <2>2, <3>1
        <4> QED
          BY <2>8, <2>10, <2>13, <3>1, <4>1 DEF KeptUp
      <3>2. CASE ~(need' > 0)
        <4>1. pc' \in {"launch", "anim"} /\ need' = 0
          BY <2>2, <2>13, <3>2
        <4> QED
          BY <2>8, <2>13, <2>14, <4>1 DEF KeptUp
      <3> QED
        BY <3>1, <3>2
    <2> QED
      BY <1>2, <2>2, <2>10, <2>15
  <1>7. CASE Animate
    <2>1. pc = "anim" /\ ~aq.ovr /\ Len(aq.fifo) <= 1 /\ Good(aq) /\ need \in Nat
      BY <1>1, <1>7 DEF Animate, KeptUp
    <2>2. CASE NeedleMoves
      <3> DEFINE x == IF ui.showing = 2 THEN last ELSE r
                 held == ui.showing = 2
                 needle == ui'.anim
                 reports == {FALSE}
      <3>1. Render(aq, x, held, needle, reports) /\ need' = need
        BY <1>7, <2>2 DEF Animate
      <3> HIDE DEF x, held, needle, reports
      <3>2. Good(aq') /\ pc' = "flush" /\ page' = Pages
        BY <2>1, <3>1, RenderKeeps
      <3>3. KeptUp'
        BY <2>1, <3>1, <3>2 DEF KeptUp
      <3> QED
        BY <1>2, <3>2, <3>3
    <2>3. CASE ~NeedleMoves
      <3>1. NextSlice /\ UNCHANGED <<aq, page>>
        BY <1>7, <2>3 DEF Animate
      <3>2. CASE NewSlice
        BY <1>0, <1>1, <1>3, <2>1, <3>1, <3>2
      <3>3. CASE pc' = "launch" /\ UNCHANGED need
        BY <1>2, <2>1, <3>1, <3>3 DEF KeptUp
      <3> QED
        BY <3>1, <3>2, <3>3 DEF NextSlice
    <2> QED
      BY <2>2, <2>3
  <1>8. CASE FlushPage
    <2>1. /\ pc = "flush" /\ pc' = "flush" /\ page' = Tail(page) /\ page # <<>> /\ need' = need
          /\ Good(aq) /\ need \in Nat
      BY <1>1, <1>8 DEF FlushPage, KeptUp
    <2> DEFINE a == IF Len(page) = Len(Pages) THEN tuner_drain(aq) ELSE aq
    <2>2. Empty(a)
      <3>1. CASE page = Pages
        BY <2>1, <3>1, GoodDrained
      <3>2. CASE page # Pages
        <4>1. Len(page) # Len(Pages)
          <5>1. Len(Pages) = 3 /\ page \in {<<>>, <<"banner">>, <<"gauge", "banner">>}
            BY <3>2 DEF Flushed, Prefixes, Pages
          <5>2. Len(<<>>) = 0 /\ Len(<<"banner">>) = 1 /\ Len(<<"gauge", "banner">>) = 2
            OBVIOUS
          <5> QED
            BY <5>1, <5>2
        <4>2. ~aq.ovr /\ aq.fifo = <<>>
          BY <1>1, <2>1, <3>2 DEF KeptUp
        <4> QED
          BY <2>1, <4>1, <4>2 DEF Empty
      <3> QED
        BY <3>1, <3>2
    <2>3. \/ aq' = a
          \/ \E w, c \in 0 .. CHUNK_WORDS :
               aq' = tuner_drain(Arrived(tuner_drain(Arrived(tuner_drain(a), w)), c))
      BY <1>8 DEF FlushPage
    <2> HIDE DEF a
    <2>4. ASSUME NEW b, Empty(b), NEW k \in 0 .. CHUNK_WORDS
          PROVE  Empty(tuner_drain(Arrived(b, k)))
      BY <2>4, EmptyArrived, GoodDrained
    <2>5. Empty(tuner_drain(a))
      BY <2>2, GoodDrained DEF Empty
    <2>6. Empty(aq')
      <3>1. CASE aq' = a
        BY <2>2, <3>1
      <3>2. ASSUME NEW w \in 0 .. CHUNK_WORDS, NEW c \in 0 .. CHUNK_WORDS,
                   aq' = tuner_drain(Arrived(tuner_drain(Arrived(tuner_drain(a), w)), c))
            PROVE  Empty(aq')
        <4>1. Empty(tuner_drain(Arrived(tuner_drain(a), w)))
          BY <2>4, <2>5
        <4> QED
          BY <2>4, <3>2, <4>1
      <3> QED
        BY <2>3, <3>1, <3>2
    <2>7. KeptUp'
      BY <2>1, <2>6 DEF KeptUp, Empty
    <2> QED
      BY <1>2, <2>1, <2>6, <2>7 DEF Empty
  <1>9. CASE FlushEnd
    <2>1. /\ pc = "flush" /\ page = <<>> /\ NextSlice /\ UNCHANGED <<aq, page>>
      BY <1>9 DEF FlushEnd
    <2>2. ~aq.ovr /\ Len(aq.fifo) = 0 /\ Good(aq) /\ need \in Nat
      BY <1>1, <2>1 DEF KeptUp, Pages
    <2>3. CASE NewSlice
      BY <1>0, <1>3, <2>1, <2>2, <2>3
    <2>4. CASE pc' = "launch" /\ UNCHANGED need
      BY <1>2, <2>1, <2>2, <2>4 DEF KeptUp
    <2> QED
      BY <2>1, <2>3, <2>4 DEF NextSlice
  <1>10. CASE Launch
    <2>1. /\ pc = "launch" /\ ~aq.ovr /\ Len(aq.fifo) <= 1 /\ Good(aq) /\ need \in Nat
      BY <1>1, <1>10 DEF Launch, KeptUp
    <2>2. PICK k \in 0 .. CHUNK_WORDS : aq' = Arrived(aq, k)
      BY <1>10 DEF Launch
    <2>3. k \in Nat /\ Len(aq.fifo) + k <= FIFO_DEPTH /\ Len(aq.fifo) + k <= CHUNK_WORDS + 1
      BY <1>0, <1>1, <2>1
    <2>4. Good(aq') /\ ~aq'.ovr /\ Len(aq'.fifo) <= CHUNK_WORDS + 1
      BY <2>1, <2>2, <2>3, GoodArrived
    <2>5. CASE NewSlice
      BY <1>3, <2>4, <2>5
    <2>6. CASE pc' = "check" /\ UNCHANGED need
      BY <1>2, <2>1, <2>4, <2>6 DEF KeptUp
    <2> QED
      BY <1>10, <2>5, <2>6 DEF Launch
  <1>11. CASE Engine \/ UNCHANGED vars
    <2>1. UNCHANGED <<pc, aq, need, page>>
      BY <1>11 DEF Engine, vars
    <2> QED
      BY <2>1 DEF Stream, KeptUp
  <1>12. CASE Check
    <2>1. /\ pc = "check" /\ ~aq.ovr /\ Len(aq.fifo) <= CHUNK_WORDS + 1 /\ Good(aq) /\ need \in Nat
      BY <1>1, <1>12 DEF Check, KeptUp
    <2>2. Good(aq') /\ ~aq'.ovr /\ Len(aq'.fifo) <= CHUNK_WORDS + 1
      <3>1. CASE aq.frameOvr
        <4> DEFINE a == [aq EXCEPT !.frameOvr = FALSE]
        <4>1. PICK k \in 0 .. CHUNK_WORDS : aq' = Arrived(tuner_drain(a), k)
          BY <1>12, <3>1 DEF Check
        <4> DEFINE off == FALSE  none == <<>>
        <4>2. off \in BOOLEAN /\ none \in Seq(BOOLEAN) /\ a = [aq EXCEPT !.frameOvr = off]
          OBVIOUS
        <4> HIDE DEF a, off, none
        <4>3. Apart(aq, a) /\ a.fifo = aq.fifo /\ a.ovr = aq.ovr
          BY <1>1, <4>2, Reflagged
        <4>4. Good(a)
          BY <2>1, <4>3 DEF Good, Covered, Tracked, Apart
        <4> DEFINE b == tuner_drain(a)
        <4>5. Empty(b)
          BY <4>4, GoodDrained
        <4> HIDE DEF b
        <4>6. /\ Good(Arrived(b, k)) /\ ~Arrived(b, k).ovr
              /\ Len(Arrived(b, k).fifo) <= CHUNK_WORDS
          BY <4>5, EmptyArrived
        <4>7. aq' = Arrived(b, k)
          BY <4>1 DEF b
        <4>8. Len(aq'.fifo) \in Nat
          BY <4>6, <4>7, Typed DEF Good
        <4> QED
          BY <1>0, <4>6, <4>7, <4>8
      <3>2. CASE ~aq.frameOvr
        BY <1>12, <2>1, <3>2 DEF Check
      <3> QED
        BY <3>1, <3>2
    <2>3. CASE NewSlice
      BY <1>3, <2>2, <2>3
    <2>4. CASE pc' = "analyse" /\ UNCHANGED need
      BY <1>2, <2>1, <2>2, <2>4 DEF KeptUp
    <2> QED
      BY <1>12, <2>3, <2>4 DEF Check
  <1>13. CASE Analyse
    <2>1. pc = "analyse" /\ Good(aq) /\ need \in Nat /\ need' = need
      BY <1>1, <1>13 DEF Analyse, KeptUp
    <2>2. \E x, held, needle : Render(aq, x, held, needle, BOOLEAN)
      BY <1>13 DEF Analyse
    <2>3. Good(aq') /\ pc' = "flush" /\ page' = Pages
      BY <2>1, <2>2, RenderKeeps
    <2>4. KeptUp'
      BY <2>1, <2>3 DEF KeptUp
    <2> QED
      BY <1>2, <2>3, <2>4
  <1> QED
    BY <1>4, <1>5, <1>6, <1>7, <1>8, <1>9, <1>10, <1>11, <1>12, <1>13 DEF Next

-----------------------------------------------------------------------------
LEMMA InitInv == Init => TunerInv
  <1> SUFFICES ASSUME Init PROVE TunerInv
    OBVIOUS
  <1> USE DEF Init
  <1>0. /\ TUNER_N \in Nat \ {0} /\ TUNER_DECIM \in Nat \ {0} /\ TUNER_HOLD_FRAMES \in Nat
        /\ FIFO_DEPTH \in Nat
    BY TunerAssumption
  <1>1. FftType /\ PingPong
    BY DEF FftType, PingPong
  <1>2. Modes
    BY <1>0 DEF Modes
  <1>3. Flushed
    <2>1. {Pages[i] : i \in 1 .. Len(Pages)} = PageSet
      BY PendingOf DEF Pending
    <2>2. DOMAIN Blank = PageSet /\ Blank = [p \in PageSet |-> Blank[p]]
      BY <2>1 DEF Blank
    <2>3. hash = [p \in PageSet |-> UNPRIMED]
      BY <2>2
    <2>4. pc # "flush" /\ page = <<>> /\ quiet = -1 /\ fb = Blank /\ disp = Blank
      OBVIOUS
    <2> QED
      BY <2>2, <2>3, <2>4 DEF Flushed, Prefixes
  <1>4. Stream
    <2> DEFINE fresh == [i \in 1 .. TUNER_N |-> TRUE]
               none == <<>>
               no == FALSE
    <2>1. /\ fresh \in Seq(BOOLEAN) /\ Len(fresh) = TUNER_N
          /\ none \in Seq(BOOLEAN) /\ Len(none) = 0
      BY <1>0
    <2>2. no \in BOOLEAN /\ ~no
      OBVIOUS
    <2>3. aq = [fifo |-> none, lost |-> no, ovr |-> no, phase |-> 0, gap |-> no,
                ring |-> fresh, dirty |-> TUNER_N, frameOvr |-> no]
      OBVIOUS
    <2>4. pc = "probe" /\ need = TUNER_N
      OBVIOUS
    <2> HIDE DEF fresh, none, no, Init
    <2>5. aq \in Acquisition /\ Covered(aq) /\ Len(aq.fifo) = 0
      BY <1>0, <2>1, <2>2, <2>3 DEF Acquisition, Covered
    <2>6. KeptUp
      BY <1>0, <2>2, <2>3, <2>4 DEF KeptUp
    <2> QED
      BY <1>0, <2>4, <2>5, <2>6 DEF Stream
  <1> QED
    BY <1>1, <1>2, <1>3, <1>4 DEF TunerInv, PcValues

LEMMA PlaceStep ==
  ASSUME TunerInv, [Next]_vars
  PROVE  pc' \in PcValues
  <1> USE DEF TunerInv, PcValues
  <1>1. CASE MicProbe \/ Splashed \/ Pump
    BY <1>1 DEF MicProbe, Splashed, Pump
  <1>2. CASE Animate \/ FlushPage \/ FlushEnd
    BY <1>2 DEF Animate, Render, FlushPage, FlushEnd, NextSlice, NewSlice
  <1>3. CASE Launch \/ Engine \/ Check
    BY <1>3 DEF Launch, Engine, Check, NewSlice
  <1>4. CASE Analyse \/ UNCHANGED vars
    BY <1>4 DEF Analyse, Render, vars
  <1> QED
    BY <1>1, <1>2, <1>3, <1>4 DEF Next

\* The three developments together are inductive: the coprocessor's buffers, the
\* panel and the stream of samples are kept by every step of the loop.
THEOREM TunerInvariant == Spec => []TunerInv
  <1>1. TunerInv /\ [Next]_vars => TunerInv'
    BY PingPongStep, DisplayStep, StreamStep, PlaceStep DEF TunerInv
  <1> QED
    BY InitInv, <1>1, PTL DEF Spec

\* With the dirty count at zero no word is missing between two samples of the
\* ring, for every window, decimation and FIFO: an overrun is found by the drain
\* that follows it, or never while the loop waits for words (guitar_tuner.c:
\* tuner_drain, tuner_pump, tuner_push_input).
THEOREM WindowIsClean == Spec => []CleanWindow
  <1>1. TunerInv => CleanWindow
    <2> SUFFICES ASSUME TunerInv, aq.dirty = 0, NEW i \in 2 .. TUNER_N, aq.ring[i]
                 PROVE  FALSE
      BY DEF CleanWindow, Contiguous
    <2>1. i \in 1 .. TUNER_N /\ TUNER_N \in Nat
      BY TunerAssumption
    <2>2. i <= aq.dirty + 1
      BY <2>1 DEF TunerInv, Stream, Covered
    <2> QED
      BY <2>1, <2>2
  <1> QED
    BY <1>1, TunerInvariant, PTL

\* The spectrum analysed is the finished result of the launch before the last one
\* (guitar_tuner.c: the overlapped loop of main, fft.h: fft_wait, fft_start).
THEOREM SpectrumOneHopOld == Spec => []OneHopOld
  <1>1. TunerInv => OneHopOld
    BY DEF TunerInv, PingPong, OneHopOld
  <1> QED
    BY <1>1, TunerInvariant, PTL

\* After every flush the display memory shows the latest reading, live, held or
\* gone silent, although only pages whose hash differs are sent (guitar_tuner.c:
\* tuner_render, tuner_flush_display, and the hold count of main).
THEOREM ScreenIsCurrent == Spec => []ScreenShowsReading
  <1>1. TunerInv => ScreenShowsReading
    <2> SUFFICES ASSUME TunerInv, pc \in {"pump", "launch"}, quiet >= 0
                 PROVE  disp = Shown
      BY DEF ScreenShowsReading, Shown
    <2>1. page = <<>> /\ Pending(page) = {}
      BY PendingOf DEF TunerInv, Flushed
    <2>2. /\ fb = Shown /\ \A p \in PageSet : disp[p] = fb[p]
          /\ fb = [p \in PageSet |-> fb[p]] /\ disp = [p \in PageSet |-> disp[p]]
      BY <2>1 DEF TunerInv, Flushed
    <2>3. disp = fb
      BY <2>2
    <2> QED
      BY <2>2, <2>3
  <1> QED
    BY <1>1, TunerInvariant, PTL
=============================================================================
