------------------------------- MODULE MCPure -------------------------------
(* The parts without state of their own: the firmware's arithmetic, pitch estimate and drawing     *)
(* over their cases.                                                                               *)
EXTENDS SoftMath, Panel

MCGlyph == {<<0, 0>>, <<1, 1>>, <<1, 2>>, <<2, 0>>}

VARIABLE inputs    \* the inputs of one computation
None == [kind |-> "none"]

Doubles == -(DOUBLE \div 2) .. DOUBLE \div 2 - 1
Edges == {0, 1, 2, 4, 5, 6, 12}
Cases ==
  [kind : {"long"}, a : Doubles, b : Doubles]
  \cup [kind : {"bin"}, fs : 0 .. DOUBLE - 1, n : {2, 4, 8}]
  \cup [kind : {"kq8"}, v : {36 * 256 + 7 * i : i \in 0 .. 6790}]
  \cup [kind : {"byte"}, v : 0 .. 255]
  \cup [kind : {"rate"}, fs : {0, 8000, 15625, 16000, 22050, 44100, 48000, 390625}, slot : {0, 16, 17, 24, 32, 64}]
  \cup [kind : {"time"}, sec : {0, 59, 60}, min : {9, 10, 60}, hour : {0, 12, 19, 20, 23, 24}, dow : {0, 6, 7},
        date : {0, 1, 10, 31, 32}, month : {0, 1, 9, 12, 13}, year : {0, 99, 100}]
  \cup [kind : {"digits"}, v : -120 .. 1200, width : 0 .. 4]
  \cup [kind : {"cic"}, xs : [1 .. 9 -> {-2, 1}]]
  \cup [kind : {"mag"}, re : -33 .. 40, im : {-37, -8, 0, 1, 5, 19, 40}]
  \cup [kind : {"string"}, f : {4, 5, 6, 7, 9}, dev : {-1, 0, 1}, a1 : {0, 12, 18, 24, 80}, a2 : {0, 18, 80, 100},
        a3 : {0, 24, 80}, noise : {0, 3, 9}]
  \cup [kind : {"note"}, f : {7400 + 13 * i : i \in 0 .. 2600}]
  \cup [kind : {"box"}, x : Edges, y : {0, 3, 7, 8, 15, 20}, w : 0 .. 4, h : {0, 1, 2, 3, 9}]
  \cup [kind : {"cents"}, c : -60 .. 60] \cup [kind : {"banner"}, y : {20, 36, 56}, n : 0 .. 20]
  \cup [kind : {"line"}, x0 : {-2, 0, 3, 5}, y0 : {-3, 0, 9, 15}, x1 : {-1, 0, 2, 5, 8}, y1 : {-3, 0, 4, 9, 17}]
  \cup [kind : {"text"}, x : {0, 1, 4}, y : {0, 6, 13}, n : 0 .. 2, scale : 0 .. 3]

\* From the spectrum to the reading.
tuner_analyse(mag) ==
  LET k == tuner_find_fundamental(mag)
      f == tuner_kq8_to_cHz(k * 256 + tuner_interp_q8(mag, k))
  IN  IF k = -1 THEN [valid |-> FALSE, f_cHz |-> 0, of |-> [note |-> 1, cents |-> 0]]
      ELSE [valid |-> TRUE, f_cHz |-> f, of |-> tuner_note_of(f)]
\* What is read is within half a bin of a bin whose level passes the floor, and named after it.
AnalyseExact(mag) ==
  LET r == tuner_analyse(mag)
  IN  r.valid =>
        /\ \E k \in Band : mag[k] >= FLOOR \div 10 /\ r.f_cHz \in tuner_kq8_to_cHz(256 * k - 128) .. tuner_kq8_to_cHz(256 * k + 128)
        /\ NoteExact(r.f_cHz)

\* The substitutes for what the core and the missing libgcc do not have are exact: the 64-bit
\* product and quotient from words, the quotients that avoid a product, digits, BCD, the rate the
\* I2S dividers produce, and a decimator whose integrators overflow.
ArithmeticExact ==
  LET c == inputs
  IN  CASE c.kind = "long"   -> LongExact(c.a, c.b)
        [] c.kind = "bin"    -> \A k \in 0 .. c.n - 1 : BinExact(k, c.fs, c.n)
        [] c.kind = "kq8"    -> CHzExact(c.v)
        [] c.kind = "byte"   -> (c.v < 100 => BcdExact(c.v)) /\ \A r1 \in {0, 64, 128, 192} : TempExact(c.v, r1)
        [] c.kind = "time"   -> TimeExact([f \in DOMAIN c \ {"kind"} |-> c[f]])
        [] c.kind = "rate"   -> RateExact(c.fs, c.slot)
        [] c.kind = "digits" -> DigitsExact(c.v, c.width) /\ IntExact(c.v, c.width)
        [] c.kind = "cic"    -> CicExact(c.xs)
        [] OTHER -> TRUE
\* A note is read as its fundamental, also when a harmonic is louder, and never as a bin where the
\* string has no partial while noise stays under a quarter of it; the position is off the bin toward the louder neighbour, the note the
\* nearest one.
PitchIsFundamental ==
  LET c == inputs
  IN  CASE c.kind = "mag"    -> MagnitudeExact(c.re, c.im)
        [] c.kind = "string" -> FoundExact(c) /\ AnalyseExact(Spectra(c))
        [] c.kind = "note"   -> NoteExact(c.f)
        [] OTHER -> TRUE
\* What is seen on the panel is the shape, clipped: nothing lands in another page or column.
DrawsTheShape ==
  LET c == inputs
  IN  CASE c.kind = "box"  -> RectExact(c.x, c.y, c.w, c.h)
        [] c.kind = "cents" -> GaugeExact(c.c)
        [] c.kind = "banner" -> BannerExact(c.y, c.n)
        [] c.kind = "line" -> LineExact(c.x0, c.y0, c.x1, c.y1)
        [] c.kind = "text" -> TextExact(c.x, c.y, c.n, c.scale)
        [] OTHER -> TRUE
=============================================================================
