------------------------------ MODULE SoftMath ------------------------------
(***************************************************************************)
(* The firmware's integer arithmetic, on a core without a 64-bit divide, a *)
(* float or a libgcc: bmp280.h, fft.h, ds3231.h, i2s.h, ee_printf.c,       *)
(* ssd1306_text.h and the decimator of guitar_tuner.c.  Words are scaled:  *)
(* HALF bits stand for the 32 of an unsigned int.                          *)
(*                                                                         *)
(* And from a spectrum to a note: fft.h's and guitar_tuner.c's magnitude,  *)
(* the choice of the fundamental, the interpolation and the nearest note.  *)
(* Magnitudes and ratios are the real ones, the search band is shorter.    *)
(***************************************************************************)
EXTENDS Integers, Sequences

CONSTANTS
  HALF,        \* bits of a word; a double word has twice as many
  BUF,         \* digits of the conversion buffers
  R, ACC       \* the decimator's rate and the bits of its accumulators
ASSUME MathAssumption == HALF \in Nat \ {0} /\ BUF \in Nat \ {0} /\ R \in Nat \ {0} /\ ACC \in Nat \ {0}

UNIT == 2^HALF
DOUBLE == 2^(2 * HALF)
Abs(v) == IF v < 0 THEN -v ELSE v
\* v as a two's complement number of so many bits
Wrap(v, bits) == ((v + 2^(bits - 1)) % 2^bits) - 2^(bits - 1)
S64(v) == Wrap(v, 2 * HALF)
-----------------------------------------------------------------------------
(* bmp280.h: 64-bit products from 32-bit halves, and shift-subtract.       *)
\* Mutant: the carry of the middle products is lost.
MulWithoutCarry(a, b) ==
  LET a0 == a % UNIT  a1 == a \div UNIT  b0 == b % UNIT  b1 == b \div UNIT
  IN  (a0 * b0 + ((a0 * b1 + a1 * b0) % UNIT)) % DOUBLE
bmp_u64_mul(a, b) ==
  LET a0 == a % UNIT  a1 == a \div UNIT  b0 == b % UNIT  b1 == b \div UNIT
  IN  (a0 * b0 + (a0 * b1 + a1 * b0) * UNIT) % DOUBLE

bmp_u64_div(n, d) ==
  LET after[i \in 0 .. 2 * HALF] ==
        IF i = 2 * HALF THEN [q |-> 0, r |-> 0]
        ELSE LET p == after[i + 1]
                 r == (2 * p.r + ((n \div 2^i) % 2)) % DOUBLE
             IN  IF r >= d THEN [q |-> p.q + 2^i, r |-> r - d] ELSE [q |-> p.q, r |-> r]
  IN  after[0].q

\* The magnitude, without the overflow of the minimum; the sign is put back on the result.
Magnitude(a) == IF a < 0 THEN (-(a + 1)) + 1 ELSE a
Signed(a, b, u) == IF (a < 0) # (b < 0) THEN S64(-S64(u)) ELSE S64(u)
bmp_s64_mul(a, b) == Signed(a, b, bmp_u64_mul(Magnitude(a), Magnitude(b)))
bmp_s64_div(a, b) == Signed(a, b, bmp_u64_div(Magnitude(a), Magnitude(b)))

\* Toward zero, whatever the signs.
Quotient(a, b) == IF (a < 0) # (b < 0) THEN -(Abs(a) \div Abs(b)) ELSE Abs(a) \div Abs(b)
LongExact(a, b) ==
  /\ bmp_s64_mul(a, b) = S64(a * b)
  /\ b # 0 => bmp_s64_div(a, b) = S64(Quotient(a, b))
-----------------------------------------------------------------------------
(* fft.h: k * fs / n without the product, in a word (here of 2 * HALF bits, as n * n must fit). *)
fft_bin_hz(k, fs, n) == ((((fs \div n) * k) % DOUBLE) + ((((fs % n) * k) % DOUBLE) \div n)) % DOUBLE
BinExact(k, fs, n) == fft_bin_hz(k, fs, n) = (k * fs) \div n

(* guitar_tuner.c: a position in 1/256 of a bin to centi-Hz, the real constants. *)
TUNER_CHZ_NUM == 390625
TUNER_CHZ_SHIFT == 19
tuner_kq8_to_cHz(kq8) ==
  LET sh == TUNER_CHZ_SHIFT - 6
  IN  (((kq8 \div 64) * TUNER_CHZ_NUM + 2^(sh - 1)) \div 2^sh)
      + (((kq8 % 64) * TUNER_CHZ_NUM + 2^(TUNER_CHZ_SHIFT - 1)) \div 2^TUNER_CHZ_SHIFT)
\* kq8 * 390625 / 2^19, rounded down: 390625 = 381 * 1024 + 481
WholeCHz(kq8) == (kq8 * 381 + ((kq8 * 481) \div 1024)) \div 512
CHzExact(kq8) == tuner_kq8_to_cHz(kq8) - WholeCHz(kq8) \in {-1, 0, 1}

(* ds3231.h *)
ds3231_bcd2bin(b) == (b % 16) + 10 * (b \div 16)
ds3231_bin2bcd(v) == (v \div 10) * 16 + (v % 10)
ds3231_get_temp_x4(r0, r1) == (IF r0 >= 128 THEN r0 - 256 ELSE r0) * 4 + (r1 \div 64)
BcdExact(v) == /\ ds3231_bcd2bin(ds3231_bin2bcd(v)) = v
               /\ ds3231_bin2bcd(v) % 16 < 10 /\ ds3231_bin2bcd(v) < 160
\* The seven time registers; a field out of range leaves the chip alone.
ds3231_set_time(t) ==
  IF t.sec > 59 \/ t.min > 59 \/ t.hour > 23 \/ t.dow > 6 \/ t.date \notin 1 .. 31 \/ t.month \notin 1 .. 12 \/ t.year > 99
  THEN <<>>
  ELSE <<ds3231_bin2bcd(t.sec), ds3231_bin2bcd(t.min), ds3231_bin2bcd(t.hour), t.dow + 1,
         ds3231_bin2bcd(t.date), ds3231_bin2bcd(t.month), ds3231_bin2bcd(t.year)>>
ds3231_get_time(r) ==
  [sec |-> ds3231_bcd2bin(r[1]), min |-> ds3231_bcd2bin(r[2]), hour |-> ds3231_bcd2bin(r[3] % 64),
   dow |-> IF r[4] = 0 THEN 0 ELSE r[4] - 1, date |-> ds3231_bcd2bin(r[5]),
   month |-> ds3231_bcd2bin(r[6] % 32), year |-> ds3231_bcd2bin(r[7])]
\* A time that is set is read back, and sets no flag: 24 hours, this century.
TimeExact(t) ==
  LET r == ds3231_set_time(t)
  IN  r # <<>> => /\ ds3231_get_time(r) = t /\ r[1] < 128 /\ r[3] < 64 /\ r[4] \in 1 .. 7 /\ r[6] < 32
\* The registers are a fixed-point number of ten bits.
TempExact(r0, r1) == ds3231_get_temp_x4(r0, r1) = Wrap(r0 * 4 + (r1 \div 64), 10)

(* i2s.h, the real core clock: the rate returned is the one the dividers produce, and the closest  *)
(* that is not below the one asked for, as long as the divider fits its register.                  *)
I2S_CORE_HZ == 50000000
i2s_master_rate(fs, slot0) ==
  LET per  == 4 * slot0 * fs
      slot == IF slot0 = 0 THEN 32 ELSE slot0
      div  == IF per = 0 \/ I2S_CORE_HZ \div per = 0 THEN 0 ELSE (I2S_CORE_HZ \div per) - 1
  IN  [slot |-> slot % 256, div |-> div % 65536, hz |-> I2S_CORE_HZ \div (4 * slot * (div + 1))]
Produced(slot, div) == I2S_CORE_HZ \div (4 * slot * (div + 1))
RateExact(fs, slot) ==
  LET m == i2s_master_rate(fs, slot)
  IN  /\ m.hz = Produced(m.slot, m.div)
      /\ slot # 0 /\ fs \in 1 .. Produced(slot, 0) => m.hz >= fs /\ Produced(m.slot, m.div + 1) <= fs
-----------------------------------------------------------------------------
(* Numbers as digits, least significant first, and back.                   *)
Digits(v) == LET d[n \in Nat] == IF n < 10 THEN <<n>> ELSE <<n % 10>> \o d[n \div 10] IN d[v]
Value(s) == LET n[i \in 0 .. Len(s)] == IF i = 0 THEN 0 ELSE 10 * n[i - 1] + s[i] IN n[Len(s)]
Backwards(s) == [i \in 1 .. Len(s) |-> s[Len(s) + 1 - i]]
Zeros(n) == [i \in 1 .. n |-> 0]

\* ee_printf.c: put_dec, zero-padded; what is printed is [minus, digits].
put_dec(v, width) ==
  LET d == Digits(Abs(v))
      w == IF width < BUF THEN width ELSE BUF
  IN  [minus |-> v < 0, digits |-> Backwards(d \o Zeros(IF w > Len(d) THEN w - Len(d) ELSE 0))]
\* guitar_tuner.c: centi-Hz as whole, point, two digits
tuner_put_chz(v) == <<Backwards(Digits(v \div 100)), <<(v \div 10) % 10, v % 10>>>>
\* ssd1306_text.h: v / 10^frac; the sign is that of the whole part
ssd1306_fixed(v, frac) ==
  LET div   == 10^frac
      whole == IF v < 0 THEN -((-v) \div div) ELSE v \div div
      rest  == Abs(v - whole * div)
  IN  [minus |-> whole < 0, whole |-> Backwards(Digits(Abs(whole))),
       rest |-> [i \in 1 .. frac |-> (rest \div 10^(frac - i)) % 10]]
\* and v right-aligned in cells
MINUS == 10
BLANK == 11
ssd1306_int(v, width) ==
  LET n == Digits(Abs(v)) \o (IF v < 0 THEN <<MINUS>> ELSE <<>>)
  IN  Backwards(n \o [i \in 1 .. (IF width > Len(n) THEN width - Len(n) ELSE 0) |-> BLANK])
IntExact(v, width) ==
  LET cells == ssd1306_int(v, width)
      d     == SelectSeq(cells, LAMBDA c : c < MINUS)
      fill  == Len(cells) - Len(d) - (IF v < 0 THEN 1 ELSE 0)
  IN  /\ Value(d) = Abs(v) /\ Len(cells) >= width /\ (fill > 0 => Len(cells) = width)
      /\ cells = [i \in 1 .. fill |-> BLANK] \o (IF v < 0 THEN <<MINUS>> ELSE <<>>) \o d
DigitsExact(v, width) ==
  LET p == put_dec(v, width)
      f == ssd1306_fixed(v, width)
  IN  /\ Value(p.digits) = Abs(v) /\ p.minus = (v < 0) /\ (width <= BUF => Len(p.digits) >= width)
      /\ v >= 0 => Value(tuner_put_chz(v)[1] \o tuner_put_chz(v)[2]) = v
      /\ Value(f.whole \o f.rest) = Abs(v) /\ Len(f.rest) = width
      /\ Abs(v) >= 10^width => f.minus = (v < 0)    \* between -1 and 0 the sign is lost
-----------------------------------------------------------------------------
(* The decimator: two integrators that wrap, a downsample, two combs, and  *)
(* the shift that tuner_set_decim keeps in step with the rate.             *)
\* tuner_set_decim: two bits of shift for each halving of the rate
cic_shift(r) == LET s[n \in Nat] == IF n <= 1 THEN 0 ELSE 2 + s[n \div 2] IN s[r]
Cic0 == [i1 |-> 0, i2 |-> 0, d1 |-> 0, d2 |-> 0, phase |-> 0, out |-> <<>>]
CicPush(c, x) ==
  LET i1 == Wrap(c.i1 + x, ACC)
      i2 == Wrap(c.i2 + i1, ACC)
      c1 == Wrap(i2 - c.d1, ACC)
      c2 == Wrap(c1 - c.d2, ACC)
  IN  IF c.phase + 1 < R THEN [c EXCEPT !.i1 = i1, !.i2 = i2, !.phase = @ + 1]
      ELSE [i1 |-> i1, i2 |-> i2, d1 |-> i2, d2 |-> c1, phase |-> 0,
            out |-> Append(c.out, c2 \div 2^cic_shift(R))]
Decimated(xs) ==
  LET c[n \in 0 .. Len(xs)] == IF n = 0 THEN Cic0 ELSE CicPush(c[n - 1], xs[n]) IN c[Len(xs)].out

\* Two moving sums of R samples, of which every R-th is kept.
MovingSum(xs) ==
  [n \in 1 .. Len(xs) |->
    LET s[k \in 0 .. R] == IF k = 0 THEN 0 ELSE s[k - 1] + (IF n >= k THEN xs[n - k + 1] ELSE 0) IN s[R]]
CicExact(xs) ==
  LET sums == MovingSum(MovingSum(xs))
  IN  Decimated(xs) = [j \in 1 .. Len(xs) \div R |-> sums[j * R] \div R^2]
-----------------------------------------------------------------------------
(* The pitch. *)
CONSTANTS KMIN, KMAX, FLOOR
ASSUME PitchAssumption == KMIN \in Nat \ {0} /\ KMAX \in Nat /\ KMIN < KMAX /\ FLOOR \in Nat

PEAK_FRACTION == 4
SNR_RATIO == 4
SUB_FRACTION == 10
Lowest(S) == CHOOSE k \in S : \A j \in S : k <= j

\* max + 3/8 min, of one word of the DATA page
fft_mag(re, im) ==
  LET hi == IF Abs(re) > Abs(im) THEN Abs(re) ELSE Abs(im)
      lo == IF Abs(re) > Abs(im) THEN Abs(im) ELSE Abs(re)
  IN  hi + ((3 * lo) \div 8)
\* "at most 6.8%", and one for the division
MagnitudeExact(re, im) ==
  LET p == re * re + im * im  m == fft_mag(re, im)
  IN  m * m * 10000 <= 11406 * p /\ (m + 1) * (m + 1) * 10000 >= 8686 * p

Band == KMIN .. KMAX
Mean(mag) ==
  LET s[k \in KMIN - 1 .. KMAX] == IF k < KMIN THEN 0 ELSE s[k - 1] + mag[k]
  IN  s[KMAX] \div (KMAX - KMIN + 1)
LocalMax(mag, k) == KMIN < k /\ k < KMAX /\ mag[k] > mag[k - 1] /\ mag[k] >= mag[k + 1]
Highest(S) == CHOOSE v \in S : \A w \in S : w <= v
Peak(mag) == Highest({mag[k] : k \in Band})
Loudest(mag) == LET max == Peak(mag) IN Lowest({k \in Band : mag[k] = max})
Reaching(mag, least) == {k \in Band : mag[k] >= least /\ LocalMax(mag, k)}

\* Mutant: half of the bin is taken without the margin over the noise.
RescueWithoutMargin(mag, best, max, mean) ==
  IF best \div 2 <= KMIN THEN {}
  ELSE Reaching(mag, max \div SUB_FRACTION) \cap ((best \div 2) - 1 .. (best \div 2) + 1)
\* A weak fundamental below the bin chosen.
Rescue(mag, best, max, mean) ==
  IF best \div 2 <= KMIN THEN {}
  ELSE {k \in Reaching(mag, max \div SUB_FRACTION) \cap ((best \div 2) - 1 .. (best \div 2) + 1) :
          mag[k] > SNR_RATIO * mean}

tuner_find_fundamental(mag) ==
  LET max  == Peak(mag)
      mean == Mean(mag)
      scan == Reaching(mag, max \div PEAK_FRACTION)
      sub  == Rescue(mag, Lowest(scan), max, mean)
  IN  IF max < FLOOR \/ max < SNR_RATIO * mean THEN -1
      ELSE IF scan = {} THEN Loudest(mag)
      ELSE IF sub # {} THEN Lowest(sub) ELSE Lowest(scan)

\* The division is C's, toward zero.
tuner_interp_q8(mag, k) ==
  LET a == mag[k - 1]  b == mag[k]  c == mag[k + 1]
      d == Quotient((a - c) * 128, a - 2 * b + c)
  IN  IF a - 2 * b + c = 0 THEN 0 ELSE IF d > 128 THEN 128 ELSE IF d < -128 THEN -128 ELSE d

\* A string: partials at f, near 2f and at 3f, each leaking half into its neighbours, over noise.
Spectra(s) ==
  LET amp(p, k) == IF k = p.at THEN p.a ELSE IF Abs(k - p.at) = 1 THEN p.a \div 2 ELSE 0
      parts == {[at |-> s.f, a |-> s.a1], [at |-> 2 * s.f + s.dev, a |-> s.a2], [at |-> 3 * s.f, a |-> s.a3]}
      noise(k) == IF k % 3 = 0 THEN s.noise ELSE 0
      at(k) == {noise(k)} \cup {amp(p, k) : p \in parts}
  IN  [k \in 0 .. KMAX + 1 |-> Highest(at(k))]
FoundExact(s) ==
  LET mag  == Spectra(s)
      k    == tuner_find_fundamental(mag)
      max  == Peak(mag)
      mean == Mean(mag)
      real == (IF s.a1 > 0 THEN {s.f} ELSE {}) \cup (IF s.a2 > 0 THEN {2 * s.f + s.dev} ELSE {})
              \cup (IF s.a3 > 0 THEN {3 * s.f} ELSE {})
      d    == tuner_interp_q8(mag, k)
      most == s.a1 >= max \div PEAK_FRACTION
      \* the rescue only looks below a bin whose half is above KMIN
      weak == /\ s.a2 >= max \div PEAK_FRACTION /\ s.a1 >= max \div SUB_FRACTION /\ s.a1 > SNR_RATIO * mean
              /\ (2 * s.f + s.dev) \div 2 > KMIN
  IN  IF k = -1 THEN max < FLOOR \/ max < SNR_RATIO * mean
      ELSE /\ s.noise < max \div PEAK_FRACTION => k \in real /\ (s.f > KMIN /\ (most \/ weak) => k = s.f)
           /\ d \in -128 .. 128 /\ (d > 0 => mag[k + 1] > mag[k - 1]) /\ (d < 0 => mag[k + 1] < mag[k - 1])
-----------------------------------------------------------------------------
\* D2 to G#4 in centi-Hz.
tuner_notes == 
  <<7342, 7778, 8241, 8731, 9250, 9800, 10383, 11000, 11654, 12347, 13081, 13859, 14683, 15556, 16481, 17461,
    18500, 19600, 20765, 22000, 23308, 24694, 26163, 27718, 29366, 31113, 32963, 34923, 36999, 39200, 41530>>
Cents(f, i) == Quotient(1731 * (f - tuner_notes[i]), tuner_notes[i])
tuner_note_of(f) ==
  LET i == Lowest({n \in DOMAIN tuner_notes : \A m \in DOMAIN tuner_notes : Abs(Cents(f, n)) <= Abs(Cents(f, m))})
  IN  [note |-> i, cents |-> Cents(f, i)]
\* The note is the nearest on the scale of ratios: f is not past the geometric mean with either
\* neighbour by more than a cent, and the sign of the cents is the side.
NoteExact(f) ==
  LET r == tuner_note_of(f)
      f0 == tuner_notes[r.note]
      mean(i) == tuner_notes[i] * tuner_notes[i + 1]
  IN  /\ r.note < Len(tuner_notes) => f * f - mean(r.note) <= mean(r.note) \div 800
      /\ r.note > 1 => mean(r.note - 1) - f * f <= mean(r.note - 1) \div 800
      /\ (r.cents > 0 => f > f0) /\ (r.cents < 0 => f < f0)
=============================================================================
