-------------------------------- MODULE Panel --------------------------------
(***************************************************************************)
(* ssd1306.h and ssd1306_text.h: drawing into the framebuffer, one byte    *)
(* for eight rows of a column.  Coordinates are unsigned words of COORD    *)
(* values; what is off the panel is dropped.                               *)
(***************************************************************************)
EXTENDS Integers, Sequences

CONSTANTS
  WIDTH, HEIGHT, COORD,
  GLYPH, FONT_W, FONT_H, CHAR_W   \* a glyph as its set of <<column, row>>, its cell
ASSUME PanelAssumption ==
  /\ WIDTH \in Nat \ {0} /\ HEIGHT \in Nat \ {0} /\ HEIGHT % 8 = 0
  /\ COORD \in Nat /\ WIDTH < COORD /\ HEIGHT < COORD
  /\ GLYPH \subseteq (0 .. FONT_W - 1) \X (0 .. FONT_H - 1) /\ FONT_W < CHAR_W

\* The bits set, as <<byte, bit>>.
ssd1306_pixel(x, y) ==
  IF x >= WIDTH \/ y >= HEIGHT THEN {} ELSE {<<(y \div 8) * WIDTH + x, y % 8>>}
Pixels(points) == UNION {ssd1306_pixel(p[1], p[2]) : p \in points}

\* for (x = x0; x <= x1; ++x) ends unless x1 is the largest word.
LoopEnds(last) == last # COORD - 1
ssd1306_hline(x0, x1, y) == Pixels({<<x, y>> : x \in x0 .. x1})
ssd1306_vline(x, y0, y1) == Pixels({<<x, y>> : y \in y0 .. y1})
\* Mutant: the far side is one too far.
RectOffByOne(x, y, w, h) ==
  IF w = 0 \/ h = 0 THEN {}
  ELSE ssd1306_hline(x, x + w - 1, y) \cup ssd1306_hline(x, x + w - 1, y + h)
       \cup ssd1306_vline(x, y, y + h - 1) \cup ssd1306_vline(x + w - 1, y, y + h - 1)
ssd1306_rect(x, y, w, h) ==
  IF w = 0 \/ h = 0 THEN {}
  ELSE ssd1306_hline(x, (x + w - 1) % COORD, y) \cup ssd1306_hline(x, (x + w - 1) % COORD, (y + h - 1) % COORD)
       \cup ssd1306_vline(x, y, (y + h - 1) % COORD) \cup ssd1306_vline((x + w - 1) % COORD, y, (y + h - 1) % COORD)
\* An empty rectangle at the left edge runs to the largest word: it never ends.
FillEnds(x, w, h) == h = 0 \/ LoopEnds((x + w - 1) % COORD)
ssd1306_fill_rect(x, y, w, h) ==
  UNION {ssd1306_hline(x, (x + w - 1) % COORD, (y + r) % COORD) : r \in 0 .. h - 1}

Size(v) == IF v < 0 THEN -v ELSE v
\* Bresenham, on signed coordinates.
ssd1306_line(x0, y0, x1, y1) ==
  LET dx == Size(x1 - x0)
      dy == Size(y1 - y0)
      sx == IF x0 < x1 THEN 1 ELSE -1
      sy == IF y0 < y1 THEN 1 ELSE -1
      from[x, y, err \in Int] ==
        {<<x, y>>} \cup
        IF x = x1 /\ y = y1 THEN {}
        ELSE LET goX == 2 * err > -dy
                 goY == 2 * err < dx
             IN  from[IF goX THEN x + sx ELSE x, IF goY THEN y + sy ELSE y,
                      err - (IF goX THEN dy ELSE 0) + (IF goY THEN dx ELSE 0)]
  IN  from[x0, y0, dx - dy]

ssd1306_char(x, y) == Pixels({<<x + g[1], y + g[2]>> : g \in GLYPH})
ssd1306_char_scaled(x, y, scale) ==
  IF scale <= 1 THEN ssd1306_char(x, y)
  ELSE Pixels({<<x + g[1] * scale + dx, y + g[2] * scale + dy>> :
                 g \in GLYPH, dx \in 0 .. scale - 1, dy \in 0 .. scale - 1})
\* The glyphs of a string and the x behind it.
ssd1306_text_scaled(x, y, n, scale0) ==
  LET scale == IF scale0 = 0 THEN 1 ELSE scale0
  IN  [set |-> UNION {ssd1306_char_scaled(x + i * CHAR_W * scale, y, scale) : i \in 0 .. n - 1},
       x |-> x + n * CHAR_W * scale]
ssd1306_text_width(n, scale) == n * CHAR_W * IF scale = 0 THEN 1 ELSE scale
-----------------------------------------------------------------------------
(* The gauge of guitar_tuner.c, in its own geometry on the panel of 128 columns. *)
SSD1306_WIDTH == 128
Gauge == [cx |-> 64, half |-> 56, span |-> 50, axis |-> 39, top |-> 32, bot |-> 47]
tuner_gauge_x(cents0) ==
  LET cents == IF cents0 > Gauge.span THEN Gauge.span ELSE IF cents0 < -Gauge.span THEN -Gauge.span ELSE cents0
      off == (Size(cents) * Gauge.half) \div Gauge.span
      x == Gauge.cx + IF cents < 0 THEN -off ELSE off
  IN  IF x < 1 THEN 1 ELSE IF x > SSD1306_WIDTH - 2 THEN SSD1306_WIDTH - 2 ELSE x
tuner_draw_needle(cents) == [x |-> tuner_gauge_x(cents) - 1, y |-> Gauge.top, w |-> 3, h |-> Gauge.bot - Gauge.top + 1]
tuner_draw_scale ==
  {[x |-> 6, y |-> Gauge.axis, w |-> SSD1306_WIDTH - 12, h |-> 1]} \cup
  {IF t = 0 THEN [x |-> tuner_gauge_x(t), y |-> Gauge.top, w |-> 1, h |-> Gauge.bot - Gauge.top + 1]
   ELSE [x |-> tuner_gauge_x(t), y |-> Gauge.axis - 4, w |-> 1, h |-> 9] : t \in {-50, -25, 0, 25, 50}}
tuner_banner(y, n) ==
  LET w == n * 6  x == (SSD1306_WIDTH - w) \div 2
  IN  [x |-> x - 2, y |-> y - 1, w |-> w + 3, h |-> 9]
-----------------------------------------------------------------------------
(* What is seen, and what should be.                                       *)
Seen(set) == {p \in (0 .. WIDTH - 1) \X (0 .. HEIGHT - 1) : <<(p[2] \div 8) * WIDTH + p[1], p[2] % 8>> \in set}
InBox(p, x, y, w, h) == p[1] \in x .. x + w - 1 /\ p[2] \in y .. y + h - 1
RectExact(x, y, w, h) ==
  /\ Seen(ssd1306_rect(x, y, w, h)) =
       {p \in (0 .. WIDTH - 1) \X (0 .. HEIGHT - 1) :
          InBox(p, x, y, w, h) /\ ~InBox(p, x + 1, y + 1, w - 2, h - 2)}
  /\ FillEnds(x, w, h) =>
       Seen(ssd1306_fill_rect(x, y, w, h)) =
         {p \in (0 .. WIDTH - 1) \X (0 .. HEIGHT - 1) : InBox(p, x, y, w, h)}
\* The needle and the scale stay on the panel and in the two pages the gauge has for itself; the
\* needle follows the cents, over the tick of its value, in the middle only close to a true note.
OnGauge(b) == b.x >= 0 /\ b.x + b.w <= SSD1306_WIDTH /\ b.y >= 32 /\ b.y + b.h <= 48
GaugeExact(c) ==
  /\ OnGauge(tuner_draw_needle(c)) /\ \A b \in tuner_draw_scale : OnGauge(b)
  /\ tuner_gauge_x(c) <= tuner_gauge_x(c + 1) /\ tuner_gauge_x(c) + tuner_gauge_x(-c) = 2 * Gauge.cx
  /\ c \in -Gauge.span .. Gauge.span => Size((tuner_gauge_x(c) - Gauge.cx) * Gauge.span - c * Gauge.half) < Gauge.span
  /\ c \in {-50, -25, 0, 25, 50} => \E b \in tuner_draw_scale : b.x = tuner_draw_needle(c).x + 1
\* The inverted bar of a text of n characters is centred on the panel, around the text.
BannerExact(y, n) ==
  LET b == tuner_banner(y, n)
  IN  b.x >= 0 /\ b.x + b.w <= SSD1306_WIDTH /\ b.y >= 0 /\ 2 * b.x + b.w + 1 \in SSD1306_WIDTH - 1 .. SSD1306_WIDTH + 1
\* As many points as the longer side has, each within half a step of the line; those on the panel are seen.
LineExact(x0, y0, x1, y1) ==
  LET points == ssd1306_line(x0, y0, x1, y1)
      dx == x1 - x0  dy == y1 - y0
      long == IF Size(dx) > Size(dy) THEN Size(dx) ELSE Size(dy)
      along(p) == IF Size(dx) > Size(dy) THEN p[1] ELSE p[2]
  IN  /\ {<<x0, y0>>, <<x1, y1>>} \subseteq points
      /\ \A p \in points : 2 * Size((p[2] - y0) * dx - (p[1] - x0) * dy) <= long
      /\ \A p, q \in points : p # q => along(p) # along(q)
      /\ \A a \in {along(p) : p \in points} : along(<<x1, y1>>) = a \/ \E p \in points : Size(along(p) - a) = 1
      /\ Seen(Pixels({<<p[1] % COORD, p[2] % COORD>> : p \in points})) =
           points \cap ((0 .. WIDTH - 1) \X (0 .. HEIGHT - 1))
\* Scaling turns each point of the glyph into a block, and glyphs do not touch.
TextExact(x, y, n, scale) ==
  LET t == ssd1306_text_scaled(x, y, n, scale)
      s == IF scale = 0 THEN 1 ELSE scale
  IN  /\ t.x = x + ssd1306_text_width(n, scale)
      /\ Seen(t.set) =
           {p \in (0 .. WIDTH - 1) \X (0 .. HEIGHT - 1) :
              /\ p[1] >= x /\ p[2] >= y /\ (p[1] - x) \div (CHAR_W * s) < n
              /\ <<((p[1] - x) % (CHAR_W * s)) \div s, (p[2] - y) \div s>> \in GLYPH}
=============================================================================
