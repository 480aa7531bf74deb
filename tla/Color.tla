------------------------------- MODULE Color -------------------------------
(***************************************************************************)
(* Blending colors (logic/compile.rs).  A color is RGB or a temperature,   *)
(* with an alpha; channels go from 0 to Full.  What the code computes with *)
(* floats is computed exactly, and rounded or truncated as the code does.  *)
(***************************************************************************)
EXTENDS Integers

CONSTANTS
  Full,            \* the greatest value of a channel (255)
  KelvinRgb(_),    \* the RGB channels of a temperature
  FallsShort       \* the float sum of weighted temperatures may be just below a whole one

RgbaOf(c, a) == [type |-> "color", kind |-> "rgba", c |-> c, a |-> a]
Rgba(r, g, b, a) == RgbaOf(<<r, g, b>>, a)
Ccta(k, a) == [type |-> "color", kind |-> "ccta", c |-> <<k>>, a |-> a]
Transparent == Rgba(0, 0, 0, 0)

\* The alpha of top over bottom, in units of 1/Full of a channel's unit.
AlphaOver(top, bottom) == top.a * Full + bottom.a * (Full - top.a)

Weighted(top, bottom, i) ==
  top.c[i] * top.a * Full + bottom.c[i] * bottom.a * (Full - top.a)

Round(n, d) == (2 * n + d) \div (2 * d)

\* kelvin_to_rgb
ToRgb(c) ==
  IF c.kind = "rgba" THEN c ELSE RgbaOf(KelvinRgb(c.c[1]), c.a)

\* blend_temps truncates.
BlendTemps(top, bottom) ==
  LET alpha == AlphaOver(top, bottom)
      whole == Weighted(top, bottom, 1) % alpha = 0
      short == IF FallsShort /\ whole /\ top.a \in 1..(Full - 1) /\ bottom.a > 0 THEN 1 ELSE 0
  IN  IF alpha = 0 THEN Ccta(bottom.c[1], 0)
      ELSE Ccta((Weighted(top, bottom, 1) \div alpha) - short, alpha \div Full)

\* Defect: the bottom is not weighted with what the top lets through.
BlendRgbaOpaque(top, bottom) ==
  LET alpha == AlphaOver(top, bottom)
  IN  IF alpha = 0 THEN Transparent
      ELSE RgbaOf([i \in 1..3 |-> Round(top.c[i] * top.a + bottom.c[i] * bottom.a, top.a + bottom.a)],
                  Round(alpha, Full))

\* blend_rgba rounds.
BlendRgba(top, bottom) ==
  LET alpha == AlphaOver(top, bottom)
  IN  IF alpha = 0 THEN Transparent
      ELSE RgbaOf([i \in 1..3 |-> Round(Weighted(top, bottom, i), alpha)], Round(alpha, Full))

\* One step of BLEND: two temperatures stay a temperature.
Over(top, bottom) ==
  IF top.kind = "ccta" /\ bottom.kind = "ccta" THEN BlendTemps(top, bottom)
  ELSE BlendRgba(ToRgb(top), ToRgb(bottom))

\* BRIGHTNESS in units of 1/(10 * Full), with the weights rounded to tenths.
Luma(c) ==
  IF c.kind = "ccta" THEN c.a * 10 * Full
  ELSE (2 * c.c[1] + 7 * c.c[2] + c.c[3]) * c.a
=============================================================================
