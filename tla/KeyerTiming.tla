----------------------------- MODULE KeyerTiming -----------------------------
(***************************************************************************)
(* The durations of a keyer configuration, in microseconds                 *)
(* (radio-utils-keyer/src/config.rs).  The code computes in f64 and        *)
(* truncates; here the same quotients are taken in integers.               *)
(***************************************************************************)
EXTENDS Integers, FiniteSetsExt

Byte == 0..255

\* The part of KeyerConfig they depend on.
KeyerConfig ==
  [speed_wpm : Byte, weight : Byte, farnsworth_wpm : Byte, keying_compensation_ms : Byte,
   dynamic_ratio : BOOLEAN, dynamic_ratio_low_wpm : Byte, dynamic_ratio_high_wpm : Byte]

dot_duration_us(c) == 1200000 \div Max({c.speed_wpm, 1})

\* From 3.0 at the low anchor down to 2.4 at the high one.
dynamic_dash(c) ==
  LET low == c.dynamic_ratio_low_wpm
      span == Max({c.dynamic_ratio_high_wpm, low + 1}) - low
      above == Min({c.speed_wpm - low, span})
  IN  (dot_duration_us(c) * (30 * span - 6 * above)) \div (10 * span)

dash_duration_us(c) ==
  IF c.dynamic_ratio /\ c.speed_wpm > c.dynamic_ratio_low_wpm
  THEN dynamic_dash(c)
  ELSE (dot_duration_us(c) * (50 + 2 * c.weight)) \div 50

effective(duration, c) == duration + c.keying_compensation_ms * 1000

\* The unit of the gaps between letters and words: stretched by Farnsworth
\* spacing, never below a dot.
farnsworth_gap_unit_us(c) ==
  IF c.farnsworth_wpm = 0 \/ c.farnsworth_wpm >= c.speed_wpm
  THEN dot_duration_us(c)
  ELSE Max({dot_duration_us(c),
            (1200000 * (50 * c.speed_wpm - 31 * c.farnsworth_wpm))
              \div (19 * c.farnsworth_wpm * c.speed_wpm)})

Duration(e, c) ==
  CASE e = "dit"        -> effective(dot_duration_us(c), c)
    [] e = "dash"       -> effective(dash_duration_us(c), c)
    [] e = "ElementGap" -> dot_duration_us(c)
    [] e = "LetterGap"  -> farnsworth_gap_unit_us(c) * 3
    [] e = "WordGap"    -> farnsworth_gap_unit_us(c) * 7
=============================================================================
