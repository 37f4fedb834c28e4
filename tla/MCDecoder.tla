------------------------------ MODULE MCDecoder ------------------------------
(***************************************************************************)
(* Instances of CwDecoder for TLC.                                         *)
(***************************************************************************)
EXTENDS CwDecoder

Speed(wpm) ==
  [speed_wpm |-> wpm, weight |-> 50, farnsworth_wpm |-> 0, keying_compensation_ms |-> 0,
   dynamic_ratio |-> FALSE, dynamic_ratio_low_wpm |-> 30, dynamic_ratio_high_wpm |-> 70]

SomeConfigs ==
  {Speed(28), [Speed(20) EXCEPT !.weight = 30], [Speed(20) EXCEPT !.farnsworth_wpm = 15],
   [Speed(60) EXCEPT !.dynamic_ratio = TRUE, !.keying_compensation_ms = 5]}

\* Every character of the table, and texts with several.
SomeTexts ==
  {<<c>> : c \in DOMAIN MORSE_TABLE}
    \union {<<"A", " ", "b">>, <<" ", "e", " ", " ", "T">>, <<"E", "#", "I", " ">>}

\* Six elements, and more than an accumulator holds, before a letter.
SomeHands ==
  {[i \in 1..(2 * n + 1) |-> IF i % 2 = 1 THEN "dit"
                             ELSE IF i = 2 * n THEN "LetterGap" ELSE "ElementGap"]
     : n \in {6, 8}}

\* Around the thresholds, and long after.
AtThresholds(dot) == {2 * dot - 1, 2 * dot, 6 * dot - 1, 6 * dot, 40 * dot}

OneTick == {-1000, 0, 1000}
=============================================================================
