------------------------------ MODULE MCKeyer ------------------------------
(***************************************************************************)
(* Instances of KeyerTimed for TLC.  One tick is 2 units and no duration   *)
(* of an element or gap is a multiple of it, so that every phase ends with *)
(* a residual.                                                             *)
(***************************************************************************)
EXTENDS KeyerTimed

Timing(dit, dash, lettergap, wordgap) ==
  [dur |-> [p \in Paddles |-> IF p = "dit" THEN dit ELSE dash],
   gap |-> [g \in TextGaps |-> CASE g = "ElementGap" -> dit
                                 [] g = "LetterGap" -> lettergap
                                 [] g = "WordGap" -> wordgap]]
Fast == Timing(3, 5, 5, 7)
Slow == Timing(5, 9, 7, 11)
Short == Timing(5, 7, 5, 5)

CfgOf(m, t, h, auto, rev) ==
  [mode |-> m, dur |-> t.dur, gap |-> t.gap, hang |-> h, pct |-> 33,
   auto_spacing |-> auto, keys_reversed |-> rev]
Plain(m, t) == CfgOf(m, t, 3, FALSE, FALSE)

EveryModeFast == {Plain(m, Fast) : m \in Modes}
                    \union {CfgOf("IambicA", Fast, 4, TRUE, TRUE)}
EveryMode == {Plain(m, Short) : m \in Modes}
Iambic == {Plain(m, Slow) : m \in IambicModes}
StraightAndIambic == {Plain(m, Slow) : m \in {"Straight", "IambicA"}}

OneElement == {<<"dit">>, <<"LetterGap">>}
OneLetter == {<<"dit", "ElementGap", "dash">>}
NoTexts == {}

\* The runs of these properties are within what their theorems suppose.
ASSUME Settings ==
  ~LiveModeChange =>
    IF Texts = {} THEN PaddlesOnly /\ NoLatchKept ELSE SteadyTiming
=============================================================================
