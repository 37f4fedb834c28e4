------------------------------ MODULE CwDecoder ------------------------------
(***************************************************************************)
(* The streaming Morse decoder (radio-utils-cw-decoder/src/lib.rs),        *)
(* listening to a keyer that sends a text, or elements keyed by hand, with *)
(* the durations of its configuration.  The host polls the decoder at any  *)
(* moment, and may clear it once.                                          *)
(*                                                                         *)
(* Only the time since the last transition matters to the decoder; it is   *)
(* an argument of its operations.  Durations are off by as much as the     *)
(* keyer's tick.                                                           *)
(***************************************************************************)
EXTENDS Morse, KeyerTiming

CONSTANTS
  Configs,            \* configurations of the keyer; the decoder knows the speed
  Texts,              \* texts to send
  Hands,              \* sequences of elements keyed by hand
  Jitter,             \* what a duration may be off by
  Moments(_),         \* how long after a mark the host polls, for a dit
  HISTORY_CAPACITY

Marks == {"dit", "dash"}
Elements == Marks \union {"ElementGap", "LetterGap", "WordGap"}

\* The gaps of an element and of a letter are between two marks; only the gap
\* of a word is left at the end, or may be repeated.
Spaced(els) ==
  \A i \in DOMAIN els :
    els[i] \in {"ElementGap", "LetterGap"}
      => i > 1 /\ els[i - 1] \in Marks /\ (i < Len(els) => els[i + 1] \in Marks)

ASSUME DecoderAssumption ==
  /\ Configs \subseteq KeyerConfig
  /\ Texts \subseteq Seq(STRING)
  /\ \A els \in Hands : els \in Seq(Elements) /\ Spaced(els)
  /\ Jitter \subseteq Int /\ 0 \in Jitter
  /\ \A c \in Configs : Moments(dot_duration_us(c)) \subseteq Nat
  /\ HISTORY_CAPACITY \in Nat \ {0}

VARIABLES
  \* The sender.
  cfg, text, elements,
  pos,            \* the element on the air, or the last one that was
  keyed,          \* is the line down?
  since,          \* how long the line was up when the decoder last looked
  cleared,        \* the element the decoder was cleared after, or in; -1: it was not
  \* The decoder.
  dstate, accum, space_emitted, history

senderVars == <<cfg, text, elements>>
decoderVars == <<dstate, accum, space_emitted, history>>
cwVars == <<senderVars, pos, keyed, since, cleared, decoderVars>>

dit == 1200000 \div Max({cfg.speed_wpm, 1})

LOOKUP ==
  2 :> "E" @@ 3 :> "T" @@ 4 :> "I" @@ 5 :> "A" @@ 6 :> "N" @@ 7 :> "M" @@ 8 :> "S" @@
  9 :> "U" @@ 10 :> "R" @@ 11 :> "W" @@ 12 :> "D" @@ 13 :> "K" @@ 14 :> "G" @@
  15 :> "O" @@ 16 :> "H" @@ 17 :> "V" @@ 18 :> "F" @@ 20 :> "L" @@ 22 :> "P" @@
  23 :> "J" @@ 24 :> "B" @@ 25 :> "X" @@ 26 :> "C" @@ 27 :> "Y" @@ 28 :> "Z" @@
  29 :> "Q" @@ 32 :> "5" @@ 33 :> "4" @@ 35 :> "3" @@ 39 :> "2" @@ 47 :> "1" @@
  48 :> "6" @@ 56 :> "7" @@ 60 :> "8" @@ 62 :> "9" @@ 63 :> "0" @@ 49 :> "=" @@
  50 :> "/" @@ 76 :> "?" @@ 85 :> "." @@ 115 :> ","

-----------------------------------------------------------------------------
(* The decoder; d is a record of its fields.                               *)

PushChar(h, ch) ==
  Append(IF Len(h) = HISTORY_CAPACITY THEN Tail(h) ELSE h, ch)

ProcessPulse(d, pulse) ==
  CASE d.accum = 0    -> d
    [] d.accum >= 128 -> [d EXCEPT !.accum = 0]
    [] OTHER -> [d EXCEPT !.accum = 2 * @ + (IF pulse >= 2 * dit THEN 1 ELSE 0)]

EmitPendingChar(d) ==
  [d EXCEPT !.accum = 1,
            !.history = IF d.accum \in 2..127 /\ d.accum \in DOMAIN LOOKUP
                        THEN PushChar(@, LOOKUP[d.accum]) ELSE @]

EmitSpace(d) ==
  IF d.space_emitted THEN d
  ELSE [d EXCEPT !.space_emitted = TRUE, !.history = PushChar(@, " ")]

ProcessGap(d, gap) ==
  CASE gap >= 6 * dit -> EmitSpace(EmitPendingChar(d))
    [] gap >= 2 * dit /\ gap < 6 * dit -> EmitPendingChar(d)
    [] OTHER -> d

Now == [accum |-> accum, space_emitted |-> space_emitted, history |-> history]
Becomes(d) ==
  accum' = d.accum /\ space_emitted' = d.space_emitted /\ history' = d.history

\* Mutant: space_emitted is cleared at key-down, ahead of the gap.
MutantOnTransition(elapsed, key_down) ==
  IF key_down
  THEN /\ LET d == [Now EXCEPT !.space_emitted = FALSE]
          IN  Becomes(IF dstate = "Up" THEN ProcessGap(d, elapsed) ELSE d)
       /\ dstate' = "Down"
  ELSE /\ Becomes(IF dstate = "Down" THEN ProcessPulse(Now, elapsed) ELSE Now)
       /\ dstate' = "Up"

OnTransition(elapsed, key_down) ==
  IF key_down
  THEN /\ Becomes(IF dstate = "Up" THEN ProcessGap(Now, elapsed) ELSE Now)
       /\ dstate' = "Down"
  ELSE /\ Becomes([(IF dstate = "Down" THEN ProcessPulse(Now, elapsed) ELSE Now)
                     EXCEPT !.space_emitted = FALSE])
       /\ dstate' = "Up"

-----------------------------------------------------------------------------
(* The sender, the host.                                                   *)

NextMarks == {i \in DOMAIN elements : i > pos /\ elements[i] \in Marks}

\* How long the line stays up before the next element.
GapBefore(i) ==
  MapThenSumSet(LAMBDA j : Duration(elements[j], cfg), (pos + 1)..(i - 1))

Down ==
  /\ ~keyed /\ NextMarks # {}
  /\ \E j \in Jitter :
       LET gap == GapBefore(Min(NextMarks)) + j
       IN  (pos > 0 => gap >= since) /\ OnTransition(gap, TRUE)
  /\ keyed' = TRUE /\ pos' = Min(NextMarks) /\ since' = 0
  /\ UNCHANGED <<senderVars, cleared>>

Up ==
  /\ keyed
  /\ \E j \in Jitter : OnTransition(Duration(elements[pos], cfg) + j, FALSE)
  /\ keyed' = FALSE
  /\ UNCHANGED <<senderVars, pos, since, cleared>>

Poll ==
  /\ ~keyed
  /\ \E gap \in Moments(dit) :
       /\ gap >= since
       /\ pos > 0 /\ NextMarks # {} => \E j \in Jitter : gap <= GapBefore(Min(NextMarks)) + j
       /\ Becomes(IF dstate = "Up" THEN ProcessGap(Now, gap) ELSE Now)
       /\ since' = gap
  /\ UNCHANGED <<senderVars, pos, keyed, cleared, dstate>>

Clear ==
  /\ cleared.at = -1
  /\ Becomes([accum |-> 1, space_emitted |-> FALSE, history |-> <<>>])
  /\ dstate' = "Idle"
  /\ cleared' = [at |-> pos, keyed |-> keyed]
  /\ UNCHANGED <<senderVars, pos, keyed, since>>

DecoderInit ==
  /\ cfg \in Configs
  /\ \/ text \in Texts /\ elements = TextToElements(text)
     \/ text = <<>> /\ elements \in Hands
  /\ pos = 0 /\ keyed = FALSE /\ since = 0
  /\ cleared = [at |-> -1, keyed |-> FALSE]
  /\ dstate = "Idle" /\ accum = 1 /\ space_emitted = FALSE /\ history = <<>>

DecoderNext == Down \/ Up \/ Poll \/ Clear

\* The sender finishes, and the host polls at a regular cadence.
DecoderSpec ==
  /\ DecoderInit /\ [][DecoderNext]_cwVars
  /\ WF_cwVars(Down) /\ WF_cwVars(Up) /\ WF_cwVars(Poll)
-----------------------------------------------------------------------------
(* Properties.                                                             *)

\* What a listener who knows the elements, and not their durations, writes
\* down.  A character of the keyer's table the decoder has not is left out.
Decodable ==
  {c \in DOMAIN MORSE_TABLE : \E k \in DOMAIN LOOKUP : LOOKUP[k] = c}
Letter(pattern) == SetToSeq({c \in Decodable : MORSE_TABLE[c] = pattern})

\* What a number in the accumulator stands for: a bit for each mark, below a
\* leading 1.
CodeOf(n) ==
  LET len == Max({k \in 0..7 : 2^k <= n})
  IN  [i \in 1..len |-> IF (n \div 2^(len - i)) % 2 = 1 THEN 3 ELSE 1]

\* Of constants alone, so evaluating it settles it: the numbers of six marks at
\* most, one mark more, and the characters of the keyer's table at LOOKUP.
ASSUME TablesAgree ==
  /\ \A n \in 1..127 : /\ CodeOf(n) \in Seq({1, 3}) /\ Len(CodeOf(n)) < 7
                       /\ Len(CodeOf(n)) = 6 <=> n >= 64
  /\ CodeOf(1) = <<>>
  /\ \A n \in 1..63 : /\ CodeOf(2 * n) = Append(CodeOf(n), 1)
                      /\ CodeOf(2 * n + 1) = Append(CodeOf(n), 3)
  /\ \A c \in DOMAIN MORSE_TABLE : MORSE_TABLE[c] \in Seq({1, 3}) \ {<<>>}
  /\ \A c \in Decodable : Len(MORSE_TABLE[c]) < 7
  /\ \A n \in 1..127 :
       Letter(CodeOf(n)) = IF n \in (2..127) \intersect DOMAIN LOOKUP THEN <<LOOKUP[n]>> ELSE <<>>
  /\ \A n \in DOMAIN LOOKUP : LOOKUP[n] \in STRING

Listened(acc, e) ==
  CASE e = "dit"        -> [acc EXCEPT !.code = Append(@, 1), !.space = TRUE]
    [] e = "dash"       -> [acc EXCEPT !.code = Append(@, 3), !.space = TRUE]
    [] e = "ElementGap" -> acc
    [] e = "LetterGap"  -> [acc EXCEPT !.shown = @ \o Letter(acc.code), !.code = <<>>]
    [] e = "WordGap"    -> [shown |-> acc.shown \o Letter(acc.code)
                                        \o (IF acc.space THEN <<" ">> ELSE <<>>),
                            code |-> <<>>, space |-> FALSE]

Reference(sent, space) ==
  FoldLeft(Listened, [shown |-> <<>>, code |-> <<>>, space |-> space], sent).shown

LastOf(n, s) == SubSeq(s, Max({1, Len(s) - n + 1}), Len(s))

\* Durations the thresholds of the decoder tell apart.
Clearly(e, from, to) ==
  \A j \in Jitter : Duration(e, cfg) + j >= from /\ Duration(e, cfg) + j < to
Readable ==
  /\ Clearly("dit", 0, 2 * dit) /\ Clearly("dash", 2 * dit, 100 * dit)
  /\ Clearly("ElementGap", 0, 2 * dit)
  /\ Clearly("LetterGap", 2 * dit, 6 * dit) /\ Clearly("WordGap", 6 * dit, 100 * dit)

\* At every moment the decoder shows exactly what was sent, in order, however
\* often and whenever it was polled: each character as soon as the silence is
\* long enough, a space as soon as it is longer, neither twice, and the latest
\* HISTORY_CAPACITY of them.  Cleared, it starts with the next element.
DecodesWhatWasSent ==
  Readable =>
    LET done == IF keyed THEN pos - 1 ELSE pos
        silence == CASE keyed \/ since < 2 * dit -> <<>>
                     [] ~keyed /\ since \in 2 * dit..6 * dit - 1 -> <<"LetterGap">>
                     [] ~keyed /\ since >= 6 * dit -> <<"WordGap">>
        first == IF cleared.at = -1 THEN 1 ELSE cleared.at + 1
        sent == SubSeq(elements, first, done) \o silence
        space == cleared.keyed /\ ~(keyed /\ pos = cleared.at)
    IN  history = LastOf(HISTORY_CAPACITY, Reference(sent, space))

\* A text as the decoder should show it in the end: known characters in upper
\* case, one space for the gap after a word.
Plainly(acc, c) ==
  CASE c = " " -> [shown |-> acc.shown \o (IF acc.space THEN <<" ">> ELSE <<>>), space |-> FALSE]
    [] c # " " /\ CharToMorse(c) # {} ->
         [shown |-> acc.shown \o (IF Upper(c) \in Decodable THEN <<Upper(c)>> ELSE <<>>),
          space |-> TRUE]
    [] OTHER -> acc
Plain(t) == FoldLeft(Plainly, [shown |-> <<>>, space |-> FALSE], t).shown

\* A text sent is in the end the text shown, through both tables, the gaps of
\* text_to_elements, the durations and the thresholds.
TextShown ==
  Readable /\ text # <<>> /\ cleared.at = -1
    => history = LastOf(HISTORY_CAPACITY, Plain(text \o <<" ">>))
TextHeard == <>[]TextShown
=============================================================================
