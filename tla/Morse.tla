-------------------------------- MODULE Morse --------------------------------
(***************************************************************************)
(* The Morse table of the keyer (radio-utils-keyer/src/morse.rs) and the   *)
(* elements it makes of a text.  A character is a string of length one; a  *)
(* pattern is a sequence of lengths, 1 for a dit and 3 for a dash.         *)
(***************************************************************************)
EXTENDS Integers, SequencesExt

MORSE_TABLE ==
  "A" :> <<1, 3>> @@ "B" :> <<3, 1, 1, 1>> @@ "C" :> <<3, 1, 3, 1>> @@
  "D" :> <<3, 1, 1>> @@ "E" :> <<1>> @@ "F" :> <<1, 1, 3, 1>> @@ "G" :> <<3, 3, 1>> @@
  "H" :> <<1, 1, 1, 1>> @@ "I" :> <<1, 1>> @@ "J" :> <<1, 3, 3, 3>> @@
  "K" :> <<3, 1, 3>> @@ "L" :> <<1, 3, 1, 1>> @@ "M" :> <<3, 3>> @@ "N" :> <<3, 1>> @@
  "O" :> <<3, 3, 3>> @@ "P" :> <<1, 3, 3, 1>> @@ "Q" :> <<3, 3, 1, 3>> @@
  "R" :> <<1, 3, 1>> @@ "S" :> <<1, 1, 1>> @@ "T" :> <<3>> @@ "U" :> <<1, 1, 3>> @@
  "V" :> <<1, 1, 1, 3>> @@ "W" :> <<1, 3, 3>> @@ "X" :> <<3, 1, 1, 3>> @@
  "Y" :> <<3, 1, 3, 3>> @@ "Z" :> <<3, 3, 1, 1>> @@ "0" :> <<3, 3, 3, 3, 3>> @@
  "1" :> <<1, 3, 3, 3, 3>> @@ "2" :> <<1, 1, 3, 3, 3>> @@ "3" :> <<1, 1, 1, 3, 3>> @@
  "4" :> <<1, 1, 1, 1, 3>> @@ "5" :> <<1, 1, 1, 1, 1>> @@ "6" :> <<3, 1, 1, 1, 1>> @@
  "7" :> <<3, 3, 1, 1, 1>> @@ "8" :> <<3, 3, 3, 1, 1>> @@ "9" :> <<3, 3, 3, 3, 1>> @@
  "." :> <<1, 3, 1, 3, 1, 3>> @@ "," :> <<3, 3, 1, 1, 3, 3>> @@
  "?" :> <<1, 1, 3, 3, 1, 1>> @@ "'" :> <<1, 3, 3, 3, 3, 1>> @@
  "!" :> <<3, 1, 3, 1, 3, 3>> @@ "/" :> <<3, 1, 1, 3, 1>> @@
  "(" :> <<3, 1, 3, 3, 1>> @@ ")" :> <<3, 1, 3, 3, 1, 3>> @@
  "&" :> <<1, 3, 1, 1, 1>> @@ ":" :> <<3, 3, 3, 1, 1, 1>> @@
  ";" :> <<3, 1, 3, 1, 3, 1>> @@ "=" :> <<3, 1, 1, 1, 3>> @@
  "+" :> <<1, 3, 1, 3, 1>> @@ "-" :> <<3, 1, 1, 1, 1, 3>> @@
  "_" :> <<1, 1, 3, 3, 1, 3>> @@ "\"" :> <<1, 3, 1, 1, 3, 1>> @@
  "$" :> <<1, 1, 1, 3, 1, 1, 3>> @@ "@" :> <<1, 3, 3, 1, 3, 1>>

LowerCase == <<"a", "b", "c", "d", "e", "f", "g", "h", "i", "j", "k", "l", "m",
               "n", "o", "p", "q", "r", "s", "t", "u", "v", "w", "x", "y", "z">>
UpperCase == <<"A", "B", "C", "D", "E", "F", "G", "H", "I", "J", "K", "L", "M",
               "N", "O", "P", "Q", "R", "S", "T", "U", "V", "W", "X", "Y", "Z">>

\* to_ascii_uppercase
Upper(c) ==
  IF Contains(LowerCase, c)
  THEN UpperCase[CHOOSE i \in DOMAIN LowerCase : LowerCase[i] = c]
  ELSE c

\* char_to_morse; the set holds the pattern, if there is one.
CharToMorse(c) ==
  IF Upper(c) \in DOMAIN MORSE_TABLE THEN {MORSE_TABLE[Upper(c)]} ELSE {}

\* The elements of a pattern, with gaps between them.
Spelled(pattern) ==
  [i \in 1..(2 * Len(pattern) - 1) |->
     IF i % 2 = 0 THEN "ElementGap"
     ELSE IF pattern[(i + 1) \div 2] = 1 THEN "dit" ELSE "dash"]

\* What is left when the short gaps at the end are popped.
WithoutTrailingGaps(elements) ==
  LET kept == {i \in DOMAIN elements : elements[i] \notin {"ElementGap", "LetterGap"}}
  IN  SubSeq(elements, 1, Max(kept \union {0}))

\* Mutant: the gap is forgotten after a character the table lacks.
MutantAddChar(acc, c) ==
  LET gap == IF acc.first_char THEN <<>> ELSE <<"LetterGap">>
  IN  CASE c = " " -> [elements |-> Append(WithoutTrailingGaps(acc.elements), "WordGap"),
                       first_char |-> TRUE]
        [] c # " " /\ CharToMorse(c) = {} -> [acc EXCEPT !.first_char = TRUE]
        [] OTHER -> [elements |-> acc.elements \o gap
                                    \o Spelled(CHOOSE p \in CharToMorse(c) : TRUE),
                     first_char |-> FALSE]

\* text_to_elements: one character more ...
AddChar(acc, c) ==
  IF c = " "
  THEN [elements |-> Append(WithoutTrailingGaps(acc.elements), "WordGap"), first_char |-> TRUE]
  ELSE IF CharToMorse(c) = {} THEN acc
  ELSE LET pattern == CHOOSE p \in CharToMorse(c) : TRUE
           gap == IF acc.first_char THEN <<>> ELSE <<"LetterGap">>
       IN  [elements |-> acc.elements \o gap \o Spelled(pattern), first_char |-> FALSE]

\* ... and the whole text.
TextToElements(text) ==
  WithoutTrailingGaps(
    FoldLeft(AddChar, [elements |-> <<>>, first_char |-> TRUE], text).elements)
=============================================================================
