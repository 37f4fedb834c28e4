------------------------------ MODULE MCPaddle ------------------------------
(***************************************************************************)
(* Instances of PaddleInput for TLC.                                       *)
(***************************************************************************)
EXTENDS PaddleInput, TLC

CONSTANTS a, b

Both(k, l, n) == [kind |-> a :> k @@ b :> l, touches |-> n]
SomeSetups == {Both("keyboard", "amidi", 2), Both("usb", "serial", 2), Both("midi", "keyboard", 2)}

\* The same note on two channels; a note may be released in two ways.
BindingOf ==
  [p \in Paddles |-> [kind |-> "NoteOn", channel |-> IF p = "dit" THEN 1 ELSE 2, number |-> 0]]
WireOf ==
  [p \in Paddles |->
     LET status == IF p = "dit" THEN 0 ELSE 1
     IN  [down \in BOOLEAN |-> {IF down THEN <<144 + status>>
                                ELSE IF p = "dit" THEN <<128 + status, 0, 0>>
                                ELSE <<144 + status, 0, 0>>}]]

\* What the theorem on snapshots assumes of bindings and devices.
ASSUME Bound == WireIsBound
=============================================================================
