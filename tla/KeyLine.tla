------------------------------ MODULE KeyLine ------------------------------
(***************************************************************************)
(* What a transmitter may rely on when it follows the keyer's events       *)
(* (KeyerOutput), whatever the keyer mode: PTT comes on before the key     *)
(* goes down, the key alternates, and PTT goes off only after the key has  *)
(* been up for the hang time.  KeyerTimed implements this specification.   *)
(***************************************************************************)
EXTENDS Integers

CONSTANTS
  TICK,      \* length of one tick
  HANG,      \* shortest hang time in use
  TIME_CAP   \* where "since" stops counting

VARIABLES
  key,       \* is the key down?
  ptt,       \* is the transmitter on?
  event,     \* the event of the last step
  since      \* time since the key last changed, up to TIME_CAP

vars == <<key, ptt, event, since>>

Min2(a, b) == IF a < b THEN a ELSE b
Older == Min2(since + TICK, TIME_CAP)

Init == key = FALSE /\ ptt = FALSE /\ event = "none" /\ since = TIME_CAP

PttOn ==
  /\ ~ptt /\ ~key
  /\ ptt' = TRUE /\ event' = "PttOn" /\ since' = Older
  /\ UNCHANGED key

KeyDown ==
  /\ ptt /\ ~key
  /\ key' = TRUE /\ event' = "KeyDown" /\ since' = 0
  /\ UNCHANGED ptt

KeyUp ==
  /\ ptt /\ key
  /\ key' = FALSE /\ event' = "KeyUp" /\ since' = 0
  /\ UNCHANGED ptt

PttOff ==
  /\ ptt /\ ~key /\ Older >= HANG
  /\ ptt' = FALSE /\ event' = "PttOff" /\ since' = Older
  /\ UNCHANGED key

\* No event; time may have passed.
NoEvent ==
  /\ event' = "none" /\ since' \in {since, Older}
  /\ UNCHANGED <<key, ptt>>

Next == PttOn \/ KeyDown \/ KeyUp \/ PttOff \/ NoEvent

Spec == Init /\ [][Next]_vars
=============================================================================
