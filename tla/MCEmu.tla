------------------------------- MODULE MCEmu -------------------------------
(***************************************************************************)
(* An instance of EmuServer for TLC.                                       *)
(***************************************************************************)
EXTENDS EmuServer

TwoFreqs == {0, 7}

Sub(m, f, s) == [mox |-> m, tx |-> f, signal |-> s]
\* PTT on, on the present frequency, and a change of frequency under it; a
\* short transmission without a signal, which also ends a longer one; PTT off.
SomeFrames ==
  {<<Sub(TRUE, NoFreq, TRUE), Sub(TRUE, 0, FALSE)>>,
   <<Sub(TRUE, NoFreq, FALSE), Sub(FALSE, 7, FALSE)>>,
   <<Sub(FALSE, NoFreq, FALSE), Sub(FALSE, NoFreq, FALSE)>>}
=============================================================================
