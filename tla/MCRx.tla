-------------------------------- MODULE MCRx --------------------------------
(***************************************************************************)
(* Instances of P1Receive for TLC.                                         *)
(***************************************************************************)
EXTENDS P1Receive

\* Neither a multiple nor a divisor of a sub-frame's samples.
TwoBlockSizes == {2, 4}
=============================================================================
