------------------------------- MODULE MCP1 --------------------------------
(***************************************************************************)
(* An instance of P1Session for TLC.                                       *)
(***************************************************************************)
EXTENDS P1Session

\* Two bands, of different filters.
TwoFreqs == {3500000, 7074000}
\* A Hermes Lite, idle and then busy, and a device of an unknown kind.
SomeDatagrams ==
  {[len |-> 60, magic |-> TRUE, status |-> st, mac |-> m, code |-> c, version |-> 0] :
     <<st, m, c>> \in {<<2, "a", 6>>, <<3, "a", 6>>, <<2, "b", 1>>, <<2, "c", 0>>}}
=============================================================================
