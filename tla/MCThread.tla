------------------------------ MODULE MCThread -----------------------------
(***************************************************************************)
(* An instance of KeyerThread for TLC: one iambic configuration, a tick of *)
(* 2 units, channels of one or two places.                                 *)
(***************************************************************************)
EXTENDS KeyerThread

OneConfig ==
  {[mode |-> "IambicA", dur |-> [p \in Paddles |-> 5],
    gap |-> [g \in TextGaps |-> 3], hang |-> 2, pct |-> 33,
    auto_spacing |-> FALSE, keys_reversed |-> FALSE]}

DitOnly == {{}, {"dit"}}

OneDit == {<<"dit">>}
\* Less than a tick, the cap and a half, starvation.
SomeDelays == {1, 5, 9}

\* What the theorem on batches and elements assumes.
ASSUME Fits == BatchFits
=============================================================================
