---------------------------- MODULE MCKeyerText ----------------------------
(***************************************************************************)
(* The instances of MCKeyer, with a listener to the texts.                 *)
(***************************************************************************)
EXTENDS MCKeyer, KeyerText
=============================================================================
