----------------------------- MODULE P1Session ------------------------------
(***************************************************************************)
(* A host program from discovery to transmission: it looks for devices,    *)
(* connects to one of those it has found, and is then the host of          *)
(* P1Transmit.  connect() makes a client in its initial state, which is    *)
(* the one P1Transmit starts from.                                         *)
(***************************************************************************)
EXTENDS P1Transmit, Discovery

sessionVars == <<txVars, discoveryVars>>

SessionInit == TxInit /\ DiscoveryInit

\* One of the kind the instance of P1Transmit is about.  What discover() has
\* left over is not kept.
Connect ==
  /\ stage = "returned"
  /\ \E i \in DOMAIN devices : (devices[i].code = 6) = HermesLite
  /\ stage' = "connected"
  /\ devices' = <<>> /\ taken' = {} /\ answers' = 0 /\ expired' = FALSE
  /\ task' = [s \in Sockets |-> "none"]
  /\ UNCHANGED <<arrived, hand, channel, txVars>>

Discovering == DiscoveryNext /\ UNCHANGED txVars
Connected == stage = "connected" /\ TxNext /\ UNCHANGED discoveryVars

SessionSpec ==
  /\ SessionInit /\ [][Discovering \/ Connect \/ Connected]_sessionVars
  /\ DiscoveryFairness
  /\ TxFairness

\* Types of both parts.
SessionTypeOK == TxTypeOK /\ DiscoveryTypeOK
=============================================================================
