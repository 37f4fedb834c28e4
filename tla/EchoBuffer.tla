----------------------------- MODULE EchoBuffer ----------------------------
(***************************************************************************)
(* The echo buffer of radio-utils-emu (radio.rs), shared by all client     *)
(* tasks behind a lock: what the clients transmit is recorded for each     *)
(* frequency and played back to everyone.  In loop mode the recording is   *)
(* committed when the last transmitter on its frequency lets go; in live   *)
(* mode each transmitter's samples are mixed in at an offset of its own.   *)
(*                                                                         *)
(* The buffer is a record, its methods are operators on it.  Of the        *)
(* samples of a recording the model keeps whether any is not zero: all     *)
(* that commit_freq asks of them.                                          *)
(***************************************************************************)
EXTENDS Naturals

CONSTANTS Addrs,   \* client addresses
          Freqs    \* transmit frequencies; 0 is never committed

ASSUME FreqsAssumption == Freqs \subseteq Nat

\* EchoMode; "Off" for an emulator without an echo buffer.
EchoModes == {"Off", "Loop", "Live"}

\* active_count of each FreqRecorder, 0 where there is none; the clients with
\* a write offset in each LiveBuffer; does the recording hold a signal; the
\* frequencies with a committed recording.
Echo == [mode : EchoModes, active_count : [Freqs -> Nat],
         offsets : [Freqs -> SUBSET Addrs], sounding : [Freqs -> BOOLEAN],
         echoes : SUBSET Freqs]

NewEcho(m) ==
  [mode |-> m, active_count |-> [f \in Freqs |-> 0],
   offsets |-> [f \in Freqs |-> {}], sounding |-> [f \in Freqs |-> FALSE],
   echoes |-> {}]

\* start_recording.  The first transmitter restarts a live buffer, and a
\* recording too unless it resumes a session less than LOOP_SESSION_GAP old.
StartRecording(e, f, a, resume) ==
  LET first == e.active_count[f] = 0
  IN  [e EXCEPT
        !.active_count[f] = @ + 1,
        !.sounding[f] = @ /\ (first => e.mode = "Loop" /\ resume),
        !.offsets[f] = IF e.mode = "Live"
                       THEN (IF first THEN {} ELSE @) \union {a} ELSE @]

\* feed.  In loop mode the samples are appended, and the oldest ones may be
\* forgotten; the samples of live mode are not modelled.
Feed(e, f, signal, forgets) ==
  IF e.active_count[f] > 0 /\ e.mode = "Loop"
  THEN [e EXCEPT !.sounding[f] = signal \/ (@ /\ ~forgets)]
  ELSE e

\* commit_freq: a silent recording is not committed, one on frequency 0 is
\* thrown away.
Commit(e, f) ==
  IF e.sounding[f] /\ f # 0 THEN [e EXCEPT !.echoes = @ \union {f}]
  ELSE IF f = 0 THEN [e EXCEPT !.sounding[f] = FALSE] ELSE e

\* Mutant: committed at every stop but the last.
MutantCommitEarly(e, f, a) ==
  LET left == [e EXCEPT
        !.active_count[f] = @ - 1,
        !.offsets[f] = IF e.mode = "Live" THEN @ \ {a} ELSE @]
  IN  IF e.active_count[f] = 0 THEN e
      ELSE IF left.active_count[f] > 0 /\ e.mode = "Loop" THEN Commit(left, f)
      ELSE left

\* stop_recording: the last transmitter commits the loop recording.
StopRecording(e, f, a) ==
  LET left == [e EXCEPT
        !.active_count[f] = @ - 1,
        !.offsets[f] = IF e.mode = "Live" THEN @ \ {a} ELSE @]
  IN  IF e.active_count[f] = 0 THEN e
      ELSE IF left.active_count[f] = 0 /\ e.mode = "Loop" THEN Commit(left, f)
      ELSE left
=============================================================================
