------------------------------- MODULE LiveEcho ------------------------------
(***************************************************************************)
(* The live buffer of one frequency in the emulator (radio.rs): what the   *)
(* transmitters feed is mixed into one timeline and read, LIVE_DELAY       *)
(* samples behind its end, by every client tuned near.  The buffer keeps   *)
(* the newest max_samples; a new recording starts a new epoch.             *)
(*                                                                         *)
(* EchoBuffer says who has a write offset; here are the positions.  Every  *)
(* operation is one step, done under the lock.  A client may read at any   *)
(* moment, or not, as it is tuned elsewhere.  A sample is named by its     *)
(* transmitter and number; the mix at a position is a set of samples.      *)
(***************************************************************************)
EXTENDS Integers, Sequences

CONSTANTS Transmitters, Readers,
          LIVE_DELAY,     \* samples between the two heads
          Capacities,     \* what max_samples may be, as the sample rate is
          Blocks,         \* samples fed or read at a time
          MaxTasks,       \* bound: sessions of one address at a time
          MaxHead,        \* bound: samples in an epoch
          MaxEpoch        \* bound: recordings

ASSUME LiveAssumption ==
  /\ LIVE_DELAY \in Nat /\ MaxTasks \in Nat /\ MaxHead \in Nat /\ MaxEpoch \in Nat
  /\ Capacities \subseteq Nat /\ \A c \in Capacities : c > LIVE_DELAY
  /\ Blocks \subseteq Nat \ {0}

NoPos == -1

VARIABLES
  on,             \* how many tasks of an address record
  active_count,
  \* The LiveBuffer.
  data, drained, epoch, max_samples,
  client_offsets,
  next_epoch,
  \* The EchoPlaybackState of each reader.
  live_pos, live_epoch,
  \* History: samples fed by each address, the samples that came in time for
  \* each position, and the mix each reader has heard, all of this epoch.
  sent, aired, heard

recorderVars == <<on, active_count>>
bufferVars == <<data, drained, epoch, max_samples, client_offsets, next_epoch>>
readerVars == <<live_pos, live_epoch>>
historyVars == <<sent, aired, heard>>
liveVars == <<recorderVars, bufferVars, readerVars, historyVars>>

Larger(a, b) == IF a > b THEN a ELSE b
Smaller(a, b) == IF a < b THEN a ELSE b

write_head == drained + Len(data)

\* A position LIVE_DELAY before a head, saturating.
Behind(head) == Larger(head - LIVE_DELAY, 0)

LiveInit ==
  /\ on = [a \in Transmitters |-> 0] /\ active_count = 0
  /\ data = <<>> /\ drained = 0 /\ epoch = 0 /\ max_samples \in Capacities
  /\ client_offsets = [a \in Transmitters |-> NoPos] /\ next_epoch = 1
  /\ live_pos = [r \in Readers |-> 0] /\ live_epoch = [r \in Readers |-> 0]
  /\ sent = [a \in Transmitters |-> 0] /\ aired = <<>> /\ heard = [r \in Readers |-> <<>>]

-----------------------------------------------------------------------------
\* start_recording by the first transmitter restarts the buffer ...
StartFirst(a) ==
  /\ active_count = 0 /\ next_epoch <= MaxEpoch
  /\ data' = <<>> /\ drained' = 0 /\ epoch' = next_epoch /\ next_epoch' = next_epoch + 1
  /\ max_samples' \in Capacities
  /\ client_offsets' = [b \in Transmitters |-> IF b = a THEN 0 ELSE NoPos]
  /\ sent' = [b \in Transmitters |-> 0] /\ aired' = <<>> /\ heard' = [r \in Readers |-> <<>>]

\* ... another one joins at its end.
StartAnother(a) ==
  /\ active_count > 0
  /\ client_offsets' = [client_offsets EXCEPT ![a] = write_head]
  /\ UNCHANGED <<data, drained, epoch, next_epoch, max_samples, historyVars>>

StartLive(a) ==
  /\ on[a] < MaxTasks
  /\ StartFirst(a) \/ StartAnother(a)
  /\ on' = [on EXCEPT ![a] = @ + 1] /\ active_count' = active_count + 1
  /\ UNCHANGED readerVars

\* stop_recording
StopLive(a) ==
  /\ on[a] > 0 /\ active_count > 0
  /\ on' = [on EXCEPT ![a] = @ - 1] /\ active_count' = active_count - 1
  /\ client_offsets' = [client_offsets EXCEPT ![a] = NoPos]
  /\ UNCHANGED <<data, drained, epoch, max_samples, next_epoch, readerVars, historyVars>>

\* The samples mixed in at a relative offset, the buffer grown as needed.
Mixed(a, rel, n) ==
  [i \in 1..Larger(Len(data), rel + n) |->
     (IF i <= Len(data) THEN data[i] ELSE {})
       \union (IF i > rel /\ i <= rel + n THEN {<<a, sent[a] + i - rel>>} ELSE {})]

\* The oldest samples dropped.
Drained(d, excess) == [i \in 1..(Len(d) - excess) |-> d[i + excess]]

\* History: a sample is in time when it is mixed in at most LIVE_DELAY behind
\* the end.
Aired(a, at, n) ==
  [i \in 1..Larger(Len(aired), at + n) |->
     (IF i <= Len(aired) THEN aired[i] ELSE {})
       \union (IF i > at /\ i <= at + n /\ i > Behind(write_head)
               THEN {<<a, sent[a] + i - at>>} ELSE {})]

\* Mutant: the start is not moved with the samples dropped.
MutantFeedFrom(a, n) ==
  LET at == Larger(client_offsets[a], drained)
      mixed == Mixed(a, at - drained, n)
      excess == Larger(Len(mixed) - max_samples, 0)
  IN  /\ data' = Drained(mixed, excess)
      /\ drained' = drained
      /\ client_offsets' = [client_offsets EXCEPT ![a] = at + n]
      /\ aired' = Aired(a, at, n)
      /\ sent' = [sent EXCEPT ![a] = @ + n]

\* feed_from: a transmitter that was overtaken goes on at the start.
FeedFrom(a, n) ==
  LET at == Larger(client_offsets[a], drained)
      mixed == Mixed(a, at - drained, n)
      excess == Larger(Len(mixed) - max_samples, 0)
  IN  /\ data' = Drained(mixed, excess)
      /\ drained' = drained + excess
      /\ client_offsets' = [client_offsets EXCEPT ![a] = at + n]
      /\ aired' = Aired(a, at, n)
      /\ sent' = [sent EXCEPT ![a] = @ + n]

\* feed: without an offset the samples are dropped.
FeedLive(a, n) ==
  /\ on[a] > 0 /\ active_count > 0 /\ client_offsets[a] # NoPos
  /\ Larger(client_offsets[a], drained) + n <= MaxHead
  /\ FeedFrom(a, n)
  /\ UNCHANGED <<recorderVars, epoch, max_samples, next_epoch, readerVars, heard>>

-----------------------------------------------------------------------------
\* Mutants: only half the delay is kept; the delay is kept for ever.
MutantHalfDelay ==
  IF active_count > 0 THEN Larger(Len(data) - (LIVE_DELAY \div 2), 0) ELSE Len(data)
MutantKeepDelay == Larger(Len(data) - LIVE_DELAY, 0)

\* How far a reader may read: to the end when nobody transmits.
readable_end ==
  IF active_count > 0 THEN Larger(Len(data) - LIVE_DELAY, 0) ELSE Len(data)

\* generate_live_echo_into: a reader new to the epoch joins near the end, one
\* overtaken goes on at the start.
ReadFrom(r) ==
  LET pos == IF live_epoch[r] # epoch THEN Behind(write_head) ELSE live_pos[r]
  IN  Larger(pos, drained)

Read(r, n) ==
  /\ epoch > 0
  /\ LET from == ReadFrom(r)
         some == Larger(Smaller(n, readable_end - (from - drained)), 0)
     IN  /\ live_pos' = [live_pos EXCEPT ![r] = from + some]
         /\ heard' = [heard EXCEPT ![r] =
                        [p \in DOMAIN @ \union (from + 1)..(from + some) |->
                           IF p > from THEN data[p - drained] ELSE @[p]]]
  /\ live_epoch' = [live_epoch EXCEPT ![r] = epoch]
  /\ UNCHANGED <<recorderVars, bufferVars, sent, aired>>

ReadSome(r) == \E n \in Blocks : Read(r, n)

LiveNext ==
  \/ \E a \in Transmitters : StartLive(a) \/ StopLive(a) \/ \E n \in Blocks : FeedLive(a, n)
  \/ \E r \in Readers : ReadSome(r)

\* Every client builds its packets, and reads, as long as it is there.
LiveSpec ==
  LiveInit /\ [][LiveNext]_liveVars /\ \A r \in Readers : WF_liveVars(ReadSome(r))
-----------------------------------------------------------------------------
(* Properties.                                                             *)

\* Types, and the buffer within its capacity: no offset and no reader is ever
\* ahead of the end of the buffer, and no offset outlives its transmitter.
LiveTypeOK ==
  /\ on \in [Transmitters -> Nat] /\ active_count \in Nat
  /\ drained \in Nat /\ epoch \in Nat /\ next_epoch \in Nat /\ epoch < next_epoch
  /\ max_samples \in Capacities /\ Len(data) <= max_samples
  /\ client_offsets \in [Transmitters -> NoPos..write_head]
  /\ \A a \in Transmitters : client_offsets[a] # NoPos => on[a] > 0
  /\ live_pos \in [Readers -> Nat] /\ live_epoch \in [Readers -> 0..epoch]
  /\ \A r \in Readers : live_epoch[r] = epoch => live_pos[r] <= write_head

\* What a reader hears at a moment is the whole mix of that moment: every
\* sample that was mixed in no more than LIVE_DELAY behind the end is heard by
\* every reader that hears its position, however transmitters come and go,
\* the buffer overflows and the reader falls behind or away.
HeardWhole ==
  \A r \in Readers : \A p \in DOMAIN heard[r] : aired[p] \subseteq heard[r][p]

\* When the last transmitter lets go, every reader hears the tail of LIVE_DELAY
\* samples to its end, unless a new recording starts first.
TailHeard ==
  \A r \in Readers :
    (epoch > 0 /\ active_count = 0)
      ~> (active_count > 0 \/ (live_epoch[r] = epoch /\ live_pos[r] = write_head))
=============================================================================
