------------------------------ MODULE P1Receive ------------------------------
(***************************************************************************)
(* From the radio to the host: the data packets of the emulator's client   *)
(* task (radio-utils-emu, protocol1.rs), the receiving half of             *)
(* Protocol1Client (radio-utils-protocol, protocol1.rs) and the            *)
(* IqAccumulator the host program cuts the samples into blocks with.       *)
(*                                                                         *)
(* A packet has two sub-frames.  Each carries one of four groups of        *)
(* readings, in rotation, and samples.  A reading is abstracted to the     *)
(* round of the rotation it was taken in, a sample to its place in a       *)
(* sub-frame.  One DDC, subscribed to; magic and sync bytes are right.     *)
(***************************************************************************)
EXTENDS Integers, SequencesExt

CONSTANTS
  ROUNDS,       \* sequence numbers are 0..2*ROUNDS-1 (in the code 2^32 of them)
  SPR,          \* samples in a sub-frame (63)
  BlockSizes,   \* block sizes the host program sets
  HIGH_WATER,   \* blocks an accumulator holds (16)
  STATUS_CAP,   \* capacity of the channel of statuses (64)
  IQ_CAP,       \* capacity of a channel of samples (256)
  NET_CAP,      \* bound of the model: datagrams in flight
  MAX_FAULTS,   \* bound of the model: faults of the network
  MAX_SESSION   \* bound of the model: restarts of the radio

ASSUME ReceiveAssumption ==
  /\ {ROUNDS, SPR, HIGH_WATER, STATUS_CAP, IQ_CAP, NET_CAP} \subseteq Nat \ {0}
  /\ BlockSizes \subseteq Nat \ {0} /\ BlockSizes # {}
  /\ MAX_FAULTS \in Nat /\ MAX_SESSION \in Nat

VARIABLES
  radio,        \* of its ClientState: data_seq, control_idx; and its round
  net,          \* datagrams in flight, oldest first
  rx_seq,
  accumulated_status,
  last_status_addr,
  status_chan,  \* the statuses the host program has not yet received
  iq_chan,      \* the sub-frames of samples it has not yet received
  buffer, block_size,     \* the accumulator
  faults,
  heard,        \* history: the last packets handled, at most three
  given         \* history: the last sample of the block before, if next to buffer

radioVars == <<radio, net, faults>>
clientVars == <<rx_seq, accumulated_status, last_status_addr, heard>>
accVars == <<buffer, block_size, given>>
rxVars == <<radioVars, clientVars, accVars, status_chan, iq_chan>>

RESPONSE_ADDRS == <<0, 8, 16, 24>>
ADDRS == {0, 8, 16, 24}
NONE == -1

Sessions == 0..MAX_SESSION
\* When a reading was taken.
Tag == [session : Sessions, round : 0..ROUNDS - 1]
NoTag == [session |-> NONE, round |-> NONE]

SubFrame == [addr : ADDRS, tag : Tag]
Packet == [session : Sessions, seq : 0..2 * ROUNDS - 1, frames : Seq(SubFrame)]
RadioStatus == [ptt : Tag \cup {NoTag}, of : [ADDRS -> Tag \cup {NoTag}]]

NewRadio(session) == [session |-> session, data_seq |-> 0, control_idx |-> 0, round |-> 0]

RxInit ==
  /\ radio = NewRadio(0) /\ net = <<>> /\ faults = 0
  /\ rx_seq = 0 /\ last_status_addr = NONE /\ heard = <<>>
  /\ accumulated_status = [ptt |-> NoTag, of |-> [a \in ADDRS |-> NoTag]]
  /\ status_chan = <<>> /\ iq_chan = 0
  /\ buffer = <<>> /\ block_size \in BlockSizes /\ given = <<>>

-----------------------------------------------------------------------------
(* The radio.                                                              *)

NextSeq(seq) == IF seq = 2 * ROUNDS - 1 THEN 0 ELSE seq + 1

\* fill_subframe_sync: the control response.
FrameOf(r) == [addr |-> RESPONSE_ADDRS[r.control_idx + 1],
               tag |-> [session |-> r.session, round |-> r.round]]

\* The rotation goes on; a new round begins with the first address.
Rotated(r) ==
  IF r.control_idx < 3 THEN [r EXCEPT !.control_idx = @ + 1]
  ELSE [r EXCEPT !.control_idx = 0, !.round = IF @ = ROUNDS - 1 THEN 0 ELSE @ + 1]

DataPacket(r) ==
  [session |-> r.session, seq |-> r.data_seq,
   frames |-> <<FrameOf(r), FrameOf(Rotated(r))>>]

\* build_data_packet, and the branch of the task that sends it.
Send ==
  /\ Len(net) < NET_CAP
  /\ net' = Append(net, DataPacket(radio))
  /\ radio' = [Rotated(Rotated(radio)) EXCEPT !.data_seq = NextSeq(@)]
  /\ UNCHANGED <<faults, clientVars, accVars, status_chan, iq_chan>>

\* A stop and a start: a new task, with a state of its own.  Packets of the old
\* one may still be in flight.
Restart ==
  /\ radio.session < MAX_SESSION
  /\ radio' = NewRadio(radio.session + 1)
  /\ UNCHANGED <<net, faults, clientVars, accVars, status_chan, iq_chan>>

-----------------------------------------------------------------------------
(* The client.                                                             *)

\* Mutant: a round ends when a group comes twice.
MutantWrapped(addr, last) == addr = last

Wrapped(addr, last) == last # NONE /\ addr <= last

\* try_send: what finds the channel full is dropped, and nobody told.
TrySend(chan, s) == IF Len(chan) < STATUS_CAP THEN Append(chan, s) ELSE chan

\* Mutant: the readings first.
MutantParsed(h, f) ==
  LET new == [ptt |-> f.tag, of |-> [h.status.of EXCEPT ![f.addr] = f.tag]]
  IN  [status |-> new, last |-> f.addr,
       statuses |-> IF Wrapped(f.addr, h.last)
                      THEN TrySend(h.statuses, new) ELSE h.statuses,
       iq |-> IF h.iq < IQ_CAP THEN h.iq + 1 ELSE h.iq]

\* parse_radio_subframe: PTT, the status of the round before, the readings,
\* the samples.
Parsed(h, f) ==
  LET now == [h.status EXCEPT !.ptt = f.tag]
  IN  [status |-> [now EXCEPT !.of[f.addr] = f.tag],
       last |-> f.addr,
       statuses |-> IF Wrapped(f.addr, h.last)
                      THEN TrySend(h.statuses, now) ELSE h.statuses,
       iq |-> IF h.iq < IQ_CAP THEN h.iq + 1 ELSE h.iq]

\* handle_radio_packet.
Received(p) ==
  LET h == Parsed(Parsed([status |-> accumulated_status, last |-> last_status_addr,
                          statuses |-> status_chan, iq |-> iq_chan],
                         p.frames[1]),
                  p.frames[2])
  IN  /\ accumulated_status' = h.status
      /\ last_status_addr' = h.last
      /\ status_chan' = h.statuses
      /\ iq_chan' = h.iq
      /\ rx_seq' = NextSeq(p.seq)
      /\ heard' = (IF Len(heard) < 3 THEN heard ELSE Tail(heard))
                    \o <<[session |-> p.session, seq |-> p.seq]>>

Handle ==
  /\ net # <<>>
  /\ Received(Head(net))
  /\ net' = Tail(net)
  /\ UNCHANGED <<radio, faults, accVars>>

-----------------------------------------------------------------------------
(* The network.                                                            *)

Fault == faults < MAX_FAULTS /\ faults' = faults + 1

Lose ==
  /\ Fault
  /\ \E k \in DOMAIN net : net' = RemoveAt(net, k)
  /\ UNCHANGED <<radio, clientVars, accVars, status_chan, iq_chan>>

Overtake ==
  /\ Fault
  /\ \E k \in 2..Len(net) : Received(net[k]) /\ net' = RemoveAt(net, k)
  /\ UNCHANGED <<radio, accVars>>

\* One arrives now, and again later.
Repeat ==
  /\ Fault
  /\ net # <<>>
  /\ Received(Head(net))
  /\ net' = Append(Tail(net), Head(net))
  /\ UNCHANGED <<radio, accVars>>

-----------------------------------------------------------------------------
(* The host program: both channels and the accumulator.                    *)

TakeStatus ==
  /\ status_chan # <<>>
  /\ status_chan' = Tail(status_chan)
  /\ UNCHANGED <<radioVars, clientVars, accVars, iq_chan>>

\* rx_iq_stream, called again: a channel with nothing in it.
Resubscribe ==
  /\ iq_chan' = 0
  /\ UNCHANGED <<radioVars, clientVars, accVars, status_chan>>

Samples == [i \in 1..SPR |-> i]

\* Mutant: what has no room is what came last.
MutantKept(samples, n) == SubSeq(samples, 1, n)

\* The oldest are drained.
Kept(samples, n) == SubSeq(samples, Len(samples) - n + 1, Len(samples))

Push ==
  /\ iq_chan > 0
  /\ iq_chan' = iq_chan - 1
  /\ LET all == buffer \o Samples
         high_water == block_size * HIGH_WATER
     IN  IF Len(all) > high_water
           THEN buffer' = Kept(all, high_water) /\ given' = <<>>
           ELSE buffer' = all /\ UNCHANGED given
  /\ UNCHANGED <<radioVars, clientVars, status_chan, block_size>>

NextBlock ==
  /\ Len(buffer) >= block_size
  /\ given' = <<buffer[block_size]>>
  /\ buffer' = SubSeq(buffer, block_size + 1, Len(buffer))
  /\ UNCHANGED <<radioVars, clientVars, status_chan, iq_chan, block_size>>

\* Mutant: the buffer is kept.
MutantAfterResize == buffer

\* set_block_size empties the buffer.
AfterResize == <<>>

SetBlockSize ==
  /\ block_size' \in BlockSizes
  /\ buffer' = AfterResize /\ given' = <<>>
  /\ UNCHANGED <<radioVars, clientVars, status_chan, iq_chan>>

Clear ==
  /\ buffer' = <<>> /\ given' = <<>>
  /\ UNCHANGED <<radioVars, clientVars, status_chan, iq_chan, block_size>>

-----------------------------------------------------------------------------
RxNext ==
  \/ Send \/ Restart \/ Handle
  \/ Lose \/ Overtake \/ Repeat
  \/ TakeStatus \/ Resubscribe \/ Push \/ NextBlock \/ SetBlockSize \/ Clear

RxSpec == RxInit /\ [][RxNext]_rxVars

\* The task's timer goes on, what is not lost arrives, and the host program
\* reads its statuses.
RxFairSpec ==
  RxSpec /\ WF_rxVars(Send) /\ WF_rxVars(Handle) /\ WF_rxVars(TakeStatus)

-----------------------------------------------------------------------------
(* Properties.                                                             *)

\* Types.  What is counted has its bounds, the accumulator that of the block
\* size it has now.
RxTypeOK ==
  /\ radio \in [session : Sessions, data_seq : 0..2 * ROUNDS - 1,
                control_idx : 0..3, round : 0..ROUNDS - 1]
  /\ net \in Seq(Packet) /\ faults \in 0..MAX_FAULTS
  /\ rx_seq \in 0..2 * ROUNDS - 1
  /\ accumulated_status \in RadioStatus
  /\ last_status_addr \in ADDRS \cup {NONE}
  /\ status_chan \in Seq(RadioStatus) /\ Len(status_chan) <= STATUS_CAP
  /\ iq_chan \in 0..IQ_CAP
  /\ block_size \in BlockSizes
  /\ buffer \in Seq(1..SPR) /\ Len(buffer) <= block_size * HIGH_WATER
  /\ given \in Seq(1..SPR) /\ Len(given) <= 1
  /\ heard \in Seq([session : Sessions, seq : 0..2 * ROUNDS - 1]) /\ Len(heard) <= 3

\* The last three packets follow each other, in one session of the radio.
ThreeInARow(h) ==
  /\ Len(h) = 3
  /\ h[1].session = h[2].session /\ h[2].session = h[3].session
  /\ h[2].seq = NextSeq(h[1].seq) /\ h[3].seq = NextSeq(h[2].seq)

OneRound(s) == \A a, b \in ADDRS : s.of[a] = s.of[b] /\ s.of[a] # NoTag

\* A status has all its readings, forward and reverse power above all, from one
\* round (parse_radio_subframe): two packets make a round, so it takes two in
\* sequence before the one that ends it.  A lost, late or repeated packet and a
\* restart of the radio may spoil a status, and never the one after the next
\* two packets in sequence.
StatusOfOneRound ==
  [][Len(status_chan') > Len(status_chan) /\ ThreeInARow(heard')
       => OneRound(Last(status_chan'))]_rxVars

\* A sample of a sub-frame is followed by the next one; after the last of a
\* sub-frame comes the first of another.
Follows(x, y) == y = IF x = SPR THEN 1 ELSE x + 1

\* Whatever is lost on the way is lost by whole sub-frames: within a block, and
\* from one block to the next (next_block, push), samples leave no gap but
\* between sub-frames, except where the accumulator overflowed or was emptied,
\* which is only ever between two blocks.
SeamsBetweenSubframes ==
  LET stream == given \o buffer
  IN  \A k \in 1..Len(stream) - 1 : Follows(stream[k], stream[k + 1])

\* A host program that reads its statuses goes on getting them: the round's end
\* is seen however the faults of the network and a restart left the rotation.
StatusFlows == []<><<TakeStatus>>_rxVars
=============================================================================
