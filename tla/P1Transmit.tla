----------------------------- MODULE P1Transmit -----------------------------
(***************************************************************************)
(* From the host to the radio: the sending half of Protocol1Client         *)
(* (radio-utils-protocol, protocol1.rs) and the control registers of the   *)
(* radio, as the emulator's client task keeps them (radio-utils-emu).      *)
(*                                                                         *)
(* Nothing is acknowledged.  Every packet carries the next two of thirteen *)
(* control commands in rotation, each with the MOX bit, and samples while  *)
(* PTT is on.                                                              *)
(*                                                                         *)
(* The network may lose, repeat and reorder datagrams and the socket may   *)
(* refuse one, MAX_FAULTS times in all.  Time is left out: the pacing of   *)
(* packets (and the estimate of the radio's buffer it works with) only     *)
(* says when the next one may be sent.                                     *)
(***************************************************************************)
EXTENDS Integers, SequencesExt

CONSTANTS
  TxFreqs, RxFreqs, Rates, Drives, Nddcs,  \* values the host program sets
  DefaultFreq, DefaultRate, DefaultDrive,
  HermesLite,   \* is the radio a Hermes Lite 2?
  SUBFRAME,     \* samples in a sub-frame (63)
  ROW_BYTES,    \* bytes of samples in a sub-frame (504)
  RING_CAP,     \* capacity of the ring of samples (262_144)
  Blocks,       \* numbers of samples the host program produces at once
  NET_CAP,      \* bound of the model: datagrams in flight when one is sent
  MAX_FAULTS    \* bound of the model: faults of network and socket

Ddcs == 0..11
ROTATION == 13

ASSUME TransmitAssumption ==
  /\ TxFreqs \union RxFreqs \union {DefaultFreq} \subseteq Nat
  /\ Rates \subseteq Nat /\ DefaultRate \in Rates
  /\ Drives \subseteq 0..255 /\ DefaultDrive \in Drives
  /\ Nddcs \subseteq 1..255 /\ 1 \in Nddcs
  /\ HermesLite \in BOOLEAN
  /\ {SUBFRAME, ROW_BYTES, RING_CAP, NET_CAP} \subseteq Nat \ {0}
  /\ Blocks \subseteq Nat /\ MAX_FAULTS \in Nat

VARIABLES
  settings, tx_cw_mode, running,
  in_run,        \* is run() being awaited?
  commands,      \* cmd_receiver: is there still one to take?
  control_idx,
  ring,          \* samples in tx_iq_consumer
  tx_iq_buffer,  \* samples in tx_iq_buffer
  pkt_samples,   \* samples_per_packet of this run()
  net,           \* datagrams in flight, oldest first
  radio,
  faults,
  settled        \* history: rotated packets of the present settings arrived

hostVars == <<settings, tx_cw_mode, running, in_run, commands, control_idx,
              ring, tx_iq_buffer, pkt_samples>>
txVars == <<hostVars, net, radio, faults, settled>>

AllFreqs == TxFreqs \union RxFreqs \union {DefaultFreq}

Settings == [rate : Rates, nddc : Nddcs, tx_frequency : AllFreqs,
             rx_frequencies : [Ddcs -> AllFreqs], tx_drive : Drives, ptt : BOOLEAN]

\* on: is there a client task?
Radio == [on : BOOLEAN, rate : Rates, nddc : 1..8, oc : 0..127,
          tx_frequency : AllFreqs, rx_frequencies : [Ddcs -> AllFreqs \union {0}],
          tx_drive : Nat, pa : BOOLEAN, ptt : BOOLEAN]

NewRadio(on) ==
  [on |-> on, rate |-> DefaultRate, nddc |-> 1, oc |-> 0,
   tx_frequency |-> DefaultFreq, rx_frequencies |-> [d \in Ddcs |-> DefaultFreq],
   tx_drive |-> 0, pa |-> FALSE, ptt |-> FALSE]

SamplesPerPacket(nddc) ==
  2 * (ROW_BYTES \div (6 * (IF nddc > 8 THEN 8 ELSE nddc) + 2))

TxInit ==
  /\ settings = [rate |-> DefaultRate, nddc |-> 1, tx_frequency |-> DefaultFreq,
                 rx_frequencies |-> [d \in Ddcs |-> DefaultFreq],
                 tx_drive |-> DefaultDrive, ptt |-> FALSE]
  /\ tx_cw_mode = FALSE /\ running = FALSE /\ in_run = FALSE /\ commands = TRUE
  /\ control_idx = 0 /\ ring = 0 /\ tx_iq_buffer = 0
  /\ pkt_samples = SamplesPerPacket(1)
  /\ net = <<>> /\ radio = NewRadio(FALSE) /\ faults = 0 /\ settled = 0

-----------------------------------------------------------------------------
(* Control commands: the address and the value of a register.              *)

\* n2adr_oc_for_freq: the relays of the filter board.
FilterOf(f) ==
  CASE f <= 2000000 -> 1
    [] f > 2000000 /\ f <= 4000000 -> 66
    [] f > 4000000 /\ f <= 8000000 -> 68
    [] f > 8000000 /\ f <= 15000000 -> 72
    [] f > 15000000 /\ f <= 22000000 -> 80
    [] f > 22000000 /\ f <= 30000000 -> 96
    [] OTHER -> 64

Oc(s) ==
  IF HermesLite THEN FilterOf(IF s.ptt THEN s.tx_frequency ELSE s.rx_frequencies[0])
                ELSE 0

\* The code of nddc has three bits.
NddcCode(s) == ((s.nddc - 1) % 8) + 1

General(s, oc) == [addr |-> 0, val |-> <<s.rate, NddcCode(s), oc>>]
TuneTx(s) == [addr |-> 2, val |-> <<s.tx_frequency>>]
TuneRx(d, f) == [addr |-> 4 + 2 * d, val |-> <<f>>]
Drive(s) == [addr |-> 18, val |-> <<s.tx_drive, IF HermesLite THEN 1 ELSE 0>>]
\* Attenuator, step attenuator, ADC assignment: no register of the emulator.
Other == [addr |-> 20, val |-> <<>>]

\* Mutant: the rotation is too short.
MutantNextIdx(idx) == IF idx = 8 THEN 0 ELSE idx + 1

NextIdx(idx) == (idx + 1) % ROTATION

\* Mutant: the filter is set at the start only.
MutantNextControl(s, idx) ==
  CASE idx = 0 -> General(s, 0)
    [] idx = 1 -> TuneTx(s)
    [] idx \in 2..8 ->
         TuneRx(idx - 2, IF idx - 2 < s.nddc THEN s.rx_frequencies[idx - 2] ELSE 0)
    [] idx = 9 -> Drive(s)
    [] OTHER -> Other

\* next_control_command.
NextControl(s, idx) ==
  CASE idx = 0 -> General(s, Oc(s))
    [] idx = 1 -> TuneTx(s)
    [] idx \in 2..8 ->
         TuneRx(idx - 2, IF idx - 2 < s.nddc THEN s.rx_frequencies[idx - 2] ELSE 0)
    [] idx = 9 -> Drive(s)
    [] OTHER -> Other

\* send_config, the packets of which carry one register and the general one.
\* The frequency of DDC 7 would go to the address of the drive.
ConfigCommands(s) ==
  <<General(s, 0), TuneTx(s)>>
    \o [d \in 1..(IF s.nddc > 8 THEN 8 ELSE s.nddc) |->
          TuneRx(d - 1, s.rx_frequencies[d - 1])]
    \o <<Drive(s)>>

\* process_control.
Obeyed(r, c, mox) ==
  LET keyed == [r EXCEPT !.ptt = mox]
  IN  CASE c.addr = 0 -> [keyed EXCEPT !.rate = c.val[1], !.nddc = c.val[2],
                                       !.oc = c.val[3]]
        [] c.addr = 2 -> [keyed EXCEPT !.tx_frequency = c.val[1]]
        [] c.addr \in 4..16 ->
             [keyed EXCEPT !.rx_frequencies[(c.addr - 4) \div 2] = c.val[1]]
        [] c.addr = 18 /\ Len(c.val) = 2 ->
             [keyed EXCEPT !.tx_drive = c.val[1], !.pa = (c.val[2] = 1)]
        \* A frequency read as a drive and, in bit 19, as PA enable.
        [] c.addr = 18 /\ Len(c.val) = 1 ->
             [keyed EXCEPT !.tx_drive = c.val[1] \div 16777216,
                           !.pa = (((c.val[1] \div 524288) % 2) = 1)]
        [] OTHER -> keyed

Command(what) == [what |-> what, mox |-> FALSE, controls |-> <<>>, iq |-> "none"]
Data(s, controls, iq) ==
  [what |-> "data", mox |-> s.ptt, controls |-> controls, iq |-> iq]

Room == Len(net) < NET_CAP
\* An error of the socket is one of the faults.
Outcome(sent) == /\ sent \/ faults < MAX_FAULTS
                 /\ faults' = IF sent THEN faults ELSE faults + 1
\* Packets in flight carry the settings of before; they do not count.
Unsettled(n) == settled' = 0 - Len(n)

-----------------------------------------------------------------------------
(* The host program: setters, start, stop, run, and the ring of samples.   *)

\* What one setter or command may make of the settings.
Changed(s) ==
       {[s EXCEPT !.tx_frequency = f] : f \in TxFreqs}
  \cup {[s EXCEPT !.rx_frequencies[0] = f] : f \in RxFreqs}
  \cup {[s EXCEPT !.rate = r] : r \in Rates}
  \cup {[s EXCEPT !.nddc = n] : n \in Nddcs}
  \cup {[s EXCEPT !.tx_drive = d] : d \in Drives}

Configure(s) == settings' = s /\ Unsettled(net)

\* A setter needs the client for itself, a command only the channel.
Set ==
  /\ in_run => commands
  /\ \E s \in Changed(settings) : s # settings /\ Configure(s)
  /\ UNCHANGED <<tx_cw_mode, running, in_run, commands, control_idx, ring,
                 tx_iq_buffer, pkt_samples, net, radio, faults>>

\* Off, the command forgets the samples left over; the setter does not.
SetPtt ==
  /\ in_run => commands
  /\ \E on \in BOOLEAN :
       /\ Configure([settings EXCEPT !.ptt = on])
       /\ tx_iq_buffer' = IF in_run /\ ~on THEN 0 ELSE tx_iq_buffer
  /\ UNCHANGED <<tx_cw_mode, running, in_run, commands, control_idx, ring,
                 pkt_samples, net, radio, faults>>

SetCwMode ==
  /\ in_run /\ commands
  /\ tx_cw_mode' = ~tx_cw_mode
  /\ UNCHANGED <<settings, running, in_run, commands, control_idx, ring,
                 tx_iq_buffer, pkt_samples, net, radio, faults, settled>>

\* Sent one by one; the first that cannot be sent ends it.
StartPackets(s) ==
  <<Command("start")>>
    \o [i \in 1..Len(ConfigCommands(s)) |->
          Data(s, <<ConfigCommands(s)[i], General(s, 0)>>, "none")]

Start ==
  /\ ~in_run /\ Room
  /\ \E n \in 0..Len(StartPackets(settings)) :
       /\ Outcome(n = Len(StartPackets(settings)))
       /\ net' = net \o SubSeq(StartPackets(settings), 1, n)
       /\ running' = (running \/ n > 0)
  /\ Unsettled(net')
  /\ UNCHANGED <<settings, tx_cw_mode, in_run, commands, control_idx, ring,
                 tx_iq_buffer, pkt_samples, radio>>

\* stop(), or the command: the loop ends at once, with an error if the packet
\* cannot be sent.
Stop ==
  /\ Room /\ (in_run => commands)
  /\ \E sent \in BOOLEAN :
       /\ Outcome(sent)
       /\ net' = IF sent THEN Append(net, Command("stop")) ELSE net
       /\ running' = (running /\ ~sent)
  /\ in_run' = FALSE
  /\ commands' = (commands /\ ~in_run)
  /\ UNCHANGED <<settings, tx_cw_mode, control_idx, ring, tx_iq_buffer,
                 pkt_samples, radio, settled>>

\* run() takes the receiver of the commands for good, even if it has nothing
\* to do.  A second run() has none.
Run ==
  /\ ~in_run
  /\ in_run' = running
  /\ commands' = (commands /\ running)
  /\ pkt_samples' = SamplesPerPacket(settings.nddc)
  /\ UNCHANGED <<settings, tx_cw_mode, running, control_idx, ring, tx_iq_buffer,
                 net, radio, faults, settled>>

\* The ring refuses what it has no room for.
Produce ==
  /\ \E n \in Blocks : ring' = IF ring + n > RING_CAP THEN RING_CAP ELSE ring + n
  /\ ring' # ring
  /\ UNCHANGED <<settings, tx_cw_mode, running, in_run, commands, control_idx,
                 tx_iq_buffer, pkt_samples, net, radio, faults, settled>>

-----------------------------------------------------------------------------
(* The loop of run(): the branch that sends, and the time-out.             *)

Voice == settings.ptt /\ ~tx_cw_mode

\* Mutant: enough for the next sub-frame.
MutantEnough == tx_iq_buffer + ring >= SUBFRAME

Enough == tx_iq_buffer + ring >= pkt_samples

\* fill_host_subframe: what it moves from the ring, and what it then takes.
Refill(iq) == IF iq.buffer < SUBFRAME THEN [buffer |-> iq.buffer + iq.ring, ring |-> 0]
                                      ELSE iq
\* Mutant: takes a sub-frame whatever there is.
MutantTake(iq) == [iq EXCEPT !.buffer = @ - SUBFRAME]

Take(iq) == [iq EXCEPT !.buffer = IF @ < SUBFRAME THEN 0 ELSE @ - SUBFRAME]

\* One packet: two sub-frames.  A voice packet that could not be filled is
\* skipped, with its control commands, and tried again.
SendHostData ==
  /\ in_run /\ Room
  /\ Voice => Enough
  /\ LET iq0 == [buffer |-> tx_iq_buffer, ring |-> ring]
         iq1 == Refill(iq0)
         iq2 == Refill(Take(iq1))
         left == IF settings.ptt THEN Take(iq2) ELSE iq0
         full == iq1.buffer >= SUBFRAME /\ iq2.buffer >= SUBFRAME
         packet == Data(settings,
                        <<NextControl(settings, control_idx),
                          NextControl(settings, NextIdx(control_idx))>>,
                        IF ~Voice THEN "none" ELSE IF full THEN "full" ELSE "padded")
     IN  /\ tx_iq_buffer' = left.buffer
         /\ ring' = left.ring
         /\ \E sent \in BOOLEAN :
              /\ Outcome(sent)
              /\ net' = IF sent THEN Append(net, packet) ELSE net
              /\ in_run' = sent
              /\ commands' = (commands /\ sent)
              /\ IF sent THEN UNCHANGED settled ELSE Unsettled(net)
  /\ control_idx' = NextIdx(NextIdx(control_idx))
  /\ UNCHANGED <<settings, tx_cw_mode, running, pkt_samples, radio>>

\* No packet for RECV_TIMEOUT.  Nobody tells the radio.
ConnectionLost ==
  /\ in_run
  /\ in_run' = FALSE /\ commands' = FALSE
  /\ UNCHANGED <<settings, tx_cw_mode, running, control_idx, ring, tx_iq_buffer,
                 pkt_samples, net, radio, faults, settled>>

-----------------------------------------------------------------------------
(* The network and the radio.                                              *)

Handled(r, m) ==
  CASE m.what = "start" -> IF r.on THEN r ELSE NewRadio(TRUE)
    [] m.what = "stop" -> NewRadio(FALSE)
    [] OTHER ->
         IF r.on THEN Obeyed(Obeyed(r, m.controls[1], m.mox), m.controls[2], m.mox) ELSE r

Arrive ==
  /\ net # <<>>
  /\ radio' = Handled(radio, Head(net))
  /\ net' = Tail(net)
  /\ settled' = CASE Head(net).what # "data" -> 0 - Len(net')
                  [] OTHER -> IF settled = 7 THEN 7 ELSE settled + 1
  /\ UNCHANGED <<hostVars, faults>>

Fault ==
  /\ faults < MAX_FAULTS /\ faults' = faults + 1
  /\ Unsettled(net')
  /\ UNCHANGED hostVars

Lose ==
  /\ \E k \in DOMAIN net : net' = RemoveAt(net, k)
  /\ UNCHANGED radio
  /\ Fault

\* One overtakes those before it.
Overtake ==
  /\ \E k \in 2..Len(net) : /\ net' = RemoveAt(net, k)
                            /\ radio' = Handled(radio, net[k])
  /\ Fault

\* One arrives now, and again later.
Repeat ==
  /\ net # <<>>
  /\ net' = Append(Tail(net), Head(net))
  /\ radio' = Handled(radio, Head(net))
  /\ Fault

-----------------------------------------------------------------------------
HostStep == Set \/ SetPtt \/ SetCwMode \/ Start \/ Stop \/ Run \/ Produce
              \/ SendHostData \/ ConnectionLost
NetStep == Arrive \/ Lose \/ Overtake \/ Repeat
TxNext == HostStep \/ NetStep
TxSpec == TxInit /\ [][TxNext]_txVars

\* The loop comes to each of its branches; the network delivers what it does
\* not lose.  A radio that is off sends nothing.
TxFairness ==
  /\ WF_txVars(SendHostData)
  /\ WF_txVars(ConnectionLost /\ ~radio.on)
  /\ WF_txVars(Arrive)

-----------------------------------------------------------------------------
(* Properties.                                                             *)

Packet ==
  [what : {"start", "stop", "data"}, mox : BOOLEAN,
   controls : Seq([addr : 0..20, val : Seq(Nat)]), iq : {"none", "full", "padded"}]

\* Types.  The rotation stays in its bounds, and so does what is counted: the
\* ring, and the samples of at most one ring and part of a sub-frame.
TxTypeOK ==
  /\ settings \in Settings
  /\ {tx_cw_mode, running, in_run, commands} \subseteq BOOLEAN
  /\ control_idx \in 0..ROTATION - 1
  /\ ring \in 0..RING_CAP
  /\ tx_iq_buffer \in 0..RING_CAP + SUBFRAME - 1
  /\ pkt_samples \in {SamplesPerPacket(n) : n \in Nddcs}
  /\ net \in Seq(Packet)
  /\ radio \in Radio
  /\ faults \in 0..MAX_FAULTS
  /\ settled \in Int /\ settled <= 7

\* No voice packet goes out with part of a sub-frame empty, which would be
\* heard as splatter (run, protocol1.rs): the guard looks at the ring and the
\* buffer, fill_host_subframe empties them in another order and the number it
\* looks for was computed when run() began.
NoZeroPad == \A k \in DOMAIN net : net[k].iq # "padded"

\* The radio agrees with the settings in everything the rotation carries.
Converged ==
  /\ radio.rate = settings.rate
  /\ radio.nddc = NddcCode(settings)
  /\ radio.oc = Oc(settings)
  /\ radio.tx_frequency = settings.tx_frequency
  /\ \A d \in 0..6 : d < settings.nddc =>
                       radio.rx_frequencies[d] = settings.rx_frequencies[d]
  /\ radio.tx_drive = settings.tx_drive
  /\ radio.pa = HermesLite
  /\ radio.ptt = settings.ptt

\* Whatever was lost, repeated or overtaken before: seven packets in order
\* after the last change of a setting and the last fault, the radio is tuned,
\* filtered, driven and keyed as set (next_control_command, process_control).
\* This bounds the time it is on the air with the wrong filter.
OneRotationTunes == settled = 7 /\ radio.on => Converged

\* A host that leaves its settings alone and is not kept from sending has, at
\* last, a radio that runs and is tuned as set, or its run() has ended: the
\* start is sent once, but a silent radio is noticed (run, protocol1.rs).
TunesAtLast ==
  (<>[](in_run /\ ~Voice) /\ <>[][UNCHANGED settings]_settings)
    => <>[](radio.on /\ Converged)
=============================================================================
