-------------------------- MODULE P1TransmitProofs --------------------------
(***************************************************************************)
(* Proofs about P1Transmit and P1Session: the list discover() returns is   *)
(* exact, types are kept, with one DDC no voice packet is padded, and a    *)
(* whole turn of the control rotation tunes the radio, whatever the        *)
(* sockets, the capacities, the blocks of samples, the settings and the    *)
(* network.                                                                *)
(***************************************************************************)
EXTENDS P1Session, SequenceTheorems, TLAPS

USE DEF ROTATION, Ddcs

\* What the loop sends but for the padded packets, and all the packets sent.
Packed(s, i, q) == Data(s, <<NextControl(s, i), NextControl(s, NextIdx(i))>>, q)
Rotated == {Packed(s, i, q) : s \in Settings, i \in 0..12, q \in {"none", "full"}}
Configured ==
  {Data(s, <<ConfigCommands(s)[i], General(s, 0)>>, "none") :
     s \in Settings, i \in Nat}
Sent == Rotated \union Configured \union {Command("start"), Command("stop")}

\* Enough samples were asked for, and what is counted is not below zero.
SampleInv ==
  /\ settings \in Settings
  /\ control_idx \in 0..12
  /\ ring \in Nat /\ tx_iq_buffer \in Nat
  /\ pkt_samples = 2 * SUBFRAME
  /\ net \in Seq(Sent)

-----------------------------------------------------------------------------
(* Lemmas.                                                                 *)

\* Removal leaves a sequence over the same set.
LEMMA RemoveAtType ==
  ASSUME NEW S, NEW q \in Seq(S), NEW k \in DOMAIN q
  PROVE  RemoveAt(q, k) \in Seq(S)
<1>1. k \in 1..Len(q) OBVIOUS
<1>2. SubSeq(q, 1, k - 1) \in Seq(S) BY <1>1
<1>3. SubSeq(q, k + 1, Len(q)) \in Seq(S) BY <1>1
<1> QED BY <1>2, <1>3 DEF RemoveAt

\* The packets of start() are a sequence of packets.
LEMMA StartPacketsType ==
  ASSUME NEW s \in Settings
  PROVE  StartPackets(s) \in Seq(Sent) /\ Len(StartPackets(s)) >= 1
<1> DEFINE n == IF s.nddc > 8 THEN 8 ELSE s.nddc
           rx == [d \in 1..n |-> TuneRx(d - 1, s.rx_frequencies[d - 1])]
           ends == {General(s, 0), TuneTx(s), Drive(s)}
           C == ends \union {rx[d] : d \in 1..n}
           pkts == [i \in 1..Len(ConfigCommands(s)) |->
                      Data(s, <<ConfigCommands(s)[i], General(s, 0)>>, "none")]
<1>1. n \in Nat
  <2>1. s.nddc \in Nddcs BY DEF Settings
  <2>2. s.nddc \in 1..255 BY <2>1, TransmitAssumption DEF TransmitAssumption
  <2> QED BY <2>2
<1> HIDE DEF n
<1>2. rx \in Seq(C)
  <2> DEFINE r(d) == TuneRx(d - 1, s.rx_frequencies[d - 1])
  <2>1. \A d \in 1..n : r(d) \in C
    <3> TAKE d \in 1..n
    <3>1. r(d) = rx[d] OBVIOUS
    <3> HIDE DEF r, rx, ends
    <3> QED BY <3>1
  <2>2. rx = [d \in 1..n |-> r(d)] OBVIOUS
  <2> HIDE DEF r, rx, C
  <2> QED BY <1>1, <2>1, <2>2
<1>3. <<General(s, 0), TuneTx(s)>> \in Seq(C) /\ <<Drive(s)>> \in Seq(C) OBVIOUS
<1>4. ConfigCommands(s) = (<<General(s, 0), TuneTx(s)>> \o rx) \o <<Drive(s)>>
  BY DEF ConfigCommands, n
<1>5. ConfigCommands(s) \in Seq(C)
  <2> HIDE DEF C, rx
  <2> QED BY <1>2, <1>3, <1>4
<1>6. Len(ConfigCommands(s)) \in Nat BY <1>5
<1>7. \A i \in 1..Len(ConfigCommands(s)) : pkts[i] \in Sent BY <1>6 DEF Sent, Configured
<1>8. pkts \in Seq(Sent)
  <2> HIDE DEF pkts
  <2>1. DOMAIN pkts = 1..Len(ConfigCommands(s)) BY DEF pkts
  <2>2. pkts = [i \in 1..Len(ConfigCommands(s)) |-> pkts[i]] BY DEF pkts
  <2> QED BY <1>6, <1>7, <2>2
<1>9. <<Command("start")>> \in Seq(Sent) BY DEF Sent
<1> HIDE DEF pkts
<1>10. StartPackets(s) = <<Command("start")>> \o pkts BY DEF StartPackets, pkts
<1> QED BY <1>8, <1>9, <1>10

\* One DDC: a packet of the loop holds two sub-frames.
LEMMA OneDdc ==
  ASSUME Nddcs = {1}, ROW_BYTES = 8 * SUBFRAME, NEW s \in Settings
  PROVE  SamplesPerPacket(s.nddc) = 2 * SUBFRAME
<1>1. s.nddc = 1 BY DEF Settings
<1>2. SUBFRAME \in Nat BY TransmitAssumption DEF TransmitAssumption
<1>3. ROW_BYTES \div 8 = SUBFRAME BY <1>2
<1> QED BY <1>1, <1>2, <1>3 DEF SamplesPerPacket

\* A setter keeps the settings what they are.
LEMMA ChangedType ==
  ASSUME NEW s \in Settings, NEW t \in Changed(s)
  PROVE  t \in Settings
<1> USE DEF Settings, AllFreqs
<1>1. CASE \E f \in TxFreqs : t = [s EXCEPT !.tx_frequency = f] BY <1>1
<1>2. CASE \E f \in RxFreqs : t = [s EXCEPT !.rx_frequencies[0] = f]
  <2>1. PICK f \in RxFreqs :
          t = [s EXCEPT !.rx_frequencies = [s.rx_frequencies EXCEPT ![0] = f]]
    BY <1>2
  <2>2. [s.rx_frequencies EXCEPT ![0] = f] \in [Ddcs -> AllFreqs] OBVIOUS
  <2> QED BY <2>1, <2>2
<1>3. CASE \E r \in Rates : t = [s EXCEPT !.rate = r] BY <1>3
<1>4. CASE \E n \in Nddcs : t = [s EXCEPT !.nddc = n] BY <1>4
<1>5. CASE \E d \in Drives : t = [s EXCEPT !.tx_drive = d] BY <1>5
<1> QED BY <1>1, <1>2, <1>3, <1>4, <1>5 DEF Changed

LEMMA KeyedType ==
  ASSUME NEW s \in Settings, NEW on \in BOOLEAN
  PROVE  [s EXCEPT !.ptt = on] \in Settings
BY DEF Settings

\* What Refill and Take do to the samples there are.
Iq == [buffer : Nat, ring : Nat]

LEMMA RefillKeeps ==
  ASSUME NEW iq \in Iq
  PROVE  /\ Refill(iq) \in Iq
         /\ Refill(iq).buffer + Refill(iq).ring = iq.buffer + iq.ring
         /\ iq.buffer + iq.ring >= SUBFRAME => Refill(iq).buffer >= SUBFRAME
BY TransmitAssumption DEF TransmitAssumption, Iq, Refill

LEMMA TakeTakes ==
  ASSUME NEW iq \in Iq
  PROVE  /\ Take(iq) \in Iq
         /\ iq.buffer >= SUBFRAME =>
              Take(iq).buffer + Take(iq).ring = iq.buffer + iq.ring - SUBFRAME
BY TransmitAssumption DEF TransmitAssumption, Iq, Take

\* A packet the guard lets pass is not padded, and the counts stay natural.
LEMMA SendIsSent ==
  ASSUME SampleInv, SendHostData
  PROVE  ring' \in Nat /\ tx_iq_buffer' \in Nat /\ net' \in Seq(Sent)
<1> DEFINE iq0 == [buffer |-> tx_iq_buffer, ring |-> ring]
           iq1 == Refill(iq0)
           iq2 == Refill(Take(iq1))
           left == IF settings.ptt THEN Take(iq2) ELSE iq0
           full == iq1.buffer >= SUBFRAME /\ iq2.buffer >= SUBFRAME
           q == IF ~Voice THEN "none" ELSE IF full THEN "full" ELSE "padded"
           packet == Packed(settings, control_idx, q)
<1>1. /\ Voice => Enough
      /\ tx_iq_buffer' = left.buffer /\ ring' = left.ring
      /\ net' \in {net, Append(net, packet)}
  BY DEF SendHostData, Packed
<1>2. iq0 \in Iq BY DEF SampleInv, Iq
<1> HIDE DEF iq0
<1>3. iq1 \in Iq /\ Take(iq1) \in Iq BY <1>2, RefillKeeps, TakeTakes
<1>4. iq2 \in Iq /\ Take(iq2) \in Iq BY <1>3, RefillKeeps, TakeTakes
<1>5. ring' \in Nat /\ tx_iq_buffer' \in Nat BY <1>1, <1>2, <1>4 DEF Iq
<1>6. ASSUME Voice PROVE full
  <2> USE TransmitAssumption DEF TransmitAssumption, Iq
  <2>1. iq0.buffer + iq0.ring >= 2 * SUBFRAME BY <1>1, <1>6 DEF Enough, SampleInv, iq0
  <2>2. iq1.buffer >= SUBFRAME /\ iq1.buffer + iq1.ring >= 2 * SUBFRAME
    BY <1>2, <2>1, RefillKeeps
  <2>3. Take(iq1).buffer + Take(iq1).ring >= SUBFRAME BY <1>3, <2>2, TakeTakes
  <2>4. iq2.buffer >= SUBFRAME BY <1>3, <2>3, RefillKeeps
  <2> QED BY <2>2, <2>4
<1>7. q \in {"none", "full"} BY <1>6
<1> HIDE DEF q
<1>8. settings \in Settings /\ control_idx \in 0..12 BY DEF SampleInv
<1>9. packet \in Rotated BY <1>7, <1>8 DEF Rotated
<1> HIDE DEF packet, iq1, iq2, left
<1>10. packet \in Sent /\ net \in Seq(Sent) BY <1>9 DEF Sent, SampleInv
<1>11. net' \in Seq(Sent) BY <1>1, <1>10
<1> QED BY <1>5, <1>11

-----------------------------------------------------------------------------
LEMMA SampleInvStep ==
  ASSUME Nddcs = {1}, ROW_BYTES = 8 * SUBFRAME, SampleInv, [TxNext]_txVars
  PROVE  SampleInv'
<1> USE TransmitAssumption DEF TransmitAssumption
<1>1. CASE Set
  <2>1. PICK s \in Changed(settings) : settings' = s BY <1>1 DEF Set, Configure
  <2>2. s \in Settings BY ChangedType DEF SampleInv
  <2> QED BY <1>1, <2>1, <2>2 DEF Set, SampleInv
<1>2. CASE SetPtt
  <2>1. PICK on \in BOOLEAN : settings' = [settings EXCEPT !.ptt = on]
    BY <1>2 DEF SetPtt, Configure
  <2>2. settings' \in Settings BY <2>1, KeyedType DEF SampleInv
  <2> QED BY <1>2, <2>2 DEF SetPtt, SampleInv
<1>3. CASE SetCwMode BY <1>3 DEF SetCwMode, SampleInv
<1>4. CASE Start
  <2>1. PICK n \in 0..Len(StartPackets(settings)) :
          net' = net \o SubSeq(StartPackets(settings), 1, n)
    BY <1>4 DEF Start
  <2>2. StartPackets(settings) \in Seq(Sent) /\ Len(StartPackets(settings)) >= 1
    BY StartPacketsType DEF SampleInv
  <2>3. SubSeq(StartPackets(settings), 1, n) \in Seq(Sent) BY <2>2
  <2>4. net' \in Seq(Sent) BY <2>1, <2>3 DEF SampleInv
  <2> QED BY <1>4, <2>4 DEF Start, SampleInv
<1>5. CASE Stop
  <2>1. net' \in {net, Append(net, Command("stop"))} BY <1>5 DEF Stop
  <2> QED BY <1>5, <2>1 DEF Stop, SampleInv, Sent
<1>6. CASE Run BY <1>6, OneDdc DEF Run, SampleInv
<1>7. CASE Produce BY <1>7 DEF Produce, SampleInv
<1>8. CASE SendHostData
  <2>1. control_idx' \in 0..12 BY <1>8 DEF SendHostData, SampleInv, NextIdx
  <2> QED BY <1>8, <2>1, SendIsSent DEF SendHostData, SampleInv
<1>9. CASE ConnectionLost BY <1>9 DEF ConnectionLost, SampleInv
<1>10. CASE Arrive BY <1>10 DEF Arrive, hostVars, SampleInv
<1>11. CASE Lose BY <1>11, RemoveAtType DEF Lose, Fault, hostVars, SampleInv
<1>12. CASE Overtake BY <1>12, RemoveAtType DEF Overtake, Fault, hostVars, SampleInv
<1>13. CASE Repeat BY <1>13 DEF Repeat, Fault, hostVars, SampleInv
<1>14. CASE UNCHANGED txVars BY <1>14 DEF txVars, hostVars, SampleInv
<1> QED BY <1>1, <1>2, <1>3, <1>4, <1>5, <1>6, <1>7, <1>8, <1>9, <1>10, <1>11,
           <1>12, <1>13, <1>14 DEF TxNext, HostStep, NetStep

\* With one DDC no voice packet goes out padded: the guard of run() is right
\* about the order in which fill_host_subframe empties the ring.
THEOREM NoPadding ==
  ASSUME Nddcs = {1}, ROW_BYTES = 8 * SUBFRAME
  PROVE  TxSpec => []NoZeroPad
<1>1. TxInit => SampleInv
  <2> SUFFICES ASSUME TxInit PROVE SampleInv OBVIOUS
  <2>1. settings \in Settings
    BY TransmitAssumption DEF TransmitAssumption, TxInit, Settings, AllFreqs
  <2>2. pkt_samples = 2 * SUBFRAME
    <3>1. settings.nddc = 1 BY DEF TxInit
    <3> QED BY <2>1, <3>1, OneDdc DEF TxInit
  <2> QED BY <2>1, <2>2 DEF TxInit, SampleInv
<1>2. SampleInv /\ [TxNext]_txVars => SampleInv' BY SampleInvStep
<1>3. SampleInv => NoZeroPad
  <2> SUFFICES ASSUME SampleInv, NEW k \in DOMAIN net PROVE net[k].iq # "padded"
    BY DEF NoZeroPad
  <2>1. net[k] \in Sent BY DEF SampleInv
  <2> QED BY <2>1 DEF Sent, Rotated, Packed, Configured, Data, Command
<1> QED BY <1>1, <1>2, <1>3, PTL DEF TxSpec

-----------------------------------------------------------------------------
(* Types.  The radio's registers have theirs because every control command *)
(* on the wire is one of these.                                            *)

Generals == Rates \X (1..8) \X (0..127)
Freqs == {<<f>> : f \in AllFreqs \union {0}}
Drivings == (0..255) \X {0, 1}

Controls ==
       [addr : {0}, val : Generals]
  \cup [addr : {2}, val : {<<f>> : f \in AllFreqs}]
  \cup [addr : {4, 6, 8, 10, 12, 14, 16, 18}, val : Freqs]
  \cup [addr : {18}, val : Drivings]
  \cup [addr : {20}, val : {<<>>}]

DataWire ==
  [what : {"data"}, mox : BOOLEAN,
   controls : {<<c1, c2>> : c1 \in Controls, c2 \in Controls},
   iq : {"none", "full", "padded"}]

Wire == DataWire \union {Command("start"), Command("stop")}

TxTypeInv == TxTypeOK /\ net \in Seq(Wire)

LEMMA Numbers ==
  /\ AllFreqs \subseteq Nat /\ Rates \subseteq Nat /\ Drives \subseteq 0..255
  /\ Nddcs \subseteq 1..255 /\ MAX_FAULTS \in Nat
  /\ SUBFRAME \in Nat \ {0} /\ RING_CAP \in Nat \ {0} /\ Blocks \subseteq Nat
BY TransmitAssumption DEF TransmitAssumption, AllFreqs

LEMMA WireIsPacket == Wire \subseteq Packet
<1>1. ASSUME NEW c \in Controls PROVE c \in [addr : 0..20, val : Seq(Nat)]
  <2>1. \A n \in Nat : <<n>> \in Seq(Nat)
    OBVIOUS
  <2>2. \A a, b \in Nat : <<a, b>> \in Seq(Nat)
    OBVIOUS
  <2>3. \A a, b, d \in Nat : <<a, b, d>> \in Seq(Nat)
    OBVIOUS
  <2>4. <<>> \in Seq(Nat)
    OBVIOUS
  <2>5. c.addr \in 0..20 /\ c = [addr |-> c.addr, val |-> c.val]
    BY DEF Controls
  <2>6. c.val \in Seq(Nat)
    <3>1. Generals \subseteq Seq(Nat)
      <4> SUFFICES ASSUME NEW g \in Generals PROVE g \in Seq(Nat)
        OBVIOUS
      <4>0. PICK r \in Rates, n \in 1..8, oc \in 0..127 : g = <<r, n, oc>>
        BY DEF Generals
      <4>1. r \in Nat /\ n \in Nat /\ oc \in Nat
        BY Numbers
      <4> QED
        BY <2>3, <4>0, <4>1
    <3>2. Freqs \subseteq Seq(Nat) /\ {<<f>> : f \in AllFreqs} \subseteq Seq(Nat)
      BY <2>1, Numbers DEF Freqs
    <3>3. Drivings \subseteq Seq(Nat)
      <4> SUFFICES ASSUME NEW g \in Drivings PROVE g \in Seq(Nat)
        OBVIOUS
      <4>0. PICK d \in 0..255, pa \in {0, 1} : g = <<d, pa>>
        BY DEF Drivings
      <4>1. d \in Nat /\ pa \in Nat
        OBVIOUS
      <4> QED
        BY <2>2, <4>0, <4>1
    <3> QED
      BY <2>4, <3>1, <3>2, <3>3 DEF Controls
  <2> QED
    BY <2>5, <2>6
<1>2. ASSUME NEW p \in DataWire PROVE p \in Packet
  <2>1. PICK c1 \in Controls, c2 \in Controls : p.controls = <<c1, c2>>
    BY DEF DataWire
  <2>2. p.controls \in Seq([addr : 0..20, val : Seq(Nat)])
    <3>1. c1 \in [addr : 0..20, val : Seq(Nat)] /\ c2 \in [addr : 0..20, val : Seq(Nat)]
      BY <1>1
    <3> QED
      BY <2>1, <3>1
  <2> QED
    BY <2>2 DEF DataWire, Packet
<1>3. \A w \in {"start", "stop"} : Command(w) \in Packet
  BY DEF Command, Packet
<1> QED
  BY <1>2, <1>3 DEF Wire

\* The commands the host builds.
LEMMA GeneralType ==
  ASSUME NEW s \in Settings, NEW oc \in 0..127
  PROVE  General(s, oc) \in Controls
<1>1. s.nddc \in 1..255 /\ s.rate \in Rates
  BY Numbers DEF Settings
<1>2. NddcCode(s) \in 1..8
  BY <1>1 DEF NddcCode
<1> QED
  BY <1>1, <1>2 DEF General, Controls, Generals

LEMMA OcType ==
  ASSUME NEW s \in Settings
  PROVE  Oc(s) \in 0..127
<1>1. \A f \in Nat : FilterOf(f) \in 0..127
  BY SMT DEF FilterOf
<1>2. s.tx_frequency \in AllFreqs /\ s.rx_frequencies[0] \in AllFreqs
  BY DEF Settings
<1>3. s.tx_frequency \in Nat /\ s.rx_frequencies[0] \in Nat
  BY <1>2, Numbers
<1> QED
  BY <1>1, <1>3 DEF Oc

LEMMA TuneRxType ==
  ASSUME NEW d \in 0..7, NEW f \in AllFreqs \union {0}
  PROVE  TuneRx(d, f) \in Controls
<1>1. 4 + 2 * d \in {4, 6, 8, 10, 12, 14, 16, 18}
  OBVIOUS
<1> QED
  BY <1>1 DEF TuneRx, Controls, Freqs

LEMMA OtherTypes ==
  ASSUME NEW s \in Settings
  PROVE  TuneTx(s) \in Controls /\ Drive(s) \in Controls /\ Other \in Controls
<1>1. s.tx_frequency \in AllFreqs /\ s.tx_drive \in 0..255
  BY Numbers DEF Settings
<1> QED
  BY <1>1 DEF TuneTx, Drive, Other, Controls, Drivings

LEMMA NextControlType ==
  ASSUME NEW s \in Settings, NEW idx \in 0..12
  PROVE  NextControl(s, idx) \in Controls
<1>1. CASE idx = 0
  BY <1>1, GeneralType, OcType DEF NextControl
<1>2. CASE idx \in 2..8
  <2> DEFINE f == IF idx - 2 < s.nddc THEN s.rx_frequencies[idx - 2] ELSE 0
  <2>1. f \in AllFreqs \union {0}
    BY <1>2 DEF Settings
  <2>2. NextControl(s, idx) = TuneRx(idx - 2, f)
    BY <1>2 DEF NextControl
  <2> HIDE DEF f
  <2>3. idx - 2 \in 0..7
    BY <1>2
  <2> QED
    BY <2>1, <2>2, <2>3, TuneRxType
<1>3. CASE idx \in {1} \cup 9..12
  BY <1>3, OtherTypes DEF NextControl
<1> QED
  BY <1>1, <1>2, <1>3

LEMMA ConfigCommandsType ==
  ASSUME NEW s \in Settings
  PROVE  ConfigCommands(s) \in Seq(Controls)
<1> DEFINE n == IF s.nddc > 8 THEN 8 ELSE s.nddc
           r(d) == TuneRx(d - 1, s.rx_frequencies[d - 1])
           rx == [d \in 1..n |-> r(d)]
<1>1. n \in 1..8
  <2>1. s.nddc \in 1..255
    BY Numbers DEF Settings
  <2> QED
    BY <2>1
<1> HIDE DEF n
<1>2. ASSUME NEW d \in 1..n PROVE r(d) \in Controls
  <2>1. d - 1 \in 0..7 /\ s.rx_frequencies[d - 1] \in AllFreqs \union {0}
    BY <1>1 DEF Settings
  <2> QED
    BY <2>1, TuneRxType
<1> HIDE DEF r
<1>3. rx \in Seq(Controls)
  BY <1>1, <1>2
<1>4. General(s, 0) \in Controls /\ TuneTx(s) \in Controls /\ Drive(s) \in Controls
  BY GeneralType, OtherTypes
<1>5. <<General(s, 0), TuneTx(s)>> \in Seq(Controls) /\ <<Drive(s)>> \in Seq(Controls)
  BY <1>4
<1>6. ConfigCommands(s) = (<<General(s, 0), TuneTx(s)>> \o rx) \o <<Drive(s)>>
  BY DEF ConfigCommands, n, r
<1> HIDE DEF rx
<1> QED
  BY <1>3, <1>5, <1>6

LEMMA DataType ==
  ASSUME NEW s \in Settings, NEW c1 \in Controls, NEW c2 \in Controls,
         NEW q \in {"none", "full", "padded"}
  PROVE  Data(s, <<c1, c2>>, q) \in Wire
BY DEF Data, Wire, DataWire, Settings

LEMMA StartWire ==
  ASSUME NEW s \in Settings
  PROVE  StartPackets(s) \in Seq(Wire)
<1> DEFINE cs == ConfigCommands(s)
           pkt(i) == Data(s, <<cs[i], General(s, 0)>>, "none")
           pkts == [i \in 1..Len(cs) |-> pkt(i)]
<1>1. cs \in Seq(Controls) /\ General(s, 0) \in Controls
  BY ConfigCommandsType, GeneralType
<1> HIDE DEF cs
<1>2. ASSUME NEW i \in 1..Len(cs) PROVE pkt(i) \in Wire
  <2>1. cs[i] \in Controls
    BY <1>1
  <2> QED
    BY <1>1, <2>1, DataType
<1>3. Len(cs) \in Nat
  BY <1>1
<1> HIDE DEF pkt
<1>4. pkts \in Seq(Wire)
  BY <1>2, <1>3
<1>5. <<Command("start")>> \in Seq(Wire)
  BY DEF Wire
<1>6. StartPackets(s) = <<Command("start")>> \o pkts
  BY DEF StartPackets, cs, pkt
<1> HIDE DEF pkts
<1> QED
  BY <1>4, <1>5, <1>6

\* The radio's registers stay registers.
LEMMA ObeyedType ==
  ASSUME NEW r \in Radio, NEW c \in Controls, NEW mox \in BOOLEAN
  PROVE  Obeyed(r, c, mox) \in Radio
<1> DEFINE keyed == [r EXCEPT !.ptt = mox]
<1>1. keyed \in Radio
  BY DEF Radio
<1> HIDE DEF keyed
<1>2. CASE c.addr = 0
  <2>1. c.val[1] \in Rates /\ c.val[2] \in 1..8 /\ c.val[3] \in 0..127
    <3>1. c.val \in Generals
      BY <1>2 DEF Controls
    <3> QED
      BY <3>1 DEF Generals
  <2>2. Obeyed(r, c, mox) =
          [keyed EXCEPT !.rate = c.val[1], !.nddc = c.val[2], !.oc = c.val[3]]
    BY <1>2, SMT DEF Obeyed, keyed
  <2> QED
    BY <1>1, <2>1, <2>2 DEF Radio
<1>3. CASE c.addr = 2
  <2>1. c.val[1] \in AllFreqs
    BY <1>3 DEF Controls
  <2>2. Obeyed(r, c, mox) = [keyed EXCEPT !.tx_frequency = c.val[1]]
    BY <1>3, SMT DEF Obeyed, keyed
  <2> QED
    BY <1>1, <2>1, <2>2 DEF Radio
<1>4. CASE c.addr \in {4, 6, 8, 10, 12, 14, 16}
  <2> DEFINE d == (c.addr - 4) \div 2
  <2>1. c.val[1] \in AllFreqs \union {0}
    BY <1>4 DEF Controls, Freqs
  <2>2. Obeyed(r, c, mox) =
          [keyed EXCEPT !.rx_frequencies = [keyed.rx_frequencies EXCEPT ![d] = c.val[1]]]
    BY <1>4, SMT DEF Obeyed, keyed
  <2>3. d \in Ddcs
    BY <1>4
  <2> HIDE DEF d
  <2>4. [keyed.rx_frequencies EXCEPT ![d] = c.val[1]] \in [Ddcs -> AllFreqs \union {0}]
    BY <1>1, <2>1, <2>3 DEF Radio
  <2> QED
    BY <1>1, <2>2, <2>4 DEF Radio
<1>5. CASE c.addr = 18
  <2>1. \/ \E d \in 0..255, pa \in {0, 1} : c.val = <<d, pa>>
        \/ \E f \in AllFreqs \union {0} : c.val = <<f>>
    <3>1. c.val \in Drivings \/ c.val \in Freqs
      BY <1>5 DEF Controls
    <3> QED
      BY <3>1 DEF Drivings, Freqs
  <2>2. CASE \E d \in 0..255, pa \in {0, 1} : c.val = <<d, pa>>
    <3>1. Len(c.val) = 2 /\ c.val[1] \in Nat
      BY <2>2
    <3>2. Obeyed(r, c, mox) =
            [keyed EXCEPT !.tx_drive = c.val[1], !.pa = (c.val[2] = 1)]
      BY <1>5, <3>1, SMT DEF Obeyed, keyed
    <3> QED
      BY <1>1, <3>1, <3>2 DEF Radio
  <2>3. CASE \E f \in AllFreqs \union {0} : c.val = <<f>>
    <3>1. Len(c.val) = 1 /\ c.val[1] \in Nat
      BY <2>3, Numbers
    <3> DEFINE drive == c.val[1] \div 16777216
               pa == ((c.val[1] \div 524288) % 2) = 1
    <3>2. Obeyed(r, c, mox) = [keyed EXCEPT !.tx_drive = drive, !.pa = pa]
      BY <1>5, <3>1, SMT DEF Obeyed, keyed
    <3>3. drive \in Nat /\ pa \in BOOLEAN
      BY <3>1, SMT
    <3> HIDE DEF drive, pa
    <3> QED
      BY <1>1, <3>2, <3>3 DEF Radio
  <2> QED
    BY <2>1, <2>2, <2>3
<1>6. CASE c.addr = 20
  <2>1. Obeyed(r, c, mox) = keyed
    BY <1>6, SMT DEF Obeyed, keyed
  <2> QED
    BY <1>1, <2>1
<1>7. c.addr \in {0, 2, 4, 6, 8, 10, 12, 14, 16, 18, 20}
  BY DEF Controls
<1> QED
  BY <1>2, <1>3, <1>4, <1>5, <1>6, <1>7

LEMMA NewRadioType ==
  ASSUME NEW on \in BOOLEAN
  PROVE  NewRadio(on) \in Radio
BY TransmitAssumption DEF TransmitAssumption, NewRadio, Radio, AllFreqs

LEMMA HandledType ==
  ASSUME NEW r \in Radio, NEW m \in Wire
  PROVE  Handled(r, m) \in Radio
<1>1. CASE m \in DataWire
  <2>1. PICK c1 \in Controls, c2 \in Controls : m.controls = <<c1, c2>>
    BY <1>1 DEF DataWire
  <2>2. m.what = "data" /\ m.mox \in BOOLEAN
    BY <1>1 DEF DataWire
  <2>3. Obeyed(Obeyed(r, c1, m.mox), c2, m.mox) \in Radio
    BY <2>2, ObeyedType
  <2>4. m.controls[1] = c1 /\ m.controls[2] = c2
    BY <2>1
  <2> QED
    BY <2>2, <2>3, <2>4 DEF Handled
<1>2. CASE m \in {Command("start"), Command("stop")}
  <2>1. m.what \in {"start", "stop"}
    BY <1>2 DEF Command
  <2>2. Handled(r, m) \in {r, NewRadio(TRUE), NewRadio(FALSE)}
    BY <2>1 DEF Handled
  <2> QED
    BY <2>2, NewRadioType
<1> QED
  BY <1>1, <1>2 DEF Wire

\* The ring and the buffer keep their bounds.
Bounded(iq) == iq.ring \in 0..RING_CAP /\ iq.buffer \in 0..RING_CAP + SUBFRAME - 1

LEMMA RefillBounded ==
  ASSUME NEW iq \in Iq, Bounded(iq)
  PROVE  Bounded(Refill(iq))
BY Numbers DEF Iq, Bounded, Refill

LEMMA TakeBounded ==
  ASSUME NEW iq \in Iq, Bounded(iq)
  PROVE  Bounded(Take(iq))
BY Numbers DEF Iq, Bounded, Take

LEMMA SendTypes ==
  ASSUME TxTypeInv, SendHostData
  PROVE  /\ ring' \in 0..RING_CAP /\ tx_iq_buffer' \in 0..RING_CAP + SUBFRAME - 1
         /\ net' \in Seq(Wire)
<1> DEFINE iq0 == [buffer |-> tx_iq_buffer, ring |-> ring]
           iq1 == Refill(iq0)
           iq2 == Refill(Take(iq1))
           left == IF settings.ptt THEN Take(iq2) ELSE iq0
           full == iq1.buffer >= SUBFRAME /\ iq2.buffer >= SUBFRAME
           q == IF ~Voice THEN "none" ELSE IF full THEN "full" ELSE "padded"
           packet == Packed(settings, control_idx, q)
<1>1. /\ tx_iq_buffer' = left.buffer /\ ring' = left.ring
      /\ net' \in {net, Append(net, packet)}
  BY DEF SendHostData, Packed
<1>2. iq0 \in Iq /\ Bounded(iq0)
  BY Numbers DEF TxTypeInv, TxTypeOK, Iq, Bounded
<1> HIDE DEF iq0
<1>3. iq1 \in Iq /\ Bounded(iq1) /\ Take(iq1) \in Iq /\ Bounded(Take(iq1))
  BY <1>2, RefillKeeps, TakeTakes, RefillBounded, TakeBounded
<1>4. iq2 \in Iq /\ Bounded(iq2) /\ Take(iq2) \in Iq /\ Bounded(Take(iq2))
  BY <1>3, RefillKeeps, TakeTakes, RefillBounded, TakeBounded
<1>5. Bounded(left)
  BY <1>2, <1>4
<1>6. q \in {"none", "full", "padded"}
  OBVIOUS
<1> HIDE DEF q, left
<1>7. packet \in Wire
  <2>1. settings \in Settings /\ control_idx \in 0..12 /\ NextIdx(control_idx) \in 0..12
    BY DEF TxTypeInv, TxTypeOK, NextIdx
  <2>2. NextControl(settings, control_idx) \in Controls
        /\ NextControl(settings, NextIdx(control_idx)) \in Controls
    BY <2>1, NextControlType
  <2> QED
    BY <1>6, <2>1, <2>2, DataType DEF Packed
<1> HIDE DEF packet
<1> QED
  BY <1>1, <1>5, <1>7 DEF Bounded, TxTypeInv

\* What a fault leaves of the count.
LEMMA FaultTypes ==
  ASSUME TxTypeInv, Fault, net' \in Seq(Wire), radio' \in Radio
  PROVE  TxTypeInv'
<1>1. faults' \in 0..MAX_FAULTS
  BY Numbers DEF Fault, TxTypeInv, TxTypeOK
<1>2. net' \in Seq(Packet)
  BY WireIsPacket
<1>3. settled' \in Int /\ settled' <= 7
  BY DEF Fault, Unsettled
<1> QED
  BY <1>1, <1>2, <1>3 DEF Fault, hostVars, TxTypeInv, TxTypeOK

LEMMA TxTypeStep ==
  ASSUME TxTypeInv, [TxNext]_txVars
  PROVE  TxTypeInv'
<1> USE Numbers
<1>1. CASE Set
  <2>1. PICK s \in Changed(settings) : settings' = s /\ Unsettled(net)
    BY <1>1 DEF Set, Configure
  <2>2. s \in Settings
    BY ChangedType DEF TxTypeInv, TxTypeOK
  <2>3. settled' \in Int /\ settled' <= 7
    BY <2>1 DEF Unsettled, TxTypeInv
  <2> QED
    BY <1>1, <2>1, <2>2, <2>3 DEF Set, TxTypeInv, TxTypeOK
<1>2. CASE SetPtt
  <2>1. PICK on \in BOOLEAN : /\ settings' = [settings EXCEPT !.ptt = on]
                              /\ Unsettled(net)
                              /\ tx_iq_buffer' \in {0, tx_iq_buffer}
    BY <1>2 DEF SetPtt, Configure
  <2>2. settings' \in Settings
    BY <2>1, KeyedType DEF TxTypeInv, TxTypeOK
  <2>3. settled' \in Int /\ settled' <= 7
    BY <2>1 DEF Unsettled, TxTypeInv
  <2>4. tx_iq_buffer' \in 0..RING_CAP + SUBFRAME - 1
    BY <2>1 DEF TxTypeInv, TxTypeOK
  <2> QED
    BY <1>2, <2>2, <2>3, <2>4 DEF SetPtt, TxTypeInv, TxTypeOK
<1>3. CASE SetCwMode
  BY <1>3 DEF SetCwMode, TxTypeInv, TxTypeOK
<1>4. CASE Start
  <2>1. PICK n \in 0..Len(StartPackets(settings)) :
          /\ Outcome(n = Len(StartPackets(settings)))
          /\ net' = net \o SubSeq(StartPackets(settings), 1, n)
          /\ running' = (running \/ n > 0)
    BY <1>4 DEF Start
  <2>2. StartPackets(settings) \in Seq(Wire) /\ Len(StartPackets(settings)) >= 1
    BY StartWire, StartPacketsType DEF TxTypeInv, TxTypeOK
  <2>3. SubSeq(StartPackets(settings), 1, n) \in Seq(Wire)
    BY <2>2
  <2>4. net' \in Seq(Wire) /\ net' \in Seq(Packet)
    BY <2>1, <2>3, WireIsPacket DEF TxTypeInv
  <2>5. faults' \in 0..MAX_FAULTS
    BY <2>1 DEF Outcome, TxTypeInv, TxTypeOK
  <2>6. settled' \in Int /\ settled' <= 7
    BY <1>4, <2>4 DEF Start, Unsettled
  <2>7. running' \in BOOLEAN
    BY <2>1
  <2> QED
    BY <1>4, <2>4, <2>5, <2>6, <2>7 DEF Start, TxTypeInv, TxTypeOK
<1>5. CASE Stop
  <2>1. PICK sent \in BOOLEAN :
          /\ Outcome(sent)
          /\ net' = IF sent THEN Append(net, Command("stop")) ELSE net
          /\ running' = (running /\ ~sent)
    BY <1>5 DEF Stop
  <2>2. net' \in Seq(Wire) /\ net' \in Seq(Packet)
    <3>1. Command("stop") \in Wire
      BY DEF Wire
    <3> QED
      BY <2>1, <3>1, WireIsPacket DEF TxTypeInv
  <2>3. faults' \in 0..MAX_FAULTS
    BY <2>1 DEF Outcome, TxTypeInv, TxTypeOK
  <2>4. running' \in BOOLEAN /\ in_run' \in BOOLEAN /\ commands' \in BOOLEAN
    BY <1>5, <2>1 DEF Stop
  <2> QED
    BY <1>5, <2>2, <2>3, <2>4 DEF Stop, TxTypeInv, TxTypeOK
<1>6. CASE Run
  <2>1. settings.nddc \in Nddcs
    BY DEF TxTypeInv, TxTypeOK, Settings
  <2>2. in_run' \in BOOLEAN /\ commands' \in BOOLEAN
    BY <1>6 DEF Run, TxTypeInv, TxTypeOK
  <2> QED
    BY <1>6, <2>1, <2>2 DEF Run, TxTypeInv, TxTypeOK
<1>7. CASE Produce
  <2>1. ring' \in 0..RING_CAP
    BY <1>7 DEF Produce, TxTypeInv, TxTypeOK
  <2> QED
    BY <1>7, <2>1 DEF Produce, TxTypeInv, TxTypeOK
<1>8. CASE SendHostData
  <2>1. control_idx' \in 0..12
    <3>1. \A i \in 0..12 : NextIdx(i) \in 0..12
      BY DEF NextIdx
    <3>2. control_idx \in 0..12
      BY DEF TxTypeInv, TxTypeOK
    <3>3. control_idx' = NextIdx(NextIdx(control_idx))
      BY <1>8 DEF SendHostData
    <3> QED
      BY <3>1, <3>2, <3>3
  <2>2. PICK sent \in BOOLEAN : /\ Outcome(sent) /\ in_run' = sent
                                /\ commands' = (commands /\ sent)
                                /\ IF sent THEN UNCHANGED settled ELSE Unsettled(net)
    BY <1>8 DEF SendHostData
  <2>3. faults' \in 0..MAX_FAULTS
    BY <2>2 DEF Outcome, TxTypeInv, TxTypeOK
  <2>4. settled' \in Int /\ settled' <= 7
    BY <2>2 DEF Unsettled, TxTypeInv, TxTypeOK
  <2>5. net' \in Seq(Packet)
    BY <1>8, SendTypes, WireIsPacket
  <2>6. in_run' \in BOOLEAN /\ commands' \in BOOLEAN
    BY <2>2
  <2> QED
    BY <1>8, <2>1, <2>3, <2>4, <2>5, <2>6, SendTypes
    DEF SendHostData, TxTypeInv, TxTypeOK
<1>9. CASE ConnectionLost
  BY <1>9 DEF ConnectionLost, TxTypeInv, TxTypeOK
<1>10. CASE Arrive
  <2>1. Head(net) \in Wire /\ Tail(net) \in Seq(Wire)
    BY <1>10 DEF Arrive, TxTypeInv
  <2>2. radio' \in Radio
    BY <1>10, <2>1, HandledType DEF Arrive, TxTypeInv, TxTypeOK
  <2>3. net' \in Seq(Wire) /\ net' \in Seq(Packet) /\ Len(net') \in Nat
    BY <1>10, <2>1, WireIsPacket DEF Arrive
  <2>4. settled' \in Int /\ settled' <= 7
    BY <1>10, <2>3 DEF Arrive, TxTypeInv, TxTypeOK
  <2> QED
    BY <1>10, <2>2, <2>3, <2>4 DEF Arrive, hostVars, TxTypeInv, TxTypeOK
<1>11. CASE Lose
  <2>1. net' \in Seq(Wire) /\ radio' \in Radio /\ Fault
    BY <1>11, RemoveAtType DEF Lose, TxTypeInv, TxTypeOK
  <2> QED
    BY <2>1, FaultTypes
<1>12. CASE Overtake
  <2>1. PICK k \in 2..Len(net) : net' = RemoveAt(net, k) /\ radio' = Handled(radio, net[k])
    BY <1>12 DEF Overtake
  <2>2. k \in DOMAIN net /\ net[k] \in Wire /\ net \in Seq(Wire) /\ radio \in Radio
    BY <2>1 DEF TxTypeInv, TxTypeOK
  <2>3. net' \in Seq(Wire) /\ radio' \in Radio
    BY <2>1, <2>2, RemoveAtType, HandledType
  <2> QED
    BY <1>12, <2>3, FaultTypes DEF Overtake
<1>13. CASE Repeat
  <2>1. Head(net) \in Wire /\ Tail(net) \in Seq(Wire) /\ radio \in Radio
    BY <1>13 DEF Repeat, TxTypeInv, TxTypeOK
  <2>2. net' \in Seq(Wire) /\ radio' \in Radio
    BY <1>13, <2>1, HandledType DEF Repeat
  <2> QED
    BY <1>13, <2>2, FaultTypes DEF Repeat
<1>14. CASE UNCHANGED txVars
  BY <1>14 DEF txVars, hostVars, TxTypeInv, TxTypeOK
<1> QED
  BY <1>1, <1>2, <1>3, <1>4, <1>5, <1>6, <1>7, <1>8, <1>9, <1>10, <1>11,
     <1>12, <1>13, <1>14 DEF TxNext, HostStep, NetStep

LEMMA TxTypeStart == TxInit => TxTypeInv
<1> SUFFICES ASSUME TxInit PROVE TxTypeInv
  OBVIOUS
<1>1. settings \in Settings
  BY TransmitAssumption DEF TransmitAssumption, TxInit, Settings, AllFreqs
<1>2. radio \in Radio
  BY NewRadioType DEF TxInit
<1>3. 1 \in Nddcs
  BY TransmitAssumption DEF TransmitAssumption
<1>4. net \in Seq(Wire) /\ net \in Seq(Packet)
  BY DEF TxInit
<1>5. /\ ring \in 0..RING_CAP /\ tx_iq_buffer \in 0..RING_CAP + SUBFRAME - 1
      /\ pkt_samples \in {SamplesPerPacket(n) : n \in Nddcs}
      /\ control_idx \in 0..12 /\ faults \in 0..MAX_FAULTS
      /\ settled \in Int /\ settled <= 7
  BY <1>3, Numbers DEF TxInit
<1>6. {tx_cw_mode, running, in_run, commands} \subseteq BOOLEAN
  BY DEF TxInit
<1> QED
  BY <1>1, <1>2, <1>4, <1>5, <1>6 DEF TxTypeInv, TxTypeOK

-----------------------------------------------------------------------------
(* The rotation.  Between two faults or changes of a setting the packets   *)
(* in flight and the registers of the radio follow from the next command   *)
(* the radio is to get.                                                    *)

\* In a round of the rotation, how long ago command i was sent when b is next.
Behind(i, b) == IF i < b THEN b - i ELSE b + ROTATION - i

\* The registers of command i of the rotation are as set.
Tuned(r, s, i) ==
  CASE i = 0 -> r.rate = s.rate /\ r.nddc = NddcCode(s) /\ r.oc = Oc(s)
    [] i = 1 -> r.tx_frequency = s.tx_frequency
    [] i \in 2..8 -> r.rx_frequencies[i - 2] = IF i - 2 < s.nddc THEN s.rx_frequencies[i - 2] ELSE 0
    [] i = 9 -> r.tx_drive = s.tx_drive /\ r.pa = HermesLite
    [] OTHER -> TRUE

\* Packets in flight from before the last change, and those since.
Old == IF settled < 0 THEN 0 - settled ELSE 0
Since == 1..Len(net) - Old
OnTheWay(k) == net[Old + k]

\* The m-th packet from one that begins with command b begins with ...
Turn(b, m) == (b + 2 * m) % ROTATION
Carries(p, s, i) == \E q \in {"none", "full", "padded"} : p = Packed(s, i, q)

\* The radio takes command b next, ...
Expects(b) ==
  \* ... the packets since the last change go on from there, until the stop, ...
  /\ \A k \in Since :
       OnTheWay(k) = Command("stop") \/ Carries(OnTheWay(k), settings, Turn(b, k - 1))
  /\ \/ ~running
     \/ /\ \A k \in Since : OnTheWay(k).what = "data"
        /\ control_idx = Turn(b, Len(net) - Old)
  \* ... and what the packets that have arrived carried is set.
  /\ settled > 0 /\ radio.on =>
       /\ radio.ptt = settings.ptt
       /\ \A i \in 0..12 : Behind(i, b) <= 2 * settled => Tuned(radio, settings, i)

RotationInv ==
  /\ in_run => running
  /\ Old <= Len(net)
  /\ \E b \in 0..12 : Expects(b)

LEMMA NextIdxIs ==
  ASSUME NEW i \in 0..12
  PROVE  NextIdx(i) = IF i = 12 THEN 0 ELSE i + 1
BY DEF NextIdx

\* Two commands on, counted from b.
LEMMA TwoOn ==
  ASSUME NEW b \in 0..12, NEW m \in Nat
  PROVE  /\ Turn(b, m) \in 0..12
         /\ NextIdx(NextIdx(Turn(b, m))) = Turn(b, m + 1)
         /\ Turn(NextIdx(NextIdx(b)), m) = Turn(b, m + 1)
         /\ Turn(b, 0) = b
<1>1. (b + 2 * m) % 13 \in 0..12 OBVIOUS
<1>2. NextIdx(NextIdx(b)) \in {b + 2, b - 11} /\ NextIdx(NextIdx(b)) \in 0..12
  BY NextIdxIs
<1>3. \A i \in 0..12 : NextIdx(NextIdx(i)) \in 0..12 /\ NextIdx(NextIdx(i)) \in {i + 2, i - 11}
  BY NextIdxIs
<1>4. NextIdx(NextIdx((b + 2 * m) % 13)) = (b + 2 * (m + 1)) % 13
  BY <1>1, <1>3
<1> QED BY <1>1, <1>2, <1>4 DEF Turn

\* The same registers are tuned the same.
Registers(r) ==
  <<r.rate, r.nddc, r.oc, r.tx_frequency, r.rx_frequencies, r.tx_drive, r.pa>>

LEMMA SameRegisters ==
  ASSUME NEW r1, NEW r2, NEW s, NEW i, Registers(r1) = Registers(r2), Tuned(r1, s, i)
  PROVE  Tuned(r2, s, i)
BY DEF Registers, Tuned

\* A command of the rotation sets its own register, for good.
LEMMA CommandTunes ==
  ASSUME NEW r \in Radio, NEW s \in Settings, NEW i \in 0..12
  PROVE  LET r2 == Obeyed(r, NextControl(s, i), s.ptt)
         IN  /\ r2 \in Radio /\ r2.on = r.on /\ r2.ptt = s.ptt /\ Tuned(r2, s, i)
             /\ \A j \in 0..12 : Tuned(r, s, j) => Tuned(r2, s, j)
<1> DEFINE c == NextControl(s, i)
           r2 == Obeyed(r, c, s.ptt)
           keyed == [r EXCEPT !.ptt = s.ptt]
<1> SUFFICES /\ r2 \in Radio /\ r2.on = r.on /\ r2.ptt = s.ptt /\ Tuned(r2, s, i)
             /\ \A j \in 0..12 : Tuned(r, s, j) => Tuned(r2, s, j)
  OBVIOUS
<1>1. s.ptt \in BOOLEAN /\ c \in Controls BY NextControlType DEF Settings
<1>2. r2 \in Radio BY <1>1, ObeyedType
<1>3. /\ keyed \in Radio /\ keyed.ptt = s.ptt /\ keyed.on = r.on
      /\ Registers(keyed) = Registers(r)
  BY <1>1 DEF Radio, Registers
<1>4. \A j \in 0..12 : Tuned(r, s, j) => Tuned(keyed, s, j)
  BY <1>3, SameRegisters
<1> HIDE DEF r2, keyed, c
<1> SUFFICES /\ r2.on = keyed.on /\ r2.ptt = keyed.ptt /\ Tuned(r2, s, i)
             /\ \A j \in 0..12 : j # i /\ Tuned(keyed, s, j) => Tuned(r2, s, j)
  BY <1>2, <1>3, <1>4
<1>5. CASE i = 0
  <2>1. c = General(s, Oc(s)) BY <1>5, SMT DEF c, NextControl
  <2>2. r2 = [keyed EXCEPT !.rate = s.rate, !.nddc = NddcCode(s), !.oc = Oc(s)]
    BY <2>1, SMT DEF r2, Obeyed, keyed, General
  <2>3. /\ r2.rate = s.rate /\ r2.nddc = NddcCode(s) /\ r2.oc = Oc(s)
        /\ r2.on = keyed.on /\ r2.ptt = keyed.ptt /\ r2.tx_frequency = keyed.tx_frequency
        /\ r2.rx_frequencies = keyed.rx_frequencies /\ r2.tx_drive = keyed.tx_drive
        /\ r2.pa = keyed.pa
    BY <1>3, <2>2 DEF Radio
  <2> QED BY <1>5, <2>3 DEF Tuned
<1>6. CASE i = 1
  <2>1. c = TuneTx(s) BY <1>6, SMT DEF c, NextControl
  <2>2. r2 = [keyed EXCEPT !.tx_frequency = s.tx_frequency]
    BY <2>1, SMT DEF r2, Obeyed, keyed, TuneTx
  <2>3. /\ r2.tx_frequency = s.tx_frequency
        /\ r2.on = keyed.on /\ r2.ptt = keyed.ptt /\ r2.rate = keyed.rate
        /\ r2.nddc = keyed.nddc /\ r2.oc = keyed.oc
        /\ r2.rx_frequencies = keyed.rx_frequencies /\ r2.tx_drive = keyed.tx_drive
        /\ r2.pa = keyed.pa
    BY <1>3, <2>2 DEF Radio
  <2> QED BY <1>6, <2>3 DEF Tuned
<1>7. CASE i \in 2..8
  <2> DEFINE f == IF i - 2 < s.nddc THEN s.rx_frequencies[i - 2] ELSE 0
  <2>1. c = TuneRx(i - 2, f) BY <1>7, SMT DEF c, NextControl
  <2> HIDE DEF f
  <2>2. c.addr = 2 * i /\ c.addr \in 4..16 /\ (c.addr - 4) \div 2 = i - 2 /\ c.val[1] = f
    BY <1>7, <2>1 DEF TuneRx
  <2>3. r2 = [keyed EXCEPT !.rx_frequencies =
                             [keyed.rx_frequencies EXCEPT ![(c.addr - 4) \div 2] = c.val[1]]]
    <3>1. c.addr # 0 /\ c.addr # 2 /\ c.addr # 18 /\ c.addr \in 4..16 BY <2>2
    <3> QED BY <3>1, SMT DEF r2, Obeyed, keyed
  <2>4. i - 2 \in Ddcs /\ keyed.rx_frequencies \in [Ddcs -> AllFreqs \union {0}]
    BY <1>3, <1>7 DEF Radio
  <2>5. r2.rx_frequencies = [keyed.rx_frequencies EXCEPT ![i - 2] = f]
    BY <1>3, <2>2, <2>3 DEF Radio
  <2>6. r2.rx_frequencies[i - 2] = f
        /\ \A d \in Ddcs : d # i - 2 => r2.rx_frequencies[d] = keyed.rx_frequencies[d]
    BY <2>4, <2>5
  <2>7. /\ r2.on = keyed.on /\ r2.ptt = keyed.ptt /\ r2.rate = keyed.rate
        /\ r2.nddc = keyed.nddc /\ r2.oc = keyed.oc /\ r2.tx_frequency = keyed.tx_frequency
        /\ r2.tx_drive = keyed.tx_drive /\ r2.pa = keyed.pa
    BY <1>3, <2>3 DEF Radio
  <2>8. Tuned(r2, s, i) BY <1>7, <2>6 DEF Tuned, f
  <2>9. ASSUME NEW j \in 0..12, j # i, Tuned(keyed, s, j) PROVE Tuned(r2, s, j)
    <3>1. CASE j \in 2..8
      <4>1. j - 2 \in Ddcs /\ j - 2 # i - 2 BY <2>9, <3>1
      <4> QED BY <2>6, <2>9, <3>1, <4>1 DEF Tuned
    <3>2. CASE j \in {0, 1, 9, 10, 11, 12} BY <2>7, <2>9, <3>2 DEF Tuned
    <3> QED BY <3>1, <3>2
  <2> QED BY <2>7, <2>8, <2>9
<1>8. CASE i = 9
  <2>1. c = Drive(s) BY <1>8, SMT DEF c, NextControl
  <2>2. r2 = [keyed EXCEPT !.tx_drive = c.val[1], !.pa = (c.val[2] = 1)]
    <3>1. c.addr = 18 /\ Len(c.val) = 2 BY <2>1 DEF Drive
    <3> QED BY <3>1, SMT DEF r2, Obeyed, keyed
  <2>3. c.val[1] = s.tx_drive /\ c.val[2] = IF HermesLite THEN 1 ELSE 0
    BY <2>1 DEF Drive
  <2>4. /\ r2.tx_drive = s.tx_drive /\ r2.pa = (c.val[2] = 1)
        /\ r2.on = keyed.on /\ r2.ptt = keyed.ptt /\ r2.rate = keyed.rate
        /\ r2.nddc = keyed.nddc /\ r2.oc = keyed.oc /\ r2.tx_frequency = keyed.tx_frequency
        /\ r2.rx_frequencies = keyed.rx_frequencies
    BY <1>3, <2>2, <2>3 DEF Radio
  <2>5. r2.pa = HermesLite
    <3>1. HermesLite \in BOOLEAN BY TransmitAssumption DEF TransmitAssumption
    <3>2. r2.pa <=> HermesLite
      <4>1. CASE HermesLite
        <5>1. c.val[2] = 1 BY <2>3, <4>1
        <5> QED BY <2>4, <4>1, <5>1
      <4>2. CASE ~HermesLite
        <5>1. c.val[2] # 1 BY <2>3, <4>2
        <5> QED BY <2>4, <4>2, <5>1
      <4> QED BY <4>1, <4>2
    <3>3. r2.pa \in BOOLEAN BY <1>2 DEF Radio
    <3> QED BY <3>1, <3>2, <3>3
  <2> QED BY <1>8, <2>4, <2>5 DEF Tuned
<1>9. CASE i \in 10..12
  <2>1. c = Other BY <1>9, SMT DEF c, NextControl
  <2>2. r2 = keyed BY <2>1, SMT DEF r2, Obeyed, keyed, Other
  <2> QED BY <1>9, <2>2 DEF Tuned
<1> QED BY <1>5, <1>6, <1>7, <1>8, <1>9

\* A packet of the rotation sets two.
LEMMA PacketTunes ==
  ASSUME NEW r \in Radio, r.on, NEW s \in Settings, NEW b \in 0..12, NEW q
  PROVE  LET r2 == Handled(r, Packed(s, b, q))
         IN  /\ r2.on /\ r2.ptt = s.ptt /\ Tuned(r2, s, b) /\ Tuned(r2, s, NextIdx(b))
             /\ \A j \in 0..12 : Tuned(r, s, j) => Tuned(r2, s, j)
<1> DEFINE r1 == Obeyed(r, NextControl(s, b), s.ptt)
           r2 == Obeyed(r1, NextControl(s, NextIdx(b)), s.ptt)
<1>1. NextIdx(b) \in 0..12 BY NextIdxIs
<1>2. /\ r1 \in Radio /\ r1.on = r.on /\ Tuned(r1, s, b)
      /\ \A j \in 0..12 : Tuned(r, s, j) => Tuned(r1, s, j)
  BY CommandTunes
<1> HIDE DEF r1
<1>3. /\ r2.on = r1.on /\ r2.ptt = s.ptt /\ Tuned(r2, s, NextIdx(b))
      /\ \A j \in 0..12 : Tuned(r1, s, j) => Tuned(r2, s, j)
  BY <1>1, <1>2, CommandTunes
<1>4. Handled(r, Packed(s, b, q)) = r2
  BY SMT DEF Handled, Packed, Data, r1
<1> QED BY <1>1, <1>2, <1>3, <1>4

LEMMA BehindMoves ==
  ASSUME NEW b \in 0..12, NEW i \in 0..12, NEW n \in Nat,
         Behind(i, NextIdx(NextIdx(b))) <= 2 * (n + 1)
  PROVE  i = b \/ i = NextIdx(b) \/ Behind(i, b) <= 2 * n
BY NextIdxIs DEF Behind

\* Whoever has been given all of the rotation is tuned.
LEMMA AllTuned ==
  ASSUME NEW r \in Radio, NEW s \in Settings, r.ptt = s.ptt,
         \A i \in 0..12 : Tuned(r, s, i)
  PROVE  /\ r.rate = s.rate /\ r.nddc = NddcCode(s) /\ r.oc = Oc(s)
         /\ r.tx_frequency = s.tx_frequency
         /\ \A d \in 0..6 : d < s.nddc => r.rx_frequencies[d] = s.rx_frequencies[d]
         /\ r.tx_drive = s.tx_drive /\ r.pa = HermesLite
<1>1. Tuned(r, s, 0) /\ Tuned(r, s, 1) /\ Tuned(r, s, 9) OBVIOUS
<1>2. ASSUME NEW d \in 0..6, d < s.nddc PROVE r.rx_frequencies[d] = s.rx_frequencies[d]
  <2>1. d + 2 \in 2..8 /\ d + 2 \in 0..12 /\ d + 2 - 2 = d OBVIOUS
  <2>2. Tuned(r, s, d + 2) BY <2>1
  <2> QED BY <1>2, <2>1, <2>2 DEF Tuned
<1> QED BY <1>1, <1>2 DEF Tuned

LEMMA RotationImplies == TxTypeInv /\ RotationInv => OneRotationTunes
<1> SUFFICES ASSUME TxTypeInv, RotationInv, settled = 7, radio.on PROVE Converged
  BY DEF OneRotationTunes
<1>1. PICK b \in 0..12 : Expects(b) BY DEF RotationInv
<1>2. radio.ptt = settings.ptt /\ \A i \in 0..12 : Behind(i, b) <= 14 => Tuned(radio, settings, i)
  BY <1>1 DEF Expects
<1>3. \A i \in 0..12 : Tuned(radio, settings, i) BY <1>2 DEF Behind
<1> QED BY <1>2, <1>3, AllTuned DEF Converged, TxTypeInv, TxTypeOK

\* Nothing counts yet.
LEMMA StartsOver ==
  ASSUME TxTypeInv', in_run' => running', settled' = 0 - Len(net')
  PROVE  RotationInv'
<1>1. net' \in Seq(Wire) /\ control_idx' \in 0..12 BY DEF TxTypeInv, TxTypeOK
<1>2. Len(net') \in Nat BY <1>1
<1>3. Old' = Len(net') BY <1>2 DEF Old
<1>4. Since' = {} /\ Len(net') - Old' = 0 /\ ~(settled' > 0)
  BY <1>2, <1>3 DEF Since
<1>5. \A i \in 0..12 : Turn(i, 0) = i BY TwoOn
<1>6. \A b \in 0..12 : b = control_idx' => Expects(b)'
  BY <1>1, <1>4, <1>5 DEF Expects
<1> QED BY <1>1, <1>2, <1>3, <1>6 DEF RotationInv

\* Neither the packets nor the registers are touched.
LEMMA GoesOn ==
  ASSUME RotationInv, UNCHANGED <<settings, control_idx, net, radio, settled>>,
         running' => running, in_run' => running'
  PROVE  RotationInv'
<1>1. PICK b \in 0..12 : Expects(b) BY DEF RotationInv
<1>2. Old' = Old /\ Since' = Since /\ \A k : OnTheWay(k)' = OnTheWay(k)
  BY DEF Old, Since, OnTheWay
<1>3. Expects(b)' BY <1>1, <1>2 DEF Expects
<1> QED BY <1>2, <1>3 DEF RotationInv

LEMMA StopRotates ==
  ASSUME TxTypeInv, TxTypeInv', RotationInv, Stop
  PROVE  RotationInv'
<1>1. PICK sent \in BOOLEAN :
        /\ net' = IF sent THEN Append(net, Command("stop")) ELSE net
        /\ running' = (running /\ ~sent)
  BY DEF Stop
<1>2. UNCHANGED <<settings, control_idx, radio, settled>> /\ ~in_run' BY DEF Stop
<1>3. CASE ~sent BY <1>1, <1>2, <1>3, GoesOn
<1>4. CASE sent
  <2>1. PICK b \in 0..12 : Expects(b) BY DEF RotationInv
  <2>2. net \in Seq(Wire) /\ settled \in Int /\ Old <= Len(net) /\ Old \in Nat /\ Len(net) \in Nat
    BY DEF TxTypeInv, TxTypeOK, RotationInv, Old
  <2>3. /\ net' = Append(net, Command("stop")) /\ ~running'
        /\ Len(net') = Len(net) + 1 /\ net'[Len(net) + 1] = Command("stop")
        /\ \A k \in 1..Len(net) : net'[k] = net[k]
    <3>1. net' = Append(net, Command("stop")) /\ ~running' BY <1>1, <1>4
    <3>2. Command("stop") \in Wire BY DEF Wire
    <3> HIDE DEF Wire
    <3> QED BY <2>2, <3>1, <3>2
  <2>4. Old' = Old BY <1>2 DEF Old
  <2>5. ASSUME NEW k \in Since'
        PROVE  \/ OnTheWay(k)' = Command("stop")
               \/ k \in Since /\ OnTheWay(k)' = OnTheWay(k)
    <3>1. k \in 1..Len(net) + 1 - Old
      <4>1. Since' = 1..Len(net') - Old' BY DEF Since
      <4> QED BY <2>2, <2>3, <2>4, <4>1
    <3>2. CASE Old + k = Len(net) + 1 BY <2>3, <2>4, <3>2 DEF OnTheWay
    <3>3. CASE Old + k # Len(net) + 1
      <4>1. Old + k \in 1..Len(net) /\ k \in Since BY <2>2, <3>1, <3>3 DEF Since
      <4> QED BY <2>3, <2>4, <4>1 DEF OnTheWay
    <3> QED BY <3>2, <3>3
  <2>6. Expects(b)' BY <1>2, <2>1, <2>3, <2>5 DEF Expects
  <2> QED BY <1>2, <2>2, <2>3, <2>4, <2>6 DEF RotationInv
<1> QED BY <1>3, <1>4

LEMMA SendRotates ==
  ASSUME TxTypeInv, TxTypeInv', RotationInv, SendHostData
  PROVE  RotationInv'
<1>1. PICK q \in {"none", "full", "padded"}, sent \in BOOLEAN :
        /\ net' = IF sent THEN Append(net, Packed(settings, control_idx, q)) ELSE net
        /\ in_run' = sent
        /\ IF sent THEN UNCHANGED settled ELSE Unsettled(net)
  <2> DEFINE iq1 == Refill([buffer |-> tx_iq_buffer, ring |-> ring])
             iq2 == Refill(Take(iq1))
             full == iq1.buffer >= SUBFRAME /\ iq2.buffer >= SUBFRAME
             q == IF ~Voice THEN "none" ELSE IF full THEN "full" ELSE "padded"
  <2>1. \E sent \in BOOLEAN :
          /\ net' = IF sent THEN Append(net, Packed(settings, control_idx, q)) ELSE net
          /\ in_run' = sent
          /\ IF sent THEN UNCHANGED settled ELSE Unsettled(net)
    BY DEF SendHostData, Packed
  <2>2. q \in {"none", "full", "padded"} OBVIOUS
  <2> HIDE DEF q
  <2> QED BY <2>1, <2>2
<1>2. /\ UNCHANGED <<settings, running, radio>> /\ in_run
      /\ control_idx' = NextIdx(NextIdx(control_idx))
  BY DEF SendHostData
<1>3. running /\ running' BY <1>2 DEF RotationInv
<1>4. CASE ~sent BY <1>1, <1>3, <1>4, StartsOver DEF Unsettled
<1>5. CASE sent
  <2>1. PICK b \in 0..12 : Expects(b) BY DEF RotationInv
  <2>2. /\ net \in Seq(Wire) /\ settled \in Int /\ Old <= Len(net) /\ Old \in Nat
        /\ Len(net) \in Nat
    BY DEF TxTypeInv, TxTypeOK, RotationInv, Old
  <2> DEFINE p == Packed(settings, control_idx, q)
             m == Len(net) - Old
  <2>3. m \in Nat /\ control_idx = Turn(b, m)
        /\ \A k \in Since : OnTheWay(k).what = "data"
    <3>1. m \in Nat BY <2>2
    <3>2. /\ \A k \in Since : OnTheWay(k).what = "data"
          /\ control_idx = Turn(b, Len(net) - Old)
      BY <1>3, <2>1 DEF Expects
    <3> QED BY <3>1, <3>2
  <2>4. Old' = Old /\ UNCHANGED settled BY <1>1, <1>5 DEF Old
  <2>5. p.what = "data" BY DEF Packed, Data
  <2> HIDE DEF p
  <2>6. /\ net' = Append(net, p) /\ Len(net') = Len(net) + 1 /\ net'[Len(net) + 1] = p
        /\ \A k \in 1..Len(net) : net'[k] = net[k]
    BY <1>1, <1>5, <2>2 DEF p
  <2>7. ASSUME NEW k \in Since'
        PROVE  \/ k \in Since /\ OnTheWay(k)' = OnTheWay(k)
               \/ k = m + 1 /\ OnTheWay(k)' = p
    <3>1. k \in 1..Len(net) + 1 - Old
      <4>1. Since' = 1..Len(net') - Old' BY DEF Since
      <4> QED BY <2>2, <2>4, <2>6, <4>1
    <3>2. CASE Old + k = Len(net) + 1 BY <2>2, <2>4, <2>6, <3>1, <3>2 DEF OnTheWay
    <3>3. CASE Old + k # Len(net) + 1
      <4>1. Old + k \in 1..Len(net) /\ k \in Since BY <2>2, <3>1, <3>3 DEF Since
      <4> QED BY <2>4, <2>6, <4>1 DEF OnTheWay
    <3> QED BY <3>2, <3>3
  <2>8. Carries(p, settings, Turn(b, m + 1 - 1))
    <3>1. m + 1 - 1 = m BY <2>3
    <3>2. Carries(p, settings, control_idx) BY <1>1 DEF p, Carries
    <3> QED BY <2>3, <3>1, <3>2
  <2>9. Len(net') - Old' = m + 1 BY <2>2, <2>4, <2>6
  <2> HIDE DEF m
  <2>10. control_idx' = Turn(b, Len(net') - Old')
    <3>1. NextIdx(NextIdx(Turn(b, m))) = Turn(b, m + 1)
      BY <2>3, TwoOn
    <3> QED BY <1>2, <2>3, <2>9, <3>1
  <2>11. \A k \in Since' :
           /\ OnTheWay(k)' = Command("stop") \/ Carries(OnTheWay(k)', settings, Turn(b, k - 1))
           /\ OnTheWay(k)'.what = "data"
    BY <2>1, <2>3, <2>5, <2>7, <2>8 DEF Expects
  <2>12. Expects(b)'
    BY <1>2, <2>1, <2>4, <2>10, <2>11 DEF Expects
  <2> QED BY <1>3, <2>2, <2>4, <2>6, <2>12 DEF RotationInv
<1> QED BY <1>4, <1>5

LEMMA ArriveRotates ==
  ASSUME TxTypeInv, TxTypeInv', RotationInv, Arrive
  PROVE  RotationInv'
<1>1. /\ net # <<>> /\ radio' = Handled(radio, Head(net)) /\ net' = Tail(net)
      /\ settled' = CASE Head(net).what # "data" -> 0 - Len(net')
                      [] OTHER -> IF settled = 7 THEN 7 ELSE settled + 1
      /\ UNCHANGED <<settings, control_idx, running, in_run>>
  BY DEF Arrive, hostVars
<1>2. /\ net \in Seq(Wire) /\ settled \in Int /\ settled <= 7 /\ Old <= Len(net) /\ Old \in Nat
      /\ Len(net) \in Nat \ {0} /\ Head(net) = net[1] /\ (in_run => running)
  BY <1>1 DEF TxTypeInv, TxTypeOK, RotationInv, Old
<1>3. /\ Len(net') = Len(net) - 1 /\ \A k \in 1..Len(net) - 1 : net'[k] = net[k + 1]
  BY <1>1, <1>2
<1>4. CASE Head(net).what # "data"
  <2>1. settled' = 0 - Len(net') BY <1>1, <1>4
  <2> QED BY <1>1, <1>2, <2>1, StartsOver
<1>5. CASE Head(net).what = "data" /\ settled < 0
  <2>1. PICK b \in 0..12 : Expects(b) BY DEF RotationInv
  <2>2. settled' = settled + 1 BY <1>1, <1>2, <1>5
  <2>3. Old' = Old - 1 /\ Old >= 1 /\ ~(settled' > 0) BY <1>2, <1>5, <2>2 DEF Old
  <2>4. Len(net') - Old' = Len(net) - Old /\ Since' = Since
    BY <1>2, <1>3, <2>3 DEF Since
  <2>5. \A k \in Since : OnTheWay(k)' = OnTheWay(k)
    <3> TAKE k \in Since
    <3>1. Old - 1 + k \in 1..Len(net) - 1 /\ Old - 1 + k + 1 = Old + k
      BY <1>2, <2>3 DEF Since
    <3> QED BY <1>3, <2>3, <3>1 DEF OnTheWay
  <2>6. \A k \in Since' :
          OnTheWay(k)' = Command("stop") \/ Carries(OnTheWay(k)', settings', Turn(b, k - 1))
    <3> TAKE k \in Since'
    <3>1. k \in Since /\ OnTheWay(k)' = OnTheWay(k) BY <2>4, <2>5
    <3>2. OnTheWay(k) = Command("stop") \/ Carries(OnTheWay(k), settings, Turn(b, k - 1))
      BY <2>1, <3>1 DEF Expects
    <3> QED BY <1>1, <3>1, <3>2
  <2>7. \/ ~running'
        \/ /\ \A k \in Since' : OnTheWay(k)'.what = "data"
           /\ control_idx' = Turn(b, Len(net') - Old')
    <3>1. \/ ~running
          \/ /\ \A k \in Since : OnTheWay(k).what = "data"
             /\ control_idx = Turn(b, Len(net) - Old)
      BY <2>1 DEF Expects
    <3> QED BY <1>1, <2>4, <2>5, <3>1
  <2>8. Expects(b)' BY <2>3, <2>6, <2>7, Zenon DEF Expects
  <2>9. (in_run' => running') /\ Old' <= Len(net')
    <3>1. in_run' => running' BY <1>1, <1>2
    <3>2. Old' <= Len(net') BY <1>2, <1>3, <2>3
    <3> QED BY <3>1, <3>2
  <2> QED BY <2>8, <2>9 DEF RotationInv
<1>6. CASE Head(net).what = "data" /\ settled >= 0
  <2>1. PICK b \in 0..12 : Expects(b) BY DEF RotationInv
  <2> DEFINE c == NextIdx(NextIdx(b))
  <2>2. c \in 0..12 BY NextIdxIs
  <2>3. settled' = (IF settled = 7 THEN 7 ELSE settled + 1) /\ Old = 0 /\ Old' = 0
        /\ settled' > 0
    BY <1>1, <1>2, <1>6 DEF Old
  <2>4. PICK q \in {"none", "full", "padded"} : Head(net) = Packed(settings, b, q)
    <3>1. 1 \in Since /\ OnTheWay(1) = Head(net) /\ Head(net) # Command("stop")
      BY <1>2, <1>6, <2>3 DEF Since, OnTheWay, Command
    <3>2. Turn(b, 1 - 1) = b
      <4>1. 1 - 1 = 0 OBVIOUS
      <4> QED BY <4>1, TwoOn
    <3> QED BY <2>1, <3>1, <3>2 DEF Expects, Carries
  <2>5. ASSUME NEW k \in Since' PROVE k + 1 \in Since /\ OnTheWay(k)' = OnTheWay(k + 1)
    BY <1>2, <1>3, <2>3 DEF Since, OnTheWay
  <2>6. ASSUME NEW k \in Since'
        PROVE  OnTheWay(k)' = Command("stop") \/ Carries(OnTheWay(k)', settings', Turn(c, k - 1))
    <3>1. k - 1 \in Nat /\ k - 1 + 1 = k BY <1>2, <1>3, <2>3 DEF Since
    <3>2. Turn(c, k - 1) = Turn(b, k)
      <4>1. Turn(c, k - 1) = Turn(b, k - 1 + 1) BY <3>1, TwoOn
      <4> QED BY <3>1, <4>1
    <3> HIDE DEF c
    <3> DEFINE n == k + 1
    <3>3. n \in Since /\ OnTheWay(k)' = OnTheWay(n) BY <2>5
    <3>4. n - 1 = k BY <3>1
    <3> HIDE DEF n
    <3>5. OnTheWay(n) = Command("stop") \/ Carries(OnTheWay(n), settings, Turn(b, n - 1))
      BY <2>1, <3>3 DEF Expects
    <3> QED BY <1>1, <3>2, <3>3, <3>4, <3>5
  <2>7. \/ ~running'
        \/ /\ \A k \in Since' : OnTheWay(k)'.what = "data"
           /\ control_idx' = Turn(c, Len(net') - Old')
    <3>1. CASE ~running BY <1>1, <3>1
    <3>2. CASE running
      <4>1. /\ \A k \in Since : OnTheWay(k).what = "data"
            /\ control_idx = Turn(b, Len(net) - Old)
        BY <2>1, <3>2 DEF Expects
      <4>2. Len(net') - Old' \in Nat /\ Len(net') - Old' + 1 = Len(net) - Old
        BY <1>2, <1>3, <2>3
      <4>3. Turn(c, Len(net') - Old') = Turn(b, Len(net) - Old)
        BY <4>2, TwoOn
      <4> HIDE DEF c
      <4> QED BY <1>1, <2>5, <4>1, <4>3
    <3> QED BY <3>1, <3>2
  <2>8. ASSUME radio'.on
        PROVE  /\ radio'.ptt = settings'.ptt
               /\ \A i \in 0..12 : Behind(i, c) <= 2 * settled' => Tuned(radio', settings', i)
    <3>1. radio \in Radio /\ settings \in Settings BY DEF TxTypeInv, TxTypeOK
    <3>2. radio.on
      <4>1. Head(net).what = "data" BY <1>6
      <4> QED BY <1>1, <2>8, <4>1 DEF Handled
    <3>3. /\ radio'.ptt = settings.ptt /\ Tuned(radio', settings, b)
          /\ Tuned(radio', settings, NextIdx(b))
          /\ \A j \in 0..12 : Tuned(radio, settings, j) => Tuned(radio', settings, j)
      <4>1. radio' = Handled(radio, Packed(settings, b, q)) BY <1>1, <2>4
      <4> HIDE DEF c
      <4> QED BY <3>1, <3>2, <4>1, PacketTunes
    <3>4. ASSUME NEW i \in 0..12, Behind(i, c) <= 2 * settled'
          PROVE  Tuned(radio', settings, i)
      <4>1. CASE i = b \/ i = NextIdx(b) BY <3>3, <4>1
      <4>2. CASE ~(i = b \/ i = NextIdx(b))
        <5>1. Behind(i, b) <= 2 * settled /\ settled > 0
          <6>1. Behind(i, b) \in 1..13 BY DEF Behind
          <6>2. CASE settled = 7 BY <6>1, <6>2
          <6>3. CASE settled # 7
            <7>1. settled \in Nat /\ settled' = settled + 1 BY <1>2, <1>6, <2>3, <6>3
            <7>2. Behind(i, b) <= 2 * settled BY <3>4, <4>2, <7>1, BehindMoves
            <7> QED BY <6>1, <7>1, <7>2
          <6> QED BY <6>2, <6>3
        <5> QED BY <2>1, <3>2, <3>3, <5>1 DEF Expects
      <4> QED BY <4>1, <4>2
    <3> HIDE DEF c
    <3> QED BY <1>1, <3>3, <3>4
  <2> HIDE DEF c
  <2>9. Expects(c)' BY <2>6, <2>7, <2>8 DEF Expects
  <2> QED BY <1>1, <1>2, <1>3, <2>2, <2>3, <2>9 DEF RotationInv
<1> QED BY <1>2, <1>4, <1>5, <1>6

LEMMA RotationStep ==
  ASSUME TxTypeInv, RotationInv, [TxNext]_txVars
  PROVE  RotationInv'
<1>1. TxTypeInv' BY TxTypeStep
<1>2. in_run => running BY DEF RotationInv
<1>3. CASE Set \/ SetPtt
  <2>1. settled' = 0 - Len(net') /\ UNCHANGED <<in_run, running>>
    BY <1>3 DEF Set, SetPtt, Configure, Unsettled
  <2> QED BY <1>1, <1>2, <2>1, StartsOver
<1>4. CASE Start
  <2>1. settled' = 0 - Len(net') /\ ~in_run' BY <1>4 DEF Start, Unsettled
  <2> QED BY <1>1, <2>1, StartsOver
<1>5. CASE Lose \/ Overtake \/ Repeat
  <2>1. settled' = 0 - Len(net') /\ UNCHANGED <<in_run, running>>
    BY <1>5 DEF Lose, Overtake, Repeat, Fault, Unsettled, hostVars
  <2> QED BY <1>1, <1>2, <2>1, StartsOver
<1>6. CASE SetCwMode \/ Run \/ Produce \/ ConnectionLost \/ UNCHANGED txVars
  <2>1. /\ UNCHANGED <<settings, control_idx, net, radio, settled, running>>
        /\ in_run' => running'
    BY <1>2, <1>6 DEF SetCwMode, Run, Produce, ConnectionLost, txVars, hostVars
  <2> QED BY <2>1, GoesOn
<1>7. CASE Stop BY <1>1, <1>7, StopRotates
<1>8. CASE SendHostData BY <1>1, <1>8, SendRotates
<1>9. CASE Arrive BY <1>1, <1>9, ArriveRotates
<1> QED
  BY <1>3, <1>4, <1>5, <1>6, <1>7, <1>8, <1>9 DEF TxNext, HostStep, NetStep

LEMMA RotationStart == TxInit => RotationInv
<1> SUFFICES ASSUME TxInit PROVE RotationInv OBVIOUS
<1>1. net = <<>> /\ settled = 0 /\ control_idx = 0 /\ ~in_run BY DEF TxInit
<1>2. Old = 0 /\ Len(net) = 0 /\ Since = {} BY <1>1 DEF Old, Since
<1>3. Turn(0, 0 - 0) = 0 BY TwoOn
<1>4. Expects(0) BY <1>1, <1>2, <1>3 DEF Expects
<1> QED BY <1>1, <1>2, <1>4 DEF RotationInv

\* Seven packets in order after the last change or fault the radio is tuned,
\* filtered, driven and keyed as set, for any settings, any number of DDCs and
\* whatever the network and the host program did before (next_control_command,
\* process_control).
THEOREM OneRotationTunesAlways == SessionSpec => []OneRotationTunes
<1> DEFINE Inv == TxTypeInv /\ RotationInv
<1>1. SessionInit => Inv
  BY TxTypeStart, RotationStart DEF SessionInit
<1>2. Inv /\ [Discovering \/ Connect \/ Connected]_sessionVars => Inv'
  <2>1. [Discovering \/ Connect \/ Connected]_sessionVars => [TxNext]_txVars
    BY DEF Discovering, Connect, Connected, sessionVars
  <2> QED BY <2>1, TxTypeStep, RotationStep
<1> QED
  BY <1>1, <1>2, RotationImplies, PTL DEF SessionSpec

-----------------------------------------------------------------------------
(* Discovery.  What the caller's list names is known from where an answer  *)
(* can be on its way there: in the hand of a task, in the channel, or on   *)
(* the list.                                                               *)

Macs(s) == {s[i].mac : i \in DOMAIN s}

InHand == UNION {Macs(hand[s]) : s \in Sockets}

Once == \A i, j \in DOMAIN devices : devices[i].mac = devices[j].mac => i = j

\* Nothing taken in is lost on its way to the caller.
OnItsWay ==
  stage \in {"collecting", "returned"} =>
    taken = Macs(devices) \union Macs(channel) \union InHand

ReturnedEmpty == stage = "returned" => channel = <<>> /\ AllEnded

DiscoveryInv == DiscoveryTypeOK /\ Once /\ OnItsWay /\ ReturnedEmpty

\* A datagram is one device or none.
LEMMA ParsedType ==
  ASSUME NEW dg \in Datagrams
  PROVE  Parsed(dg) \in Seq(Device) /\ Len(Parsed(dg)) \in {0, 1}
<1>1. dg \in Datagram
  BY DiscoveryAssumption
<1>2. CASE Parsed(dg) = <<>>
  BY <1>2
<1>3. CASE Parsed(dg) # <<>>
  <2>1. Parsed(dg) = <<[mac |-> dg.mac, code |-> dg.code, status |-> dg.status]>>
    BY <1>3 DEF Parsed
  <2>2. dg.code \in {1, 6} /\ dg.status \in {2, 3}
    BY <1>3 DEF Parsed
  <2>3. [mac |-> dg.mac, code |-> dg.code, status |-> dg.status] \in Device
    BY <1>1, <2>2 DEF Device, Datagram
  <2> QED
    BY <2>1, <2>3
<1> QED
  BY <1>2, <1>3

\* The addresses of a sequence with one more, or one less.
LEMMA MacsAppend ==
  ASSUME NEW s \in Seq(Device), NEW d \in Device
  PROVE  Macs(Append(s, d)) = Macs(s) \union {d.mac}
BY DEF Macs

LEMMA MacsOne ==
  ASSUME NEW s \in Seq(Device), Len(s) = 1
  PROVE  Head(s) \in Device /\ Macs(s) = {Head(s).mac}
BY DEF Macs

LEMMA MacsNone ==
  <<>> \in Seq(Device) /\ Len(<<>>) = 0 /\ Macs(<<>>) = {}
BY DEF Macs

LEMMA MacsTail ==
  ASSUME NEW s \in Seq(Device), s # <<>>
  PROVE  Macs(s) = {Head(s).mac} \union Macs(Tail(s))
<1>1. \A i \in DOMAIN Tail(s) : i + 1 \in DOMAIN s /\ Tail(s)[i] = s[i + 1]
  OBVIOUS
<1>2. \A i \in DOMAIN s : i # 1 => i - 1 \in DOMAIN Tail(s) /\ s[i] = Tail(s)[i - 1]
  OBVIOUS
<1>3. 1 \in DOMAIN s /\ Head(s) = s[1]
  OBVIOUS
<1>4. Macs(s) \subseteq {Head(s).mac} \union Macs(Tail(s))
  <2> SUFFICES ASSUME NEW i \in DOMAIN s
               PROVE  s[i].mac \in {Head(s).mac} \union Macs(Tail(s))
    BY DEF Macs
  <2> QED
    BY <1>2, <1>3 DEF Macs
<1>5. Macs(Tail(s)) \subseteq Macs(s)
  BY <1>1 DEF Macs
<1>6. Head(s).mac \in Macs(s)
  BY <1>3 DEF Macs
<1> QED
  BY <1>4, <1>5, <1>6
\* Every step of discovery keeps the types.
LEMMA TypeStep ==
  DiscoveryTypeOK /\ DiscoveryNext => DiscoveryTypeOK'
<1> SUFFICES ASSUME DiscoveryTypeOK, DiscoveryNext PROVE DiscoveryTypeOK'
  OBVIOUS
<1> USE DiscoveryAssumption DEF DiscoveryTypeOK, Open
<1>1. CASE Discover
  <2>1. \A s \in Sockets : hand[s] = <<>> /\ Len(hand[s]) = 0
    BY <1>1 DEF Discover, AllEnded
  <2>2. \A s \in Sockets : task'[s] # "send"
    BY <1>1 DEF Discover
  <2>3. task' \in [Sockets -> {"top", "none"}] /\ stage' \in {"failed", "collecting"}
    BY <1>1 DEF Discover
  <2>4. \A s \in Sockets : Len(hand'[s]) = IF task'[s] = "send" THEN 1 ELSE 0
    BY <1>1, <2>1, <2>2 DEF Discover
  <2>5. /\ channel' \in Seq(Device) /\ Len(channel') <= CHANNEL_CAP
        /\ devices' \in Seq(Device) /\ taken' \subseteq STRING
        /\ answers' \in 0..MAX_ANSWERS /\ expired' \in BOOLEAN
    <3>1. /\ channel' = <<>> /\ devices' = <<>> /\ taken' = {}
          /\ answers' = 0 /\ expired' = FALSE
      BY <1>1 DEF Discover
    <3>2. channel' \in Seq(Device) /\ Len(channel') = 0 /\ devices' \in Seq(Device)
      BY <3>1, MacsNone
    <3>3. 0 <= CHANNEL_CAP /\ 0 \in 0..MAX_ANSWERS
      OBVIOUS
    <3> QED
      BY <3>1, <3>2, <3>3
  <2>6. /\ stage' \in {"idle", "failed", "collecting", "returned", "cancelled", "connected"}
        /\ task' \in [Sockets -> Open \union {"none", "ended"}]
        /\ arrived' \in [Sockets -> Seq(Datagrams)]
        /\ hand' \in [Sockets -> Seq(Device)]
    BY <1>1, <2>3 DEF Discover
  <2> QED
    BY <2>4, <2>5, <2>6
<1>2. CASE Collect
  <2>1. Head(channel) \in Device /\ Tail(channel) \in Seq(Device)
        /\ Len(Tail(channel)) <= CHANNEL_CAP
    BY <1>2 DEF Collect
  <2> QED
    BY <1>2, <2>1 DEF Collect
<1>3. CASE Return
  BY <1>3 DEF Return
<1>4. CASE Cancel
  BY <1>4 DEF Cancel
<1>5. CASE Expire
  BY <1>5 DEF Expire
<1>6. ASSUME NEW s \in Sockets, Answer(s) PROVE DiscoveryTypeOK'
  BY <1>6 DEF Answer
<1>7. ASSUME NEW s \in Sockets, LookAtClock(s) PROVE DiscoveryTypeOK'
  BY <1>7 DEF LookAtClock, Becomes
<1>8. ASSUME NEW s \in Sockets, Receive(s) PROVE DiscoveryTypeOK'
  <2>1. /\ arrived[s] \in Seq(Datagrams) /\ Head(arrived[s]) \in Datagrams
        /\ Tail(arrived[s]) \in Seq(Datagrams)
    BY <1>8 DEF Receive
  <2> DEFINE got == Parsed(Head(arrived[s]))
  <2>2. got \in Seq(Device) /\ Len(got) \in {0, 1}
    BY <2>1, ParsedType
  <2> HIDE DEF got
  <2>3. hand' = [hand EXCEPT ![s] = got] /\ hand'[s] = got
    BY <1>8 DEF Receive, got
  <2>4. taken' \subseteq STRING
    <3>1. got # <<>> => got[1] \in Device
      BY <2>2
    <3>2. got # <<>> => got[1].mac \in STRING
      BY <3>1 DEF Device
    <3> QED
      BY <1>8, <2>3, <3>2 DEF Receive
  <2>5. Len(hand'[s]) = IF task'[s] = "send" THEN 1 ELSE 0
    <3>1. task'[s] = IF got = <<>> THEN "top" ELSE "send"
      BY <1>8, <2>3 DEF Receive
    <3> QED
      BY <2>2, <2>3, <3>1
  <2>6. \A r \in Sockets \ {s} : hand'[r] = hand[r] /\ task'[r] = task[r]
    BY <1>8 DEF Receive
  <2>7. \A r \in Sockets : Len(hand'[r]) = IF task'[r] = "send" THEN 1 ELSE 0
    BY <2>5, <2>6
  <2>8. /\ task' \in [Sockets -> Open \union {"none", "ended"}]
        /\ arrived' \in [Sockets -> Seq(Datagrams)]
        /\ hand' \in [Sockets -> Seq(Device)]
    BY <1>8, <2>1, <2>2, <2>3 DEF Receive
  <2> QED
    BY <1>8, <2>4, <2>7, <2>8 DEF Receive
<1>9. ASSUME NEW s \in Sockets, ReceiveError(s) PROVE DiscoveryTypeOK'
  BY <1>9 DEF ReceiveError, Becomes
<1>10. ASSUME NEW s \in Sockets, TimeOut(s) PROVE DiscoveryTypeOK'
  BY <1>10 DEF TimeOut, Becomes
<1>11. ASSUME NEW s \in Sockets, Send(s) PROVE DiscoveryTypeOK'
  <2>1. Head(hand[s]) \in Device
    BY <1>11, MacsOne DEF Send
  <2>2. channel' \in Seq(Device) /\ Len(channel') <= CHANNEL_CAP
    <3>1. Append(channel, Head(hand[s])) \in Seq(Device)
          /\ Len(Append(channel, Head(hand[s]))) = Len(channel) + 1
      BY <2>1
    <3>2. CASE channel' = channel
      BY <3>2
    <3>3. CASE channel' = Append(channel, Head(hand[s])) /\ Len(channel) < CHANNEL_CAP
      BY <3>1, <3>3
    <3> QED
      BY <1>11, <3>2, <3>3 DEF Send
  <2>3. hand' = [hand EXCEPT ![s] = <<>>] /\ task'[s] # "send"
        /\ \A r \in Sockets \ {s} : task'[r] = task[r]
    BY <1>11 DEF Send, Becomes
  <2>4. task' \in [Sockets -> Open \union {"none", "ended"}]
        /\ arrived' \in [Sockets -> Seq(Datagrams)]
    <3>1. \A where \in {"ended", "top"} : Becomes(s, where) =>
             /\ task' \in [Sockets -> Open \union {"none", "ended"}]
             /\ arrived' \in [Sockets -> Seq(Datagrams)]
      BY DEF Becomes
    <3> QED
      BY <1>11, <3>1 DEF Send
  <2>5. \A r \in Sockets : /\ hand'[r] \in Seq(Device)
                           /\ Len(hand'[r]) = IF task'[r] = "send" THEN 1 ELSE 0
    <3>1. hand'[s] = <<>> /\ \A r \in Sockets \ {s} : hand'[r] = hand[r]
      BY <2>3
    <3>2. \A r \in Sockets \ {s} : task'[r] = task[r] /\ hand[r] \in Seq(Device)
      BY <2>3
    <3>3. hand'[s] \in Seq(Device) /\ Len(hand'[s]) = 0
      BY <3>1, MacsNone
    <3>4. \A r \in Sockets \ {s} : Len(hand'[r]) = IF task'[r] = "send" THEN 1 ELSE 0
      BY <3>1, <3>2
    <3>5. ASSUME NEW r \in Sockets
          PROVE  /\ hand'[r] \in Seq(Device)
                 /\ Len(hand'[r]) = IF task'[r] = "send" THEN 1 ELSE 0
      <4>1. CASE r = s
        BY <2>3, <3>3, <4>1
      <4>2. CASE r # s
        BY <3>1, <3>2, <3>4, <4>2
      <4> QED
        BY <4>1, <4>2
    <3> QED
      BY <3>5
  <2> QED
    BY <1>11, <2>2, <2>4, <2>5 DEF Send
<1> QED
  BY <1>1, <1>2, <1>3, <1>4, <1>5, <1>6, <1>7, <1>8, <1>9, <1>10, <1>11
  DEF DiscoveryNext, Caller, TaskStep

-----------------------------------------------------------------------------

\* A task that is not sending has nothing in hand.
LEMMA HandsEmpty ==
  ASSUME DiscoveryTypeOK, NEW s \in Sockets, task[s] # "send"
  PROVE  hand[s] = <<>> /\ Macs(hand[s]) = {}
BY MacsNone DEF DiscoveryTypeOK

\* One hand changes and the others do not.
LEMMA InHandChanges ==
  ASSUME NEW s \in Sockets, NEW d, hand \in [Sockets -> Seq(Device)],
         hand' = [hand EXCEPT ![s] = d]
  PROVE  InHand' = Macs(d) \union UNION {Macs(hand[r]) : r \in Sockets \ {s}}
BY DEF InHand

LEMMA InHandSplit ==
  ASSUME NEW s \in Sockets
  PROVE  InHand = Macs(hand[s]) \union UNION {Macs(hand[r]) : r \in Sockets \ {s}}
BY DEF InHand

LEMMA ListStep ==
  ASSUME DiscoveryInv, DiscoveryNext
  PROVE  Once' /\ OnItsWay' /\ ReturnedEmpty'
<1> USE DEF DiscoveryInv
<1>1. CASE Discover
  <2>1. \A s \in Sockets : Macs(hand[s]) = {}
    BY <1>1, HandsEmpty DEF Discover, AllEnded, Open
  <2>2. InHand' = {}
    BY <1>1, <2>1 DEF Discover, InHand
  <2>3. devices' = <<>> /\ channel' = <<>> /\ taken' = {} /\ stage' # "returned"
    BY <1>1 DEF Discover
  <2>4. Macs(devices') = {} /\ Macs(channel') = {}
    BY <2>3, MacsNone
  <2> QED
    BY <2>2, <2>3, <2>4 DEF Once, OnItsWay, ReturnedEmpty, Macs
<1>2. CASE Collect
  <2>1. /\ channel \in Seq(Device) /\ channel # <<>> /\ Head(channel) \in Device
        /\ devices \in Seq(Device) /\ channel' = Tail(channel)
    BY <1>2 DEF Collect, DiscoveryTypeOK
  <2>2. Macs(channel) = {Head(channel).mac} \union Macs(channel')
    BY <2>1, MacsTail
  <2>3. Once' /\ Macs(devices') = Macs(devices) \union {Head(channel).mac}
    <3>1. CASE Head(channel).mac \in Macs(devices)
      BY <1>2, <3>1 DEF Collect, Macs, Once
    <3>2. CASE Head(channel).mac \notin Macs(devices)
      <4>1. devices' = Append(devices, Head(channel))
        BY <1>2, <3>2 DEF Collect, Macs
      <4>2. /\ DOMAIN devices' = DOMAIN devices \union {Len(devices) + 1}
            /\ devices'[Len(devices) + 1] = Head(channel)
            /\ \A i \in DOMAIN devices : devices'[i] = devices[i]
        BY <2>1, <4>1
      <4>3. Once'
        BY <3>2, <4>2 DEF Once, Macs
      <4> QED
        BY <2>1, <4>1, <4>3, MacsAppend
    <3> QED
      BY <3>1, <3>2
  <2>4. InHand' = InHand /\ taken' = taken /\ stage' = stage /\ stage = "collecting"
    BY <1>2 DEF Collect, InHand
  <2> QED
    BY <2>2, <2>3, <2>4 DEF OnItsWay, ReturnedEmpty
<1>3. CASE Return
  BY <1>3 DEF Return, Closed, AllEnded, Once, OnItsWay, ReturnedEmpty, InHand
<1>4. CASE Cancel
  BY <1>4 DEF Cancel, Once, OnItsWay, ReturnedEmpty
<1>5. CASE Expire
  BY <1>5 DEF Expire, AllEnded, Once, OnItsWay, ReturnedEmpty, InHand
<1>6. ASSUME NEW s \in Sockets, Answer(s) PROVE Once' /\ OnItsWay' /\ ReturnedEmpty'
  BY <1>6 DEF Answer, AllEnded, Once, OnItsWay, ReturnedEmpty, InHand
<1>7. ASSUME NEW s \in Sockets,
             LookAtClock(s) \/ ReceiveError(s) \/ TimeOut(s)
      PROVE  Once' /\ OnItsWay' /\ ReturnedEmpty'
  <2>1. task[s] \in Open /\ UNCHANGED <<stage, devices, channel, taken, hand>>
    BY <1>7 DEF LookAtClock, ReceiveError, TimeOut, Open
  <2>2. stage # "returned"
    BY <2>1 DEF ReturnedEmpty, AllEnded
  <2> QED
    BY <2>1, <2>2 DEF Once, OnItsWay, ReturnedEmpty, InHand
<1>8. ASSUME NEW s \in Sockets, Receive(s) PROVE Once' /\ OnItsWay' /\ ReturnedEmpty'
  <2> DEFINE got == Parsed(Head(arrived[s]))
  <2>1. /\ task[s] \in Open /\ task[s] # "send"
        /\ UNCHANGED <<stage, devices, channel>>
        /\ hand \in [Sockets -> Seq(Device)]
        /\ hand' = [hand EXCEPT ![s] = got] /\ hand'[s] = got
    BY <1>8 DEF Receive, Open, DiscoveryTypeOK
  <2>2. stage # "returned"
    BY <2>1 DEF ReturnedEmpty, AllEnded
  <2>3. got \in Seq(Device) /\ Len(got) \in {0, 1}
    <3>1. Head(arrived[s]) \in Datagrams
      BY <1>8 DEF Receive, DiscoveryTypeOK
    <3> QED
      BY <3>1, ParsedType
  <2>4. InHand' = InHand \union Macs(got)
    <3>1. Macs(hand[s]) = {}
      BY <2>1, HandsEmpty
    <3> HIDE DEF got
    <3> QED
      BY <2>1, <3>1, InHandChanges, InHandSplit
  <2>5. stage = "collecting" => taken' = taken \union Macs(got)
    <3> SUFFICES ASSUME stage = "collecting" PROVE taken' = taken \union Macs(got)
      OBVIOUS
    <3>1. taken' = IF got = <<>> THEN taken ELSE taken \union {got[1].mac}
      BY <1>8, <2>1 DEF Receive
    <3> HIDE DEF got
    <3>2. CASE got = <<>>
      BY <3>1, <3>2, MacsNone
    <3>3. CASE got # <<>>
      <4>1. Len(got) = 1 /\ Head(got) = got[1]
        BY <2>3, <3>3
      <4> QED
        BY <2>3, <3>1, <3>3, <4>1, MacsOne
    <3> QED
      BY <3>2, <3>3
  <2> HIDE DEF got
  <2> QED
    BY <2>1, <2>2, <2>4, <2>5 DEF Once, OnItsWay, ReturnedEmpty
<1>9. ASSUME NEW s \in Sockets, Send(s) PROVE Once' /\ OnItsWay' /\ ReturnedEmpty'
  <2>1. /\ task[s] = "send" /\ UNCHANGED <<stage, devices, taken>>
        /\ hand \in [Sockets -> Seq(Device)]
        /\ hand' = [hand EXCEPT ![s] = <<>>]
        /\ hand[s] \in Seq(Device) /\ Len(hand[s]) = 1
    BY <1>9 DEF Send, DiscoveryTypeOK
  <2>2. stage # "returned"
    BY <2>1 DEF ReturnedEmpty, AllEnded, Open
  <2>3. stage = "collecting" => Macs(channel') = Macs(channel) \union Macs(hand[s])
    <3> SUFFICES ASSUME stage = "collecting"
                 PROVE  Macs(channel') = Macs(channel) \union Macs(hand[s])
      OBVIOUS
    <3>1. channel' = Append(channel, Head(hand[s])) /\ channel \in Seq(Device)
      BY <1>9 DEF Send, DiscoveryTypeOK
    <3> QED
      BY <2>1, <3>1, MacsOne, MacsAppend
  <2>4. InHand = Macs(hand[s]) \union InHand'
    <3>1. InHand' = Macs(<<>>) \union UNION {Macs(hand[r]) : r \in Sockets \ {s}}
      BY <2>1, InHandChanges
    <3>2. InHand' = UNION {Macs(hand[r]) : r \in Sockets \ {s}}
      BY <3>1, MacsNone
    <3>3. InHand = Macs(hand[s]) \union UNION {Macs(hand[r]) : r \in Sockets \ {s}}
      BY InHandSplit
    <3> QED
      BY <3>2, <3>3
  <2> QED
    BY <2>1, <2>2, <2>3, <2>4 DEF Once, OnItsWay, ReturnedEmpty
<1> QED
  BY <1>1, <1>2, <1>3, <1>4, <1>5, <1>6, <1>7, <1>8, <1>9
  DEF DiscoveryNext, Caller, TaskStep

LEMMA SessionStep ==
  ASSUME DiscoveryInv, [Discovering \/ Connect \/ Connected]_sessionVars
  PROVE  DiscoveryInv'
<1>1. CASE Discovering
  BY <1>1, TypeStep, ListStep DEF Discovering, DiscoveryInv
<1>2. CASE Connect
  <2>1. DiscoveryTypeOK'
    <3>1. /\ stage' = "connected" /\ devices' = <<>> /\ taken' = {} /\ answers' = 0
          /\ expired' = FALSE /\ task' = [s \in Sockets |-> "none"]
          /\ UNCHANGED <<arrived, hand, channel>>
      BY <1>2 DEF Connect
    <3>2. devices' \in Seq(Device) /\ answers' \in 0..MAX_ANSWERS
      BY <3>1, MacsNone, DiscoveryAssumption
    <3>3. \A s \in Sockets : Len(hand[s]) = 0
      BY <1>2 DEF Connect, DiscoveryInv, DiscoveryTypeOK, ReturnedEmpty, AllEnded, Open
    <3>4. \A s \in Sockets : Len(hand'[s]) = IF task'[s] = "send" THEN 1 ELSE 0
      BY <3>1, <3>3
    <3> QED
      BY <3>1, <3>2, <3>4 DEF DiscoveryInv, DiscoveryTypeOK
  <2>2. Once' /\ OnItsWay' /\ ReturnedEmpty'
    BY <1>2 DEF Connect, Once, OnItsWay, ReturnedEmpty
  <2> QED
    BY <2>1, <2>2 DEF DiscoveryInv
<1>3. CASE UNCHANGED discoveryVars
  BY <1>3 DEF discoveryVars, DiscoveryInv, DiscoveryTypeOK, Once, OnItsWay,
              ReturnedEmpty, InHand, AllEnded
<1> QED
  BY <1>1, <1>2, <1>3 DEF Connected, sessionVars

LEMMA SessionStart == SessionInit => DiscoveryInv
<1> SUFFICES ASSUME SessionInit PROVE DiscoveryInv
  OBVIOUS
<1>1. DiscoveryTypeOK
  <2>1. /\ channel \in Seq(Device) /\ Len(channel) = 0 /\ devices \in Seq(Device)
        /\ 0 <= CHANNEL_CAP /\ answers \in 0..MAX_ANSWERS
    BY MacsNone, DiscoveryAssumption DEF SessionInit, DiscoveryInit
  <2>2. \A d : <<>> \in Seq(d)
    OBVIOUS
  <2>3. /\ hand \in [Sockets -> Seq(Device)] /\ arrived \in [Sockets -> Seq(Datagrams)]
        /\ \A s \in Sockets : Len(hand[s]) = IF task[s] = "send" THEN 1 ELSE 0
    BY <2>2, MacsNone DEF SessionInit, DiscoveryInit
  <2> QED
    BY <2>1, <2>3 DEF SessionInit, DiscoveryInit, DiscoveryTypeOK, Open
<1>2. Once /\ OnItsWay /\ ReturnedEmpty
  BY DEF SessionInit, DiscoveryInit, Once, OnItsWay, ReturnedEmpty
<1> QED
  BY <1>1, <1>2 DEF DiscoveryInv

\* The radio's registers, the rotation, the channel and what is counted keep
\* their ranges, for any number of DDCs, any settings and any faults (process_
\* control, next_control_command, fill_host_subframe, discover_multi).
THEOREM SessionTypeCorrect == SessionSpec => []SessionTypeOK
<1> DEFINE Inv == DiscoveryInv /\ TxTypeInv
<1>1. SessionInit => Inv
  BY SessionStart, TxTypeStart DEF SessionInit
<1>2. Inv /\ [Discovering \/ Connect \/ Connected]_sessionVars => Inv'
  <2> SUFFICES ASSUME Inv, [Discovering \/ Connect \/ Connected]_sessionVars
               PROVE  TxTypeInv'
    BY SessionStep
  <2>1. [TxNext]_txVars
    BY DEF Discovering, Connect, Connected, sessionVars
  <2> QED
    BY <2>1, TxTypeStep
<1>3. Inv => SessionTypeOK
  BY DEF SessionTypeOK, TxTypeInv, DiscoveryInv
<1> QED
  BY <1>1, <1>2, <1>3, PTL DEF SessionSpec

\* The same of a whole session: a device found, connected to, and transmitted
\* with gets no padded voice packet (run, fill_host_subframe).
THEOREM SessionNoPadding ==
  ASSUME Nddcs = {1}, ROW_BYTES = 8 * SUBFRAME
  PROVE  SessionSpec => []NoZeroPad
<1>1. SessionInit => TxInit
  BY DEF SessionInit
<1>2. [Discovering \/ Connect \/ Connected]_sessionVars => [TxNext]_txVars
  BY DEF Discovering, Connect, Connected, sessionVars
<1>3. SessionSpec => TxSpec
  BY <1>1, <1>2, PTL DEF SessionSpec, TxSpec
<1> QED
  BY <1>3, NoPadding, PTL

\* What discover() returns is exact, for any number of interfaces and answers,
\* however small the channel and whatever the caller did before: every device
\* of which a task took in an answer, each once, and no other (discover_multi).
THEOREM ListExactAlways == SessionSpec => [](stage = "returned" => ListIsExact)
<1>1. DiscoveryInv => (stage = "returned" => ListIsExact)
  <2> SUFFICES ASSUME DiscoveryInv, stage = "returned" PROVE ListIsExact
    OBVIOUS
  <2>1. \A s \in Sockets : Macs(hand[s]) = {}
    BY HandsEmpty DEF DiscoveryInv, ReturnedEmpty, AllEnded, Open
  <2>2. InHand = {} /\ Macs(channel) = {}
    BY <2>1, MacsNone DEF DiscoveryInv, ReturnedEmpty, InHand
  <2>3. taken = Macs(devices) /\ Once
    BY <2>2 DEF DiscoveryInv, OnItsWay
  <2> QED
    BY <2>3 DEF ListIsExact, Macs, Once
<1> QED
  BY <1>1, SessionStart, SessionStep, PTL DEF SessionSpec
=============================================================================
