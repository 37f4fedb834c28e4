--------------------------- MODULE P1ReceiveProofs ---------------------------
(***************************************************************************)
(* Proofs about P1Receive, for any sequence numbers, capacities, faults    *)
(* and restarts: a status sent on after three packets in sequence has its  *)
(* readings from one round, the accumulator leaves gaps only between       *)
(* sub-frames, and types and bounds hold.                                  *)
(***************************************************************************)
EXTENDS P1Receive, SequenceTheorems, TLAPS

Half == [session : Sessions, seq : 0..2 * ROUNDS - 1]

\* What the radio says in a packet: even ones begin a round.
RoundOf(h) == [session |-> h.session, round |-> h.seq \div 2]
First(h) == IF h.seq % 2 = 0 THEN 0 ELSE 16

Honest ==
  {p \in [session : Sessions, seq : 0..2 * ROUNDS - 1,
          frames : [1..2 -> [addr : ADDRS, tag : Tag]]] :
     /\ p.frames[1] = [addr |-> First(p), tag |-> RoundOf(p)]
     /\ p.frames[2] = [addr |-> First(p) + 8, tag |-> RoundOf(p)]}

\* The radio counts rounds by two packets.
RadioInv ==
  /\ radio \in [session : Sessions, data_seq : 0..2 * ROUNDS - 1,
                control_idx : {0, 2}, round : 0..ROUNDS - 1]
  /\ 2 * radio.data_seq = 4 * radio.round + radio.control_idx

\* The readings of the packet a were put together last, those of b before them.
Gathered(a) == /\ accumulated_status.of[First(a)] = RoundOf(a)
               /\ accumulated_status.of[First(a) + 8] = RoundOf(a)

\* The last packet handled, and the one before if it was of the other kind.
ClientInv ==
  /\ accumulated_status \in RadioStatus
  /\ status_chan \in Seq(RadioStatus)
  /\ heard \in Seq(Half)
  /\ Len(heard) = 0 => last_status_addr = NONE
  /\ Len(heard) > 0 => /\ last_status_addr = First(heard[Len(heard)]) + 8
                       /\ Gathered(heard[Len(heard)])
  /\ Len(heard) > 1 =>
       \/ First(heard[Len(heard) - 1]) = First(heard[Len(heard)])
       \/ Gathered(heard[Len(heard) - 1])

RxInv == RadioInv /\ net \in Seq(Honest) /\ ClientInv

-----------------------------------------------------------------------------
(* Lemmas.                                                                 *)

\* Removal leaves a sequence over the same set.
LEMMA RemoveAtType ==
  ASSUME NEW S, NEW q \in Seq(S), NEW k \in DOMAIN q
  PROVE  RemoveAt(q, k) \in Seq(S)
<1>1. k \in 1..Len(q) OBVIOUS
<1>2. SubSeq(q, 1, k - 1) \in Seq(S) BY <1>1
<1>3. SubSeq(q, k + 1, Len(q)) \in Seq(S) BY <1>1
<1> QED BY <1>2, <1>3 DEF RemoveAt

\* Even and odd.
LEMMA Parity ==
  ASSUME NEW x \in Nat
  PROVE  x % 2 \in {0, 1} /\ x \div 2 \in Nat /\ x = 2 * (x \div 2) + (x % 2)
OBVIOUS

LEMMA Halves ==
  ASSUME NEW x \in Nat, NEW r \in Nat
  PROVE  /\ x = 2 * r => x % 2 = 0 /\ x \div 2 = r
         /\ x = 2 * r + 1 => x % 2 = 1 /\ x \div 2 = r
OBVIOUS

\* The number after an even one is odd, and in the same round; the one after an
\* odd one is even.
LEMMA NextParity ==
  ASSUME NEW x \in 0..2 * ROUNDS - 1, NEW y, y = NextSeq(x)
  PROVE  /\ x % 2 = 0 => y % 2 = 1 /\ y \div 2 = x \div 2
         /\ x % 2 = 1 => y % 2 = 0
<1> DEFINE k == x \div 2
<1>1. ROUNDS \in Nat \ {0} BY ReceiveAssumption DEF ReceiveAssumption
<1>2. x \in Nat /\ k \in Nat /\ x % 2 \in {0, 1} /\ x = 2 * k + (x % 2) BY <1>1, Parity
<1>3. y = 0 \/ y = x + 1 BY DEF NextSeq
<1>4. CASE x % 2 = 0
  <2>1. y = 2 * k + 1
    <3>1. x # 2 * ROUNDS - 1 BY <1>1, <1>2, <1>4
    <3> QED BY <1>2, <1>4, <3>1 DEF NextSeq
  <2> HIDE DEF k
  <2>2. y \in Nat BY <1>2, <2>1
  <2>3. y % 2 = 1 /\ y \div 2 = k BY <1>2, <2>1, <2>2, Halves
  <2> QED BY <1>4, <2>3 DEF k
<1>5. CASE x % 2 = 1
  <2>1. \E j \in Nat : y = 2 * j
    <3>1. CASE y = 0 BY <3>1
    <3>2. CASE y = x + 1
      <4> HIDE DEF k
      <4>1. k + 1 \in Nat /\ y = 2 * (k + 1) BY <1>2, <1>5, <3>2
      <4> QED BY <4>1
    <3> QED BY <1>3, <3>1, <3>2
  <2>2. PICK j \in Nat : y = 2 * j BY <2>1
  <2>3. y \in Nat BY <2>2
  <2>4. y % 2 = 0 BY <2>2, <2>3, Halves
  <2> QED BY <1>5, <2>4
<1> QED BY <1>2, <1>4, <1>5

\* The packet the radio builds is honest, and leaves it as it was.
LEMMA RadioIsHonest ==
  ASSUME RadioInv
  PROVE  /\ DataPacket(radio) \in Honest
         /\ radio' = [Rotated(Rotated(radio)) EXCEPT !.data_seq = NextSeq(@)]
              => RadioInv'
<1> DEFINE s == radio.session
           r == radio.round
           d == radio.data_seq
           c == radio.control_idx
           t == [session |-> s, round |-> r]
           next == IF r = ROUNDS - 1 THEN 0 ELSE r + 1
           State(i, j, k) == [session |-> s, data_seq |-> i, control_idx |-> j, round |-> k]
<1>1. ROUNDS \in Nat \ {0} BY ReceiveAssumption DEF ReceiveAssumption
<1>2. /\ r \in 0..ROUNDS - 1 /\ d \in 0..2 * ROUNDS - 1 /\ c \in {0, 2}
      /\ 2 * d = 4 * r + c /\ s \in Sessions
      /\ radio = State(d, c, r)
  BY DEF RadioInv
<1>3. t \in Tag BY <1>2 DEF Tag
<1> HIDE DEF s, r, d, c
<1>4. d \in Nat /\ r \in Nat BY <1>1, <1>2
<1>5. CASE c = 0
  <2>1. d = 2 * r BY <1>2, <1>4, <1>5
  <2>2. d % 2 = 0 /\ d \div 2 = r BY <1>4, <2>1, Halves
  <2>3. Rotated(radio) = State(d, 1, r) BY <1>2, <1>5 DEF Rotated
  <2>4. Rotated(State(d, 1, r)) = State(d, 2, r) BY DEF Rotated
  <2>5. DataPacket(radio) =
          [session |-> s, seq |-> d,
           frames |-> <<[addr |-> 0, tag |-> t], [addr |-> 8, tag |-> t]>>]
    BY <1>2, <1>5, <2>3 DEF DataPacket, FrameOf, RESPONSE_ADDRS
  <2>6. DataPacket(radio) \in Honest
    BY <1>2, <1>3, <2>2, <2>5 DEF Honest, First, RoundOf, ADDRS
  <2>7. NextSeq(d) = d + 1 /\ NextSeq(d) \in 0..2 * ROUNDS - 1
    BY <1>1, <1>2, <1>4, <2>1 DEF NextSeq
  <2>8. ASSUME radio' = [Rotated(Rotated(radio)) EXCEPT !.data_seq = NextSeq(@)]
        PROVE  RadioInv'
    <3>1. radio' = State(d + 1, 2, r) BY <2>3, <2>4, <2>7, <2>8
    <3>2. 2 * (d + 1) = 4 * r + 2 BY <1>4, <2>1
    <3> QED BY <1>2, <2>7, <3>1, <3>2 DEF RadioInv
  <2> QED BY <2>6, <2>8
<1>6. CASE c = 2
  <2>1. d = 2 * r + 1 BY <1>2, <1>4, <1>6
  <2>2. d % 2 = 1 /\ d \div 2 = r BY <1>4, <2>1, Halves
  <2>3. Rotated(radio) = State(d, 3, r) BY <1>2, <1>6 DEF Rotated
  <2>4. Rotated(State(d, 3, r)) = State(d, 0, next)
    <3>1. Rotated(State(d, 3, r)) =
            [State(d, 3, r) EXCEPT !.control_idx = 0, !.round = next]
      BY DEF Rotated
    <3> HIDE DEF next
    <3> QED BY <3>1
  <2>5. DataPacket(radio) =
          [session |-> s, seq |-> d,
           frames |-> <<[addr |-> 16, tag |-> t], [addr |-> 24, tag |-> t]>>]
    BY <1>2, <1>6, <2>3 DEF DataPacket, FrameOf, RESPONSE_ADDRS
  <2>6. DataPacket(radio) \in Honest
    BY <1>2, <1>3, <2>2, <2>5 DEF Honest, First, RoundOf, ADDRS
  <2>7. /\ NextSeq(d) = 2 * next /\ NextSeq(d) \in 0..2 * ROUNDS - 1
        /\ next \in 0..ROUNDS - 1
    BY <1>1, <1>2, <1>4, <2>1 DEF NextSeq
  <2>8. ASSUME radio' = [Rotated(Rotated(radio)) EXCEPT !.data_seq = NextSeq(@)]
        PROVE  RadioInv'
    <3>1. radio' = State(NextSeq(d), 0, next) BY <2>3, <2>4, <2>8
    <3> HIDE DEF next
    <3>2. 2 * NextSeq(d) = 4 * next + 0 BY <2>7
    <3> QED BY <1>2, <2>7, <3>1, <3>2 DEF RadioInv
  <2> QED BY <2>6, <2>8
<1> QED BY <1>2, <1>5, <1>6

\* What one sub-frame makes of the client.
LEMMA ParsedIs ==
  ASSUME NEW pt, NEW of, NEW last, NEW chan, NEW iq, NEW a, NEW t, NEW h,
         h = Parsed([status |-> [ptt |-> pt, of |-> of], last |-> last,
                     statuses |-> chan, iq |-> iq],
                    [addr |-> a, tag |-> t])
  PROVE  /\ h = [status |-> h.status, last |-> h.last,
                 statuses |-> h.statuses, iq |-> h.iq]
         /\ h.status = [ptt |-> t, of |-> [of EXCEPT ![a] = t]]
         /\ h.last = a
         /\ h.statuses = IF Wrapped(a, last)
                           THEN TrySend(chan, [ptt |-> t, of |-> of]) ELSE chan
<1> DEFINE now == [ptt |-> t, of |-> of]
<1>1. [[ptt |-> pt, of |-> of] EXCEPT !.ptt = t] = now OBVIOUS
<1>2. [now EXCEPT !.of[a] = t] = [ptt |-> t, of |-> [of EXCEPT ![a] = t]] OBVIOUS
<1> HIDE DEF now
<1>3. h = [status |-> [now EXCEPT !.of[a] = t], last |-> a,
           statuses |-> IF Wrapped(a, last) THEN TrySend(chan, now) ELSE chan,
           iq |-> IF iq < IQ_CAP THEN iq + 1 ELSE iq]
  BY <1>1 DEF Parsed
<1>4. h = [status |-> [ptt |-> t, of |-> [of EXCEPT ![a] = t]], last |-> a,
           statuses |-> IF Wrapped(a, last) THEN TrySend(chan, now) ELSE chan,
           iq |-> IF iq < IQ_CAP THEN iq + 1 ELSE iq]
  BY <1>2, <1>3
<1> QED BY <1>4 DEF now

\* A packet of an honest radio: what is sent on, and what is put together.  A
\* status is sent on only by its first sub-frame.
LEMMA HandlingKeeps ==
  ASSUME ClientInv, NEW p \in Honest, Received(p)
  PROVE  /\ ClientInv'
         /\ Len(status_chan') > Len(status_chan) /\ ThreeInARow(heard')
              => OneRound(Last(status_chan'))
<1> DEFINE me == [session |-> p.session, seq |-> p.seq]
           R == RoundOf(p)
           A == First(p)
           pt == accumulated_status.ptt
           of == accumulated_status.of
           of1 == [of EXCEPT ![A] = R]
           of2 == [of1 EXCEPT ![A + 8] = R]
           now == [ptt |-> R, of |-> of]
           h1 == Parsed([status |-> [ptt |-> pt, of |-> of], last |-> last_status_addr,
                         statuses |-> status_chan, iq |-> iq_chan],
                        [addr |-> A, tag |-> R])
           h2 == Parsed(h1, [addr |-> A + 8, tag |-> R])
<1>1. ROUNDS \in Nat \ {0} BY ReceiveAssumption DEF ReceiveAssumption
<1>2. /\ p.frames[1] = [addr |-> A, tag |-> R]
      /\ p.frames[2] = [addr |-> A + 8, tag |-> R]
      /\ R \in Tag /\ A \in {0, 16} /\ me \in Half
      /\ First(me) = A /\ RoundOf(me) = R
  BY DEF Honest, First, RoundOf, Half
<1>3. /\ accumulated_status = [ptt |-> pt, of |-> of]
      /\ of \in [ADDRS -> Tag \cup {NoTag}]
      /\ A \in ADDRS /\ A + 8 \in ADDRS
      /\ status_chan \in Seq(RadioStatus)
  BY <1>2 DEF ClientInv, RadioStatus, ADDRS
<1>4. now \in RadioStatus BY <1>2, <1>3 DEF RadioStatus
<1>5. of2 \in [ADDRS -> Tag \cup {NoTag}]
  <2> HIDE DEF R, A, of
  <2> QED BY <1>2, <1>3
<1>6. /\ accumulated_status' = h2.status /\ last_status_addr' = h2.last
      /\ status_chan' = h2.statuses
      /\ heard' = (IF Len(heard) < 3 THEN heard ELSE Tail(heard)) \o <<me>>
  BY <1>2, <1>3 DEF Received
<1> HIDE DEF R, A, pt, of, me
<1>a. h1 = Parsed([status |-> [ptt |-> pt, of |-> of], last |-> last_status_addr,
                   statuses |-> status_chan, iq |-> iq_chan],
                  [addr |-> A, tag |-> R])
  OBVIOUS
<1> HIDE DEF h1
<1>7. /\ h1 = [status |-> [ptt |-> R, of |-> of1], last |-> A,
               statuses |-> h1.statuses, iq |-> h1.iq]
      /\ h1.statuses = IF Wrapped(A, last_status_addr)
                         THEN TrySend(status_chan, now) ELSE status_chan
  BY <1>a, ParsedIs
<1>8. ~Wrapped(A + 8, A) BY <1>2 DEF Wrapped
<1>9. /\ accumulated_status' = [ptt |-> R, of |-> of2]
      /\ last_status_addr' = A + 8
      /\ status_chan' = h1.statuses
  <2> DEFINE cs == h1.statuses
             ci == h1.iq
  <2>1. h1 = [status |-> [ptt |-> R, of |-> of1], last |-> A, statuses |-> cs, iq |-> ci]
    BY <1>7
  <2> HIDE DEF cs, ci, of1
  <2>2. /\ h2.status = [ptt |-> R, of |-> [of1 EXCEPT ![A + 8] = R]]
        /\ h2.last = A + 8 /\ h2.statuses = cs
    <3>1. h2 = Parsed([status |-> [ptt |-> R, of |-> of1], last |-> A,
                       statuses |-> cs, iq |-> ci],
                      [addr |-> A + 8, tag |-> R])
      BY <2>1
    <3> HIDE DEF h2
    <3> QED BY <1>8, <3>1, ParsedIs
  <2> HIDE DEF h2
  <2> QED BY <1>6, <2>2 DEF cs
<1>10. /\ status_chan' \in {status_chan, Append(status_chan, now)}
       /\ status_chan' \in Seq(RadioStatus)
       /\ status_chan' # status_chan => Wrapped(A, last_status_addr)
  <2> HIDE DEF now
  <2> QED BY <1>3, <1>4, <1>7, <1>9 DEF TrySend
<1> DEFINE n == Len(heard)
           q == IF n < 3 THEN heard ELSE Tail(heard)
<1>11. /\ heard \in Seq(Half) /\ n \in Nat
       /\ q \in Seq(Half)
       /\ n = 0 => q = <<>>
       /\ n > 0 => Len(q) > 0 /\ q[Len(q)] = heard[n]
       /\ Len(q) > 1 => n > 1 /\ q[Len(q) - 1] = heard[n - 1]
  <2>1. heard \in Seq(Half) BY DEF ClientInv
  <2> QED BY <2>1
<1>12. /\ Len(heard') = Len(q) + 1 /\ heard'[Len(heard')] = me
       /\ \A i \in 1..Len(q) : heard'[i] = q[i]
       /\ heard' \in Seq(Half) /\ Len(q) \in Nat
  <2> HIDE DEF q
  <2>1. heard' = q \o <<me>> BY <1>6 DEF q
  <2>2. me \in Half BY <1>2
  <2> QED BY <1>11, <2>1, <2>2
<1> HIDE DEF q, now
<1>13. ClientInv'
  <2>1. of2[A] = R /\ of2[A + 8] = R /\ \A x \in ADDRS \ {A, A + 8} : of2[x] = of[x]
    <3>1. A # A + 8 BY <1>2
    <3> QED BY <1>3, <3>1
  <2>2. accumulated_status'.of = of2 /\ accumulated_status' \in RadioStatus
    <3> HIDE DEF of2
    <3> QED BY <1>2, <1>5, <1>9 DEF RadioStatus
  <2> HIDE DEF of2
  <2>3. /\ accumulated_status'.of[First(me)] = RoundOf(me)
        /\ accumulated_status'.of[First(me) + 8] = RoundOf(me)
    BY <1>2, <2>1, <2>2
  <2>4. ASSUME Len(heard') > 1, First(heard'[Len(heard') - 1]) # A
        PROVE  /\ accumulated_status'.of[First(heard'[Len(heard') - 1])]
                    = RoundOf(heard'[Len(heard') - 1])
               /\ accumulated_status'.of[First(heard'[Len(heard') - 1]) + 8]
                    = RoundOf(heard'[Len(heard') - 1])
    <3>1. n > 0 /\ heard'[Len(heard') - 1] = heard[n]
      <4>1. Len(q) \in 1..Len(q) /\ Len(heard') - 1 = Len(q) BY <1>12, <2>4
      <4>2. n > 0 BY <1>11, <4>1
      <4> QED BY <1>11, <1>12, <4>1, <4>2
    <3>2. Gathered(heard[n]) BY <3>1 DEF ClientInv
    <3>3. First(heard[n]) \in {0, 16} /\ First(heard[n]) # A BY <2>4, <3>1 DEF First
    <3>4. /\ First(heard[n]) \in ADDRS \ {A, A + 8}
          /\ First(heard[n]) + 8 \in ADDRS \ {A, A + 8}
      BY <1>2, <3>3 DEF ADDRS
    <3> QED BY <2>1, <2>2, <3>1, <3>2, <3>4 DEF Gathered, of
  <2> QED
    BY <1>2, <1>9, <1>10, <1>12, <2>2, <2>3, <2>4
    DEF ClientInv, Gathered, First, RoundOf
<1>14. ASSUME Len(status_chan') > Len(status_chan), ThreeInARow(heard')
       PROVE  OneRound(Last(status_chan'))
  <2> DEFINE a == heard[n - 1]
             b == heard[n]
  <2>1. Last(status_chan') = now
    <3>1. status_chan' = Append(status_chan, now) BY <1>3, <1>10, <1>14
    <3> QED BY <1>3, <1>4, <3>1 DEF Last
  <2>2. Len(q) = 2
    <3>1. Len(heard') = 3 BY <1>14 DEF ThreeInARow
    <3> DEFINE m == Len(q)
    <3>2. 3 = m + 1 /\ m \in Nat BY <1>12, <3>1
    <3> HIDE DEF m
    <3>3. m = 2 BY <3>2
    <3> QED BY <3>3 DEF m
  <2>3. /\ n > 1 /\ a = q[1] /\ b = q[2] /\ a \in Half /\ b \in Half
    BY <1>11, <2>2
  <2>4. heard'[1] = a /\ heard'[2] = b /\ heard'[3] = me
    <3> HIDE DEF a, b
    <3> QED BY <1>12, <2>2, <2>3
  <2>5. /\ a.session = b.session /\ b.seq = NextSeq(a.seq) /\ p.seq = NextSeq(b.seq)
    BY <1>14, <2>4 DEF ThreeInARow, me
  <2>6. /\ a.seq \in 0..2 * ROUNDS - 1 /\ b.seq \in 0..2 * ROUNDS - 1
    BY <2>3 DEF Half
  \* The rotation wraps in an even packet.
  <2>7. last_status_addr = First(b) + 8 /\ Gathered(b) /\ Wrapped(A, last_status_addr)
    <3>1. status_chan' # status_chan BY <1>3, <1>14
    <3> QED BY <1>10, <2>3, <3>1 DEF ClientInv
  <2>8. /\ b.seq % 2 \in {0, 1} /\ a.seq % 2 \in {0, 1}
    <3>1. a.seq \in Nat /\ b.seq \in Nat BY <1>1, <2>6
    <3> QED BY <3>1, Parity
  <2>9. b.seq % 2 = 1
    <3> SUFFICES ASSUME b.seq % 2 = 0 PROVE FALSE BY <2>8
    <3>1. p.seq % 2 = 1 BY <2>5, <2>6, NextParity
    <3>2. A = 16 /\ First(b) = 0 BY <3>1 DEF First, A
    <3> QED BY <2>7, <3>2 DEF Wrapped
  <2>10. a.seq % 2 = 0 /\ b.seq \div 2 = a.seq \div 2
    <3>1. a.seq % 2 = 0
      <4> SUFFICES ASSUME a.seq % 2 = 1 PROVE FALSE BY <2>8
      <4> QED BY <2>5, <2>6, <2>9, NextParity
    <3> QED BY <2>5, <2>6, <3>1, NextParity
  <2>11. First(b) = 16 /\ First(a) = 0 /\ RoundOf(a) = RoundOf(b)
    BY <2>5, <2>9, <2>10 DEF First, RoundOf
  <2>12. Gathered(a) BY <2>3, <2>11 DEF ClientInv
  <2>13. \A x \in ADDRS : of[x] = RoundOf(a)
    <3> HIDE DEF a, b
    <3> QED BY <2>7, <2>11, <2>12 DEF Gathered, ADDRS, of
  <2>14. RoundOf(a) # NoTag
    <3>1. a.session \in Nat BY <2>3 DEF Half, Sessions
    <3>2. RoundOf(a).session # NONE BY <3>1 DEF RoundOf, NONE
    <3> QED BY <3>2 DEF NoTag
  <2>15. Last(status_chan').of = of BY <2>1 DEF now
  <2> HIDE DEF a, b
  <2> QED BY <2>13, <2>14, <2>15 DEF OneRound
<1> QED BY <1>13, <1>14

-----------------------------------------------------------------------------
(* The invariant and the theorem.                                          *)

LEMMA RxInit_Inv == RxInit => RxInv
<1> SUFFICES ASSUME RxInit PROVE RxInv OBVIOUS
<1> USE ReceiveAssumption DEF ReceiveAssumption, RxInit
<1>1. RadioInv BY DEF RadioInv, NewRadio, Sessions
<1>2. ClientInv BY DEF ClientInv, RadioStatus
<1> QED BY <1>1, <1>2 DEF RxInv

\* The steps that hear no packet leave what was put together alone.
LEMMA Unheard ==
  ASSUME ClientInv, UNCHANGED clientVars, status_chan' \in Seq(RadioStatus)
  PROVE  ClientInv'
BY DEF ClientInv, clientVars, Gathered

LEMMA RxStep ==
  ASSUME RxInv, [RxNext]_rxVars
  PROVE  /\ RxInv'
         /\ Len(status_chan') > Len(status_chan) /\ ThreeInARow(heard')
              => OneRound(Last(status_chan'))
<1> DEFINE Goal == /\ RxInv'
                   /\ Len(status_chan') > Len(status_chan) /\ ThreeInARow(heard')
                        => OneRound(Last(status_chan'))
<1> SUFFICES Goal OBVIOUS
<1>0. status_chan \in Seq(RadioStatus) /\ net \in Seq(Honest) /\ RadioInv /\ ClientInv
  BY DEF RxInv, ClientInv
\* A step that hears nothing and sends no status.
<1>a. ASSUME UNCHANGED clientVars, UNCHANGED status_chan, RadioInv', net' \in Seq(Honest)
      PROVE  Goal
  <2>1. ClientInv' BY <1>0, <1>a, Unheard
  <2>2. ~(Len(status_chan') > Len(status_chan)) BY <1>0, <1>a
  <2> QED BY <1>a, <2>1, <2>2 DEF RxInv
\* One that hears a packet in flight.
<1>b. ASSUME NEW p \in Honest, Received(p), UNCHANGED radio, net' \in Seq(Honest)
      PROVE  Goal
  <2>1. RadioInv' BY <1>0, <1>b DEF RadioInv
  <2> QED BY <1>0, <1>b, <2>1, HandlingKeeps DEF RxInv
<1>c. UNCHANGED radio => RadioInv' BY <1>0 DEF RadioInv
<1> HIDE DEF Goal
<1>1. CASE Send
  <2>1. RadioInv' /\ DataPacket(radio) \in Honest BY <1>0, <1>1, RadioIsHonest DEF Send
  <2>2. net' \in Seq(Honest)
    <3> HIDE DEF Honest
    <3> QED BY <1>0, <1>1, <2>1 DEF Send
  <2> QED BY <1>1, <1>a, <2>1, <2>2 DEF Send
<1>2. CASE Restart
  <2>1. radio.session \in Sessions BY <1>0 DEF RadioInv
  <2>2. RadioInv'
    BY <1>2, <2>1, ReceiveAssumption
    DEF Restart, RadioInv, NewRadio, Sessions, ReceiveAssumption
  <2> QED BY <1>0, <1>2, <1>a, <2>2 DEF Restart
<1>3. CASE Handle
  <2>1. Head(net) \in Honest /\ net' \in Seq(Honest) BY <1>0, <1>3 DEF Handle
  <2> QED BY <1>3, <1>b, <2>1 DEF Handle
<1>4. CASE Lose
  <2>1. net' \in Seq(Honest) BY <1>0, <1>4, RemoveAtType DEF Lose
  <2> QED BY <1>4, <1>a, <1>c, <2>1 DEF Lose
<1>5. CASE Overtake
  <2>1. PICK k \in 2..Len(net) : Received(net[k]) /\ net' = RemoveAt(net, k)
    BY <1>5 DEF Overtake
  <2>2. k \in DOMAIN net /\ net[k] \in Honest BY <1>0
  <2>3. net' \in Seq(Honest) BY <1>0, <2>1, <2>2, RemoveAtType
  <2> QED BY <1>5, <1>b, <2>1, <2>2, <2>3 DEF Overtake
<1>6. CASE Repeat
  <2>1. Head(net) \in Honest /\ net' \in Seq(Honest)
    <3> HIDE DEF Honest
    <3> QED BY <1>0, <1>6 DEF Repeat
  <2> QED BY <1>6, <1>b, <2>1 DEF Repeat
<1>7. CASE TakeStatus
  <2>1. /\ status_chan' \in Seq(RadioStatus)
        /\ ~(Len(status_chan') > Len(status_chan))
    BY <1>0, <1>7 DEF TakeStatus
  <2>2. ClientInv' BY <1>0, <1>7, <2>1, Unheard DEF TakeStatus
  <2> QED BY <1>0, <1>7, <1>c, <2>1, <2>2 DEF TakeStatus, radioVars, RxInv, Goal
<1>8. CASE Resubscribe
  BY <1>0, <1>8, <1>a, <1>c DEF Resubscribe, radioVars
<1>9. CASE Push
  BY <1>0, <1>9, <1>a, <1>c DEF Push, radioVars
<1>10. CASE NextBlock
  BY <1>0, <1>10, <1>a, <1>c DEF NextBlock, radioVars
<1>11. CASE SetBlockSize
  BY <1>0, <1>11, <1>a, <1>c DEF SetBlockSize, radioVars
<1>12. CASE Clear
  BY <1>0, <1>12, <1>a, <1>c DEF Clear, radioVars
<1>13. CASE UNCHANGED rxVars
  BY <1>0, <1>13, <1>a, <1>c DEF rxVars, radioVars
<1> QED
  BY <1>1, <1>2, <1>3, <1>4, <1>5, <1>6, <1>7, <1>8, <1>9, <1>10, <1>11, <1>12,
     <1>13 DEF RxNext

\* Every status sent on after three packets in sequence has its readings from
\* one round (parse_radio_subframe), whatever went before.
THEOREM StatusOfOneRoundAlways == RxSpec => StatusOfOneRound
<1>1. RxInit => RxInv BY RxInit_Inv
<1>2. RxInv /\ [RxNext]_rxVars => RxInv' BY RxStep
<1>3. RxInv /\ [RxNext]_rxVars =>
        [Len(status_chan') > Len(status_chan) /\ ThreeInARow(heard')
           => OneRound(Last(status_chan'))]_rxVars
  BY RxStep
<1> QED BY <1>1, <1>2, <1>3, PTL DEF RxSpec, StatusOfOneRound

-----------------------------------------------------------------------------
(* The accumulator.  Samples come and go by whole sub-frames, so what is   *)
(* in it goes on without a gap to the end of one.                          *)

Whole(s) ==
  /\ \A k \in 1..Len(s) - 1 : Follows(s[k], s[k + 1])
  /\ Len(s) > 0 => s[Len(s)] = SPR

LEMMA RestOfSequence ==
  ASSUME NEW S, NEW s \in Seq(S), NEW n \in 1..Len(s) + 1
  PROVE  /\ SubSeq(s, n, Len(s)) \in Seq(S)
         /\ Len(SubSeq(s, n, Len(s))) = Len(s) - n + 1
         /\ \A k \in 1..Len(s) - n + 1 : SubSeq(s, n, Len(s))[k] = s[n + k - 1]
<1>1. n \in Int /\ Len(s) \in Nat /\ \A i \in n..Len(s) : s[i] \in S
  OBVIOUS
<1>2. IF n <= Len(s) THEN Len(s) - n + 1 = Len(s) - n + 1 ELSE Len(s) - n + 1 = 0
  OBVIOUS
<1> QED BY <1>1, <1>2, SubSeqProperties

LEMMA ElementAndRest ==
  ASSUME NEW S, NEW s \in Seq(S), NEW n \in 1..Len(s)
  PROVE  <<s[n]>> \o SubSeq(s, n + 1, Len(s)) = SubSeq(s, n, Len(s))
<1> DEFINE r == SubSeq(s, n, Len(s))
           t == SubSeq(s, n + 1, Len(s))
           e == <<s[n]>>
<1>1. n + 1 \in 1..Len(s) + 1 /\ n \in 1..Len(s) + 1 /\ n \in Nat /\ Len(s) \in Nat OBVIOUS
<1>2. /\ r \in Seq(S) /\ Len(r) = Len(s) - n + 1
      /\ \A k \in 1..Len(s) - n + 1 : r[k] = s[n + k - 1]
  BY <1>1, RestOfSequence
<1>3. /\ t \in Seq(S) /\ Len(t) = Len(s) - (n + 1) + 1
      /\ \A k \in 1..Len(s) - (n + 1) + 1 : t[k] = s[n + 1 + k - 1]
  BY <1>1, RestOfSequence
<1>4. e \in Seq(S) /\ Len(e) = 1 /\ e[1] = s[n] OBVIOUS
<1> HIDE DEF r, t, e
<1>5. /\ e \o t \in Seq(S) /\ Len(e \o t) = Len(e) + Len(t)
      /\ \A k \in 1..Len(e) + Len(t) : (e \o t)[k] = IF k <= Len(e) THEN e[k] ELSE t[k - Len(e)]
  BY <1>3, <1>4, ConcatProperties
<1>6. Len(e \o t) = Len(r) BY <1>1, <1>2, <1>3, <1>4, <1>5
<1>7. ASSUME NEW k \in 1..Len(e \o t) PROVE (e \o t)[k] = r[k]
  <2>1. k \in 1..Len(s) - n + 1 /\ k \in 1..Len(e) + Len(t)
    BY <1>1, <1>2, <1>3, <1>4, <1>5
  <2>2. CASE k = 1 BY <1>1, <1>2, <1>4, <1>5, <2>1, <2>2
  <2>3. CASE k # 1
    <3>1. /\ ~(k <= Len(e)) /\ k - Len(e) \in 1..Len(s) - (n + 1) + 1
          /\ n + 1 + (k - Len(e)) - 1 = n + k - 1
      BY <1>1, <1>4, <2>1, <2>3
    <3> QED BY <1>2, <1>3, <1>5, <2>1, <3>1
  <2> QED BY <2>2, <2>3
<1> QED BY <1>2, <1>5, <1>6, <1>7, SeqEqual DEF r, t, e

LEMMA PairIsSequence ==
  ASSUME NEW S, NEW q \in [1..2 -> S] PROVE q \in Seq(S)
BY SeqDef

LEMMA WholeRest ==
  ASSUME NEW s \in Seq(1..SPR), Whole(s), NEW n \in 1..Len(s) + 1
  PROVE  SubSeq(s, n, Len(s)) \in Seq(1..SPR) /\ Whole(SubSeq(s, n, Len(s)))
<1> DEFINE r == SubSeq(s, n, Len(s))
<1>1. /\ r \in Seq(1..SPR) /\ Len(r) = Len(s) - n + 1
      /\ \A k \in 1..Len(r) : r[k] = s[n + k - 1]
  <2> DEFINE S == 1..SPR
  <2>1. s \in Seq(S) OBVIOUS
  <2> HIDE DEF S
  <2>2. /\ r \in Seq(S) /\ Len(r) = Len(s) - n + 1
        /\ \A k \in 1..Len(s) - n + 1 : r[k] = s[n + k - 1]
    BY <2>1, RestOfSequence
  <2> QED BY <2>2 DEF S
<1> HIDE DEF r
<1>2. ASSUME NEW k \in 1..Len(r) - 1 PROVE Follows(r[k], r[k + 1])
  <2>1. k \in 1..Len(r) /\ k + 1 \in 1..Len(r) /\ n + k - 1 \in 1..Len(s) - 1
    BY <1>1
  <2>2. r[k] = s[n + k - 1] /\ r[k + 1] = s[n + k - 1 + 1]
    BY <1>1, <2>1
  <2> QED BY <2>1, <2>2 DEF Whole
<1>3. ASSUME Len(r) > 0 PROVE r[Len(r)] = SPR
  <2>1. Len(r) \in 1..Len(r) /\ n + Len(r) - 1 = Len(s) /\ Len(s) > 0
    BY <1>1, <1>3
  <2> QED BY <1>1, <2>1 DEF Whole
<1>4. Whole(r) BY <1>2, <1>3 DEF Whole
<1> QED BY <1>1, <1>4 DEF r

LEMMA WholeMore ==
  ASSUME NEW s \in Seq(1..SPR), Whole(s)
  PROVE  s \o Samples \in Seq(1..SPR) /\ Whole(s \o Samples)
<1> DEFINE r == s \o Samples
<1>1. SPR \in Nat \ {0} BY ReceiveAssumption DEF ReceiveAssumption
<1>2. Samples \in Seq(1..SPR) /\ Len(Samples) = SPR /\ \A k \in 1..SPR : Samples[k] = k
  BY <1>1 DEF Samples
<1>3. /\ r \in Seq(1..SPR) /\ Len(r) = Len(s) + SPR
      /\ \A k \in 1..Len(r) : r[k] = IF k <= Len(s) THEN s[k] ELSE k - Len(s)
  <2> HIDE DEF Samples
  <2>1. /\ r \in Seq(1..SPR) /\ Len(r) = Len(s) + Len(Samples)
        /\ \A k \in 1..Len(s) + Len(Samples) :
             r[k] = IF k <= Len(s) THEN s[k] ELSE Samples[k - Len(s)]
    BY <1>2, ConcatProperties, Zenon
  <2> HIDE DEF r
  <2>2. Len(s) \in Nat OBVIOUS
  <2>3. \A k \in 1..Len(r) : k <= Len(s) \/ k - Len(s) \in 1..SPR
    BY <1>1, <1>2, <2>1, <2>2
  <2> QED BY <1>2, <2>1, <2>3
<1> HIDE DEF r
<1>4. ASSUME NEW k \in 1..Len(r) - 1 PROVE Follows(r[k], r[k + 1])
  <2>1. Len(s) \in Nat /\ k \in 1..Len(r) /\ k + 1 \in 1..Len(r)
    BY <1>1, <1>3
  <2>2. CASE k < Len(s)
    <3>1. k <= Len(s) /\ k + 1 <= Len(s) /\ k \in 1..Len(s) - 1 BY <2>1, <2>2
    <3>2. r[k] = s[k] /\ r[k + 1] = s[k + 1] BY <1>3, <2>1, <3>1
    <3> QED BY <3>1, <3>2 DEF Whole
  <2>3. CASE k = Len(s)
    <3>1. k <= Len(s) /\ ~(k + 1 <= Len(s)) /\ k + 1 - Len(s) = 1 /\ Len(s) > 0 BY <2>1, <2>3
    <3>2. r[k] = s[k] /\ r[k + 1] = 1 BY <1>3, <2>1, <3>1
    <3>3. s[k] = SPR BY <2>3, <3>1 DEF Whole
    <3> QED BY <3>2, <3>3 DEF Follows
  <2>4. CASE k > Len(s)
    <3>1. ~(k <= Len(s)) /\ ~(k + 1 <= Len(s)) /\ k - Len(s) # SPR
          /\ k + 1 - Len(s) = k - Len(s) + 1
      BY <1>1, <1>3, <2>1, <2>4
    <3>2. r[k] = k - Len(s) /\ r[k + 1] = k - Len(s) + 1 BY <1>3, <2>1, <3>1
    <3> QED BY <3>1, <3>2 DEF Follows
  <2> QED BY <2>1, <2>2, <2>3, <2>4
<1>5. Len(r) > 0 /\ r[Len(r)] = SPR
  <2>1. Len(s) \in Nat /\ Len(r) \in 1..Len(r) /\ ~(Len(r) <= Len(s)) /\ Len(r) - Len(s) = SPR
    BY <1>1, <1>3
  <2>2. r[Len(r)] = Len(r) - Len(s) BY <1>3, <2>1
  <2> QED BY <2>1, <2>2
<1>6. Whole(r) BY <1>4, <1>5 DEF Whole
<1> QED BY <1>3, <1>6 DEF r

AccInv ==
  /\ block_size \in BlockSizes
  /\ buffer \in Seq(1..SPR) /\ Len(buffer) <= block_size * HIGH_WATER
  /\ given \in Seq(1..SPR) /\ Len(given) <= 1
  /\ Whole(given \o buffer)

LEMMA WholeBuffer == AccInv => Whole(buffer)
<1> SUFFICES ASSUME AccInv PROVE Whole(buffer) OBVIOUS
<1> DEFINE s == given \o buffer
<1>1. given \in Seq(1..SPR) /\ buffer \in Seq(1..SPR) /\ Whole(s) BY DEF AccInv
<1>2. s \in Seq(1..SPR) /\ Len(s) = Len(given) + Len(buffer) BY <1>1
<1>3. SubSeq(s, Len(given) + 1, Len(s)) = buffer BY <1>1
<1>4. Len(given) + 1 \in 1..Len(s) + 1 BY <1>1, <1>2
<1> HIDE DEF s
<1> QED BY <1>1, <1>2, <1>3, <1>4, WholeRest

LEMMA AccStep ==
  ASSUME AccInv, [RxNext]_rxVars
  PROVE  AccInv'
<1>1. /\ ROUNDS \in Nat \ {0} /\ SPR \in Nat \ {0} /\ HIGH_WATER \in Nat \ {0}
      /\ BlockSizes \subseteq Nat \ {0}
  BY ReceiveAssumption DEF ReceiveAssumption
<1>2. /\ block_size \in Nat \ {0} /\ block_size \in BlockSizes
      /\ buffer \in Seq(1..SPR) /\ given \in Seq(1..SPR) /\ Len(given) <= 1
      /\ Len(buffer) <= block_size * HIGH_WATER /\ Whole(given \o buffer) /\ Whole(buffer)
      /\ block_size * HIGH_WATER \in Nat \ {0}
  <2>1. block_size \in Nat \ {0} BY <1>1 DEF AccInv
  <2> QED BY <1>1, <2>1, WholeBuffer DEF AccInv
<1>3. ASSUME UNCHANGED accVars PROVE AccInv'
  BY <1>2, <1>3 DEF accVars, AccInv
\* An accumulator that was emptied.
<1>4. ASSUME buffer' = <<>>, given' = <<>>, block_size' \in BlockSizes PROVE AccInv'
  <2>1. <<>> \in Seq(1..SPR) /\ Len(<<>>) = 0 /\ <<>> \o <<>> = <<>> OBVIOUS
  <2>2. block_size' * HIGH_WATER \in Nat
    <3>1. \A m, n \in Nat : m * n \in Nat OBVIOUS
    <3>2. block_size' \in Nat /\ HIGH_WATER \in Nat BY <1>1, <1>4
    <3> QED BY <3>1, <3>2
  <2>3. Whole(<<>>) BY <2>1 DEF Whole
  <2> QED BY <1>4, <2>1, <2>2, <2>3 DEF AccInv
<1>5. CASE Push
  <2> DEFINE all == buffer \o Samples
             high_water == block_size * HIGH_WATER
  <2>1. /\ block_size' = block_size
        /\ IF Len(all) > high_water THEN buffer' = Kept(all, high_water) /\ given' = <<>>
           ELSE buffer' = all /\ given' = given
    BY <1>5 DEF Push
  <2>2. all \in Seq(1..SPR) /\ Whole(all) BY <1>2, WholeMore
  <2>3. CASE Len(all) > high_water
    <3> DEFINE n == Len(all) - high_water + 1
    <3>1. n \in 1..Len(all) + 1 /\ Len(all) \in Nat /\ high_water \in Nat
      BY <1>2, <2>2, <2>3
    <3> HIDE DEF all, high_water
    <3>2. Kept(all, high_water) = SubSeq(all, n, Len(all))
      BY DEF Kept
    <3>3. SubSeq(all, n, Len(all)) \in Seq(1..SPR) /\ Whole(SubSeq(all, n, Len(all)))
      BY <2>2, <3>1, WholeRest
    <3>4. Len(SubSeq(all, n, Len(all))) = high_water
      BY <2>2, <2>3, <3>1
    <3> HIDE DEF n
    <3>5. buffer' \in Seq(1..SPR) /\ Whole(buffer') /\ Len(buffer') = high_water /\ given' = <<>>
      BY <2>1, <2>3, <3>2, <3>3, <3>4
    <3>6. given' \o buffer' = buffer' BY <3>5
    <3> QED BY <1>2, <2>1, <3>1, <3>5, <3>6 DEF AccInv, high_water
  <2>4. CASE ~(Len(all) > high_water)
    <3>1. buffer' = all /\ given' = given BY <2>1, <2>4
    <3>2. given \o buffer \in Seq(1..SPR) BY <1>2
    <3>3. Samples \in Seq(1..SPR) BY <1>1 DEF Samples
    <3>4. given' \o buffer' = (given \o buffer) \o Samples
      <4> HIDE DEF Samples
      <4> QED BY <1>2, <3>1, <3>3
    <3>5. Whole(given' \o buffer') BY <1>2, <3>2, <3>4, WholeMore
    <3>6. Len(all) <= high_water
      <4>1. Len(all) \in Nat BY <2>2
      <4> QED BY <1>2, <2>4, <4>1
    <3> HIDE DEF all
    <3> QED BY <1>2, <2>1, <2>2, <3>1, <3>5, <3>6 DEF AccInv
  <2> QED BY <2>3, <2>4
<1>6. CASE NextBlock
  <2> DEFINE n == block_size
  <2>1. /\ Len(buffer) >= n /\ given' = <<buffer[n]>> /\ block_size' = block_size
        /\ buffer' = SubSeq(buffer, n + 1, Len(buffer))
    BY <1>6 DEF NextBlock
  <2>2. n \in 1..Len(buffer) + 1 /\ n \in 1..Len(buffer) BY <1>2, <2>1
  <2>3. /\ buffer' \in Seq(1..SPR) /\ given' \in Seq(1..SPR) /\ Len(given') = 1
        /\ Len(buffer') = Len(buffer) - n
    <3> DEFINE S == 1..SPR
    <3>1. buffer \in Seq(S) BY <1>2
    <3> HIDE DEF S, n
    <3>2. n + 1 \in 1..Len(buffer) + 1 /\ n \in Nat /\ Len(buffer) \in Nat BY <2>2, <3>1
    <3>3. buffer' \in Seq(S) /\ Len(buffer') = Len(buffer) - (n + 1) + 1
      BY <2>1, <3>1, <3>2, RestOfSequence
    <3>4. buffer[n] \in S BY <2>2, <3>1
    <3>5. Len(buffer') = Len(buffer) - n BY <3>2, <3>3
    <3>6. given' \in Seq(S) /\ Len(given') = 1 BY <2>1, <3>4
    <3> QED BY <3>3, <3>5, <3>6 DEF S
  <2>4. given' \o buffer' = SubSeq(buffer, n, Len(buffer))
    <3> DEFINE S == 1..SPR
    <3>1. buffer \in Seq(S) BY <1>2
    <3> HIDE DEF S, n
    <3> QED BY <2>1, <2>2, <3>1, ElementAndRest
  <2>5. Whole(given' \o buffer') BY <1>2, <2>2, <2>4, WholeRest
  <2>6. Len(buffer') <= block_size' * HIGH_WATER BY <1>2, <2>1, <2>2, <2>3
  <2> QED BY <1>2, <2>1, <2>3, <2>5, <2>6 DEF AccInv
<1>7. CASE SetBlockSize BY <1>4, <1>7 DEF SetBlockSize, AfterResize
<1>8. CASE Clear BY <1>2, <1>4, <1>8 DEF Clear
<1> QED
  BY <1>3, <1>5, <1>6, <1>7, <1>8
  DEF RxNext, rxVars, Send, Restart, Handle, Lose, Overtake, Repeat, TakeStatus, Resubscribe

LEMMA AccStart == RxInit => AccInv
<1> SUFFICES ASSUME RxInit PROVE AccInv OBVIOUS
<1>1. block_size \in BlockSizes /\ buffer = <<>> /\ given = <<>> BY DEF RxInit
<1>2. block_size * HIGH_WATER \in Nat BY <1>1, ReceiveAssumption DEF ReceiveAssumption
<1>3. <<>> \in Seq(1..SPR) /\ Len(<<>>) = 0 /\ <<>> \o <<>> = <<>> OBVIOUS
<1>4. Whole(<<>>) BY <1>3 DEF Whole
<1> QED BY <1>1, <1>2, <1>3, <1>4 DEF AccInv

\* The accumulator (next_block, push) leaves no gap in the samples but between
\* sub-frames, for any sub-frame, any block sizes, set at any time, any mark
\* and any losses.
THEOREM SeamsAlways == RxSpec => []SeamsBetweenSubframes
<1>1. AccInv => SeamsBetweenSubframes BY DEF AccInv, Whole, SeamsBetweenSubframes
<1> QED BY <1>1, AccStart, AccStep, PTL DEF RxSpec

-----------------------------------------------------------------------------
(* Types.                                                                  *)

RestTypeOK ==
  /\ faults \in 0..MAX_FAULTS
  /\ rx_seq \in 0..2 * ROUNDS - 1
  /\ last_status_addr \in ADDRS \cup {NONE}
  /\ Len(status_chan) <= STATUS_CAP
  /\ iq_chan \in 0..IQ_CAP
  /\ Len(heard) <= 3

LEMMA ParsedType ==
  ASSUME NEW h, NEW f \in SubFrame,
         h.status \in RadioStatus, h.statuses \in Seq(RadioStatus),
         Len(h.statuses) <= STATUS_CAP, h.iq \in 0..IQ_CAP
  PROVE  /\ Parsed(h, f).status \in RadioStatus
         /\ Parsed(h, f).statuses \in Seq(RadioStatus)
         /\ Len(Parsed(h, f).statuses) <= STATUS_CAP
         /\ Parsed(h, f).iq \in 0..IQ_CAP
         /\ Parsed(h, f).last = f.addr
<1> DEFINE now == [h.status EXCEPT !.ptt = f.tag]
           next == [now EXCEPT !.of[f.addr] = f.tag]
<1>1. STATUS_CAP \in Nat /\ IQ_CAP \in Nat BY ReceiveAssumption DEF ReceiveAssumption
<1>2. f.tag \in Tag /\ f.addr \in ADDRS BY DEF SubFrame
<1>3. now \in RadioStatus BY <1>2 DEF RadioStatus
<1>4. next \in RadioStatus
  <2> HIDE DEF now
  <2> QED BY <1>2, <1>3 DEF RadioStatus
<1>5. Parsed(h, f) =
        [status |-> next, last |-> f.addr,
         statuses |-> IF Wrapped(f.addr, h.last) THEN TrySend(h.statuses, now) ELSE h.statuses,
         iq |-> IF h.iq < IQ_CAP THEN h.iq + 1 ELSE h.iq]
  BY DEF Parsed
<1> HIDE DEF now, next
<1>6. TrySend(h.statuses, now) \in Seq(RadioStatus) /\ Len(TrySend(h.statuses, now)) <= STATUS_CAP
  <2> HIDE DEF RadioStatus
  <2> DEFINE q == h.statuses
  <2>1. q \in Seq(RadioStatus) /\ Len(q) <= STATUS_CAP OBVIOUS
  <2> HIDE DEF q
  <2>2. TrySend(q, now) \in Seq(RadioStatus) /\ Len(TrySend(q, now)) <= STATUS_CAP
    BY <1>1, <1>3, <2>1 DEF TrySend
  <2> QED BY <2>2 DEF q
<1> QED BY <1>1, <1>4, <1>5, <1>6

LEMMA ReceivedTypes ==
  ASSUME RxInv, RestTypeOK, NEW p \in Honest, Received(p), faults' \in 0..MAX_FAULTS
  PROVE  RestTypeOK'
<1> DEFINE f1 == p.frames[1]
           f2 == p.frames[2]
           h0 == [status |-> accumulated_status, last |-> last_status_addr,
                  statuses |-> status_chan, iq |-> iq_chan]
           h1 == Parsed(h0, f1)
           h2 == Parsed(h1, f2)
<1>1. ROUNDS \in Nat \ {0} BY ReceiveAssumption DEF ReceiveAssumption
<1>2. p.seq \in 0..2 * ROUNDS - 1 /\ f1 \in SubFrame /\ f2 \in SubFrame /\ p.session \in Sessions
  BY DEF Honest, SubFrame
<1>3. /\ status_chan' = h2.statuses /\ iq_chan' = h2.iq /\ last_status_addr' = h2.last
      /\ rx_seq' = NextSeq(p.seq)
      /\ heard' = (IF Len(heard) < 3 THEN heard ELSE Tail(heard))
                    \o <<[session |-> p.session, seq |-> p.seq]>>
  BY DEF Received
<1>4. /\ accumulated_status \in RadioStatus /\ status_chan \in Seq(RadioStatus)
      /\ heard \in Seq(Half) /\ Len(heard) <= 3 /\ Len(status_chan) <= STATUS_CAP
      /\ iq_chan \in 0..IQ_CAP
  BY DEF RxInv, ClientInv, RestTypeOK
<1>5. /\ h1.status \in RadioStatus /\ h1.statuses \in Seq(RadioStatus)
      /\ Len(h1.statuses) <= STATUS_CAP /\ h1.iq \in 0..IQ_CAP
  <2>1. /\ h0.status \in RadioStatus /\ h0.statuses \in Seq(RadioStatus)
        /\ Len(h0.statuses) <= STATUS_CAP /\ h0.iq \in 0..IQ_CAP
    BY <1>4
  <2> HIDE DEF h0, f1
  <2> QED BY <1>2, <2>1, ParsedType
<1> HIDE DEF h1, f1, f2
<1>6. /\ Len(h2.statuses) <= STATUS_CAP /\ h2.iq \in 0..IQ_CAP /\ h2.last = f2.addr
  BY <1>2, <1>5, ParsedType
<1> HIDE DEF h2
<1>7. NextSeq(p.seq) \in 0..2 * ROUNDS - 1 BY <1>1, <1>2 DEF NextSeq
<1>8. Len(heard') <= 3
  <2> DEFINE me == [session |-> p.session, seq |-> p.seq]
             q == IF Len(heard) < 3 THEN heard ELSE Tail(heard)
  <2>1. me \in Half BY <1>2 DEF Half
  <2>2. q \in Seq(Half) /\ Len(q) <= 2 BY <1>4
  <2>3. heard' = q \o <<me>> BY <1>3
  <2> HIDE DEF q, me
  <2> QED BY <2>1, <2>2, <2>3
<1>9. f2.addr \in ADDRS BY <1>2 DEF SubFrame
<1> QED BY <1>3, <1>6, <1>7, <1>8, <1>9 DEF RestTypeOK

LEMMA RestStep ==
  ASSUME RxInv, RestTypeOK, [RxNext]_rxVars
  PROVE  RestTypeOK'
<1>1. MAX_FAULTS \in Nat /\ faults \in 0..MAX_FAULTS /\ iq_chan \in 0..IQ_CAP /\ IQ_CAP \in Nat
  BY ReceiveAssumption DEF ReceiveAssumption, RestTypeOK
<1>2. Fault => faults' \in 0..MAX_FAULTS BY <1>1 DEF Fault
<1>3. net \in Seq(Honest) /\ status_chan \in Seq(RadioStatus) BY DEF RxInv, ClientInv
<1>4. ASSUME UNCHANGED clientVars, faults' \in 0..MAX_FAULTS, iq_chan' \in 0..IQ_CAP,
             Len(status_chan') <= STATUS_CAP
      PROVE  RestTypeOK'
  BY <1>4 DEF clientVars, RestTypeOK
<1>5. CASE Handle
  <2>1. Head(net) \in Honest BY <1>3, <1>5 DEF Handle
  <2> QED BY <1>1, <1>5, <2>1, ReceivedTypes DEF Handle
<1>6. CASE Overtake
  <2>1. PICK k \in 2..Len(net) : Received(net[k]) BY <1>6 DEF Overtake
  <2>2. net[k] \in Honest BY <1>3
  <2> QED BY <1>2, <1>6, <2>1, <2>2, ReceivedTypes DEF Overtake
<1>7. CASE Repeat
  <2>1. Head(net) \in Honest BY <1>3, <1>7 DEF Repeat
  <2> QED BY <1>2, <1>7, <2>1, ReceivedTypes DEF Repeat
<1>8. CASE TakeStatus
  <2>1. Len(status_chan') <= STATUS_CAP
    <3>1. Len(Tail(status_chan)) = Len(status_chan) - 1 BY <1>3, <1>8 DEF TakeStatus
    <3> QED BY <1>3, <1>8, <3>1, ReceiveAssumption
        DEF TakeStatus, RestTypeOK, ReceiveAssumption
  <2> QED BY <1>1, <1>4, <1>8, <2>1 DEF TakeStatus, radioVars
<1>9. CASE \/ Send \/ Restart \/ Lose \/ Resubscribe \/ Push \/ NextBlock \/ SetBlockSize
           \/ Clear \/ UNCHANGED rxVars
  <2>1. UNCHANGED clientVars /\ status_chan' = status_chan
    BY <1>9 DEF Send, Restart, Lose, Resubscribe, Push, NextBlock, SetBlockSize, Clear, rxVars
  <2>2. faults' \in 0..MAX_FAULTS
    BY <1>1, <1>2, <1>9 DEF Send, Restart, Lose, Resubscribe, Push, NextBlock, SetBlockSize, Clear,
                            rxVars, radioVars
  <2>3. iq_chan' \in 0..IQ_CAP
    BY <1>1, <1>9 DEF Send, Restart, Lose, Resubscribe, Push, NextBlock, SetBlockSize, Clear, rxVars
  <2> QED BY <1>4, <2>1, <2>2, <2>3 DEF RestTypeOK
<1> QED BY <1>5, <1>6, <1>7, <1>8, <1>9 DEF RxNext

LEMMA RestStart == RxInit => RestTypeOK
<1> SUFFICES ASSUME RxInit PROVE RestTypeOK OBVIOUS
<1> USE ReceiveAssumption DEF ReceiveAssumption, RxInit
<1>1. ROUNDS \in Nat \ {0} /\ STATUS_CAP \in Nat /\ IQ_CAP \in Nat /\ MAX_FAULTS \in Nat OBVIOUS
<1>2. 0 \in 0..2 * ROUNDS - 1 BY <1>1
<1> QED BY <1>1, <1>2 DEF RestTypeOK

\* What the radio builds is a packet.
LEMMA HonestIsPacket == Honest \subseteq Packet
<1> SUFFICES ASSUME NEW p \in Honest PROVE p \in Packet OBVIOUS
<1>1. /\ p \in [session : Sessions, seq : 0..2 * ROUNDS - 1, frames : [1..2 -> SubFrame]]
  BY DEF Honest, SubFrame
<1>2. \A q \in [1..2 -> SubFrame] : q \in Seq(SubFrame)
  <2> HIDE DEF SubFrame
  <2> QED BY PairIsSequence
<1> HIDE DEF SubFrame
<1> QED BY <1>1, <1>2 DEF Packet

\* Types and bounds of the radio, the network and the client, channels and
\* accumulator (iq_accumulator.rs) included, whatever the network does.
THEOREM RxTypeAlways == RxSpec => []RxTypeOK
<1> DEFINE Inv == RxInv /\ RestTypeOK /\ AccInv
<1>1. RxInit => Inv BY RxInit_Inv, RestStart, AccStart
<1>2. Inv /\ [RxNext]_rxVars => Inv' BY RxStep, RestStep, AccStep
<1>3. Inv => RxTypeOK
  <2> SUFFICES ASSUME Inv PROVE RxTypeOK OBVIOUS
  <2>1. net \in Seq(Packet)
    <3> HIDE DEF Honest, Packet
    <3>1. net \in Seq(Honest) BY DEF RxInv
    <3> QED BY <3>1, HonestIsPacket
  <2>2. radio \in [session : Sessions, data_seq : 0..2 * ROUNDS - 1,
                   control_idx : 0..3, round : 0..ROUNDS - 1]
    BY DEF RxInv, RadioInv
  <2> HIDE DEF Packet, Half, RadioStatus
  <2>3. heard \in Seq([session : Sessions, seq : 0..2 * ROUNDS - 1])
    BY DEF RxInv, ClientInv, Half
  <2> QED BY <2>1, <2>2, <2>3 DEF RxInv, ClientInv, RestTypeOK, AccInv, RxTypeOK
<1> QED BY <1>1, <1>2, <1>3, PTL DEF RxSpec
=============================================================================
