------------------------------ MODULE EmuProofs ------------------------------
(***************************************************************************)
(* The echo buffer of the emulator.  What the live buffer of LiveEcho      *)
(* promises, for any number of transmitters and readers, any delay,        *)
(* capacities above it and blocks.  And that the reference counts of       *)
(* EmuServer are right, for any number of clients, tasks and frequencies:  *)
(* the invariant is inductive together with the one that ties a task's     *)
(* recording to its PTT, as a task never starts a second recording before  *)
(* it has stopped the first.                                               *)
(***************************************************************************)
EXTENDS EmuServer, LiveEcho, FiniteSetTheorems, TLAPS

Mixes == Seq(SUBSET (Transmitters \X Int))

LEMMA SequenceOf ==
  ASSUME NEW S, NEW n \in Nat, NEW f \in [1..n -> S]
  PROVE  f \in Seq(S) /\ Len(f) = n /\ DOMAIN f = 1..n
  OBVIOUS

-----------------------------------------------------------------------------
(* The inductive invariant.                                                *)

\* The buffer is the end of the timeline, and full once it has lost its front.
Timeline ==
  /\ data \in Mixes /\ aired \in Mixes /\ sent \in [Transmitters -> Int]
  /\ Len(aired) = write_head
  /\ drained > 0 => Len(data) > LIVE_DELAY

\* Every sample in time is in the buffer, as long as its position is.
InBuffer == \A i \in 1..Len(data) : aired[drained + i] \subseteq data[i]

\* A reader of this epoch has heard positions it is past, and while somebody
\* transmits it is past none that a sample in time can still be mixed into.
Trails(r) ==
  /\ live_epoch[r] # epoch => DOMAIN heard[r] = {}
  /\ DOMAIN heard[r] \subseteq 1..live_pos[r]
  /\ live_epoch[r] = epoch /\ active_count > 0 => live_pos[r] <= Behind(write_head)

LiveInv ==
  /\ LiveTypeOK /\ Timeline /\ InBuffer
  /\ DOMAIN heard = Readers /\ (\A r \in Readers : Trails(r))
  /\ HeardWhole

LEMMA InitInv == LiveInit => LiveInv
<1> SUFFICES ASSUME LiveInit PROVE LiveInv
  OBVIOUS
<1> USE LiveAssumption DEF LiveInit
<1>1. Len(<<>>) = 0 /\ DOMAIN <<>> = {} /\ <<>> \in Mixes
  BY DEF Mixes
<1>2. write_head = 0
  BY <1>1 DEF write_head
<1>3. LiveTypeOK
  BY <1>1, <1>2 DEF LiveTypeOK, NoPos
<1>4. Timeline /\ InBuffer
  BY <1>1, <1>2 DEF Timeline, InBuffer
<1>5. \A r \in Readers : heard[r] = <<>> /\ live_pos[r] = 0
  OBVIOUS
<1>6. \A r \in Readers : Trails(r)
  BY <1>1, <1>5 DEF Trails
<1>7. HeardWhole
  BY <1>1, <1>5 DEF HeardWhole
<1> QED BY <1>3, <1>4, <1>6, <1>7 DEF LiveInv

\* A transmitter starts: the first one empties everything, with a new epoch
\* no reader knows; another one only gets an offset at the end.
LEMMA StartKeeps ==
  ASSUME LiveInv, NEW a \in Transmitters, StartLive(a)
  PROVE  LiveInv'
<1> USE LiveAssumption DEF readerVars
<1>1. on' = [on EXCEPT ![a] = @ + 1] /\ active_count' = active_count + 1
      /\ UNCHANGED <<live_pos, live_epoch>>
  BY DEF StartLive
<1>2. CASE StartFirst(a)
  <2> USE <1>2 DEF StartFirst
  <2>1. Len(<<>>) = 0 /\ DOMAIN <<>> = {} /\ <<>> \in Mixes
    BY DEF Mixes
  <2>2. write_head' = 0
    BY <2>1 DEF write_head
  <2>3. \A r \in Readers : live_epoch'[r] # epoch' /\ live_epoch'[r] \in 0..epoch'
    BY <1>1 DEF LiveInv, LiveTypeOK
  <2>4. LiveTypeOK'
    BY <1>1, <2>1, <2>2, <2>3 DEF LiveInv, LiveTypeOK, NoPos
  <2>5. Timeline' /\ InBuffer'
    BY <2>1, <2>2 DEF Timeline, InBuffer, Mixes
  <2>6. DOMAIN heard' = Readers /\ \A r \in Readers : DOMAIN heard'[r] = {}
    BY <2>1
  <2>7. \A r \in Readers : Trails(r)'
    BY <2>3, <2>6 DEF Trails
  <2>8. HeardWhole'
    BY <2>6 DEF HeardWhole
  <2> QED BY <2>4, <2>5, <2>6, <2>7, <2>8 DEF LiveInv
<1>3. CASE StartAnother(a)
  <2>1. UNCHANGED <<data, drained, epoch, next_epoch, max_samples, sent, aired, heard>>
        /\ client_offsets' = [client_offsets EXCEPT ![a] = write_head]
        /\ active_count > 0
    BY <1>3 DEF StartAnother, historyVars
  <2>2. UNCHANGED write_head /\ write_head \in Nat
    BY <2>1 DEF write_head, LiveInv, LiveTypeOK, Timeline, Mixes
  <2>3. LiveTypeOK'
    BY <1>1, <2>1, <2>2 DEF LiveInv, LiveTypeOK, NoPos
  <2>4. Timeline' /\ InBuffer' /\ HeardWhole'
    BY <2>1, <2>2 DEF LiveInv, Timeline, InBuffer, HeardWhole
  <2>5. \A r \in Readers : Trails(r)'
    BY <1>1, <2>1, <2>2 DEF LiveInv, Trails, Behind
  <2> QED BY <2>1, <2>3, <2>4, <2>5 DEF LiveInv
<1> QED BY <1>2, <1>3 DEF StartLive

LEMMA StopKeeps ==
  ASSUME LiveInv, NEW a \in Transmitters, StopLive(a)
  PROVE  LiveInv'
<1>1. /\ on' = [on EXCEPT ![a] = @ - 1] /\ active_count' = active_count - 1
      /\ on[a] > 0 /\ active_count > 0
      /\ client_offsets' = [client_offsets EXCEPT ![a] = NoPos]
      /\ UNCHANGED <<data, drained, epoch, max_samples, next_epoch, live_pos, live_epoch,
                     sent, aired, heard>>
  BY DEF StopLive, readerVars, historyVars
<1>2. UNCHANGED write_head /\ write_head \in Nat
  BY <1>1 DEF write_head, LiveInv, LiveTypeOK, Timeline, Mixes
<1>3. LiveTypeOK'
  BY <1>1, <1>2 DEF LiveInv, LiveTypeOK, NoPos
<1>4. Timeline' /\ InBuffer' /\ HeardWhole'
  BY <1>1, <1>2 DEF LiveInv, Timeline, InBuffer, HeardWhole
<1>5. \A r \in Readers : Trails(r)'
  BY <1>1, <1>2 DEF LiveInv, LiveTypeOK, Trails, Behind
<1> QED BY <1>1, <1>3, <1>4, <1>5 DEF LiveInv

-----------------------------------------------------------------------------
(* Feeding: n samples of a, mixed in at position at.                       *)

LEMMA MixedFacts ==
  ASSUME LiveInv, NEW a \in Transmitters, NEW rel \in Nat, NEW n \in Nat
  PROVE  /\ Mixed(a, rel, n) \in Mixes
         /\ Len(Mixed(a, rel, n)) = Larger(Len(data), rel + n)
         /\ \A i \in 1..Larger(Len(data), rel + n) :
              Mixed(a, rel, n)[i] =
                (IF i <= Len(data) THEN data[i] ELSE {})
                  \union (IF i > rel /\ i <= rel + n THEN {<<a, sent[a] + i - rel>>} ELSE {})
<1>1. Len(data) \in Nat /\ sent[a] \in Int
      /\ \A i \in 1..Len(data) : data[i] \in SUBSET (Transmitters \X Int)
  BY DEF LiveInv, Timeline, Mixes
<1>2. Larger(Len(data), rel + n) \in Nat
  BY <1>1 DEF Larger
<1>3. Mixed(a, rel, n) \in [1..Larger(Len(data), rel + n) -> SUBSET (Transmitters \X Int)]
  BY <1>1 DEF Mixed
<1> QED BY <1>2, <1>3, SequenceOf DEF Mixed, Mixes

LEMMA AiredFacts ==
  ASSUME LiveInv, NEW a \in Transmitters, NEW at \in Nat, NEW n \in Nat
  PROVE  /\ Aired(a, at, n) \in Mixes
         /\ Len(Aired(a, at, n)) = Larger(Len(aired), at + n)
         /\ \A i \in 1..Larger(Len(aired), at + n) :
              Aired(a, at, n)[i] =
                (IF i <= Len(aired) THEN aired[i] ELSE {})
                  \union (IF i > at /\ i <= at + n /\ i > Behind(write_head)
                          THEN {<<a, sent[a] + i - at>>} ELSE {})
<1>1. Len(aired) \in Nat /\ sent[a] \in Int
      /\ \A i \in 1..Len(aired) : aired[i] \in SUBSET (Transmitters \X Int)
  BY DEF LiveInv, Timeline, Mixes
<1>2. Larger(Len(aired), at + n) \in Nat
  BY <1>1 DEF Larger
<1>3. Aired(a, at, n) \in [1..Larger(Len(aired), at + n) -> SUBSET (Transmitters \X Int)]
  BY <1>1 DEF Aired
<1> QED BY <1>2, <1>3, SequenceOf DEF Aired, Mixes

LEMMA DrainedFacts ==
  ASSUME NEW d \in Mixes, NEW excess \in Nat, excess <= Len(d)
  PROVE  /\ Drained(d, excess) \in Mixes
         /\ Len(Drained(d, excess)) = Len(d) - excess
         /\ \A i \in 1..(Len(d) - excess) : Drained(d, excess)[i] = d[i + excess]
<1>1. Len(d) - excess \in Nat
  BY DEF Mixes
<1>2. Drained(d, excess) \in [1..(Len(d) - excess) -> SUBSET (Transmitters \X Int)]
  BY DEF Drained, Mixes
<1> QED BY <1>1, <1>2, SequenceOf DEF Drained, Mixes

\* Samples are added at the transmitter's place and the oldest ones dropped;
\* none that is in time is added to what a reader has heard.
LEMMA FeedKeeps ==
  ASSUME LiveInv, NEW a \in Transmitters, NEW n \in Blocks, FeedLive(a, n)
  PROVE  LiveInv'
<1> DEFINE at == Larger(client_offsets[a], drained)
           rel == at - drained
           mixed == Mixed(a, rel, n)
           excess == Larger(Len(mixed) - max_samples, 0)
<1>1. /\ data' = Drained(mixed, excess) /\ drained' = drained + excess
      /\ client_offsets' = [client_offsets EXCEPT ![a] = at + n]
      /\ aired' = Aired(a, at, n) /\ sent' = [sent EXCEPT ![a] = @ + n]
      /\ on[a] > 0 /\ active_count > 0
      /\ UNCHANGED <<on, active_count, epoch, max_samples, next_epoch, live_pos, live_epoch,
                     heard>>
  BY DEF FeedLive, FeedFrom, recorderVars, readerVars
<1>2. /\ n \in Nat /\ n > 0 /\ drained \in Nat /\ max_samples \in Nat
      /\ max_samples > LIVE_DELAY /\ LIVE_DELAY \in Nat
      /\ Len(data) \in Nat /\ Len(data) <= max_samples
      /\ Len(aired) = drained + Len(data) /\ write_head = drained + Len(data)
      /\ client_offsets[a] \in Int /\ client_offsets[a] <= write_head
  BY LiveAssumption DEF LiveInv, LiveTypeOK, Timeline, Mixes, write_head, NoPos
<1>3. /\ at \in Nat /\ rel \in Nat /\ at = drained + rel /\ at <= write_head
  BY <1>2 DEF Larger
<1> HIDE DEF at, rel
<1>4. /\ mixed \in Mixes /\ Len(mixed) = Larger(Len(data), rel + n)
      /\ \A i \in 1..Larger(Len(data), rel + n) :
           mixed[i] = (IF i <= Len(data) THEN data[i] ELSE {})
             \union (IF i > rel /\ i <= rel + n THEN {<<a, sent[a] + i - rel>>} ELSE {})
  <2>1. n \in Nat /\ rel \in Nat
    BY <1>2, <1>3
  <2> QED BY <2>1, MixedFacts
<1> HIDE DEF mixed
<1>5. /\ Len(mixed) = Larger(Len(data), rel + n)
      /\ Len(mixed) \in Nat /\ Len(mixed) >= Len(data) /\ Len(mixed) >= rel + n
      /\ Len(mixed) = Len(data) \/ Len(mixed) = rel + n
  <2>1. Len(mixed) = Larger(Len(data), rel + n)
    BY <1>4
  <2> QED BY <1>2, <1>3, <2>1 DEF Larger
<1>6. /\ excess \in Nat /\ excess <= Len(mixed)
      /\ excess = 0 \/ Len(mixed) - excess = max_samples
      /\ Len(mixed) - excess <= max_samples
  BY <1>2, <1>5 DEF Larger
<1> HIDE DEF excess
<1>7. /\ data' \in Mixes /\ Len(data') = Len(mixed) - excess
      /\ \A i \in 1..(Len(mixed) - excess) : data'[i] = mixed[i + excess]
  BY <1>1, <1>4, <1>6, DrainedFacts, Zenon
<1>8. write_head' = drained + Len(mixed) /\ write_head' >= write_head
  <2>1. Len(data') = Len(mixed) - excess /\ drained' = drained + excess
    BY <1>1, <1>7
  <2>2. write_head' = drained' + Len(data')
    BY DEF write_head
  <2> QED BY <1>2, <1>5, <1>6, <2>1, <2>2
<1>9. /\ aired' \in Mixes /\ Len(aired') = Larger(Len(aired), at + n)
      /\ \A i \in 1..Larger(Len(aired), at + n) :
           aired'[i] = (IF i <= Len(aired) THEN aired[i] ELSE {})
             \union (IF i > at /\ i <= at + n /\ i > Behind(write_head)
                     THEN {<<a, sent[a] + i - at>>} ELSE {})
  <2>1. n \in Nat /\ at \in Nat /\ aired' = Aired(a, at, n)
    BY <1>1, <1>2, <1>3
  <2> QED BY <2>1, AiredFacts
<1>10. Len(aired') = write_head'
  <2>1. at + n = drained + (rel + n)
    BY <1>2, <1>3
  <2> QED BY <1>2, <1>3, <1>4, <1>8, <1>9, <2>1 DEF Larger
<1>11. LiveTypeOK'
  <2>1. client_offsets' \in [Transmitters -> NoPos..write_head']
    <3>1. at + n \in NoPos..write_head'
      BY <1>2, <1>3, <1>5, <1>8 DEF NoPos
    <3>2. NoPos..write_head \subseteq NoPos..write_head'
      BY <1>2, <1>8, <1>5 DEF NoPos
    <3> QED BY <1>1, <3>1, <3>2 DEF LiveInv, LiveTypeOK
  <2>2. \A r \in Readers : live_epoch'[r] = epoch' => live_pos'[r] <= write_head'
    BY <1>1, <1>2, <1>5, <1>8 DEF LiveInv, LiveTypeOK
  <2>3. \A b \in Transmitters : client_offsets'[b] # NoPos => on'[b] > 0
    BY <1>1 DEF LiveInv, LiveTypeOK
  <2> QED BY <1>1, <1>2, <1>6, <1>7, <2>1, <2>2, <2>3 DEF LiveInv, LiveTypeOK
<1>12. Timeline'
  <2>1. sent' \in [Transmitters -> Int]
    BY <1>1, <1>2 DEF LiveInv, Timeline
  <2>2. drained' > 0 => Len(data') > LIVE_DELAY
    BY <1>1, <1>2, <1>5, <1>6, <1>7 DEF LiveInv, Timeline
  <2> QED BY <1>7, <1>9, <1>10, <2>1, <2>2 DEF Timeline
<1>13. InBuffer'
  <2> SUFFICES ASSUME NEW i \in 1..Len(data') PROVE aired'[drained' + i] \subseteq data'[i]
    BY DEF InBuffer
  <2> DEFINE k == i + excess
  <2>1. k \in 1..Len(mixed) /\ drained' + i = drained + k
    <3>1. Len(data') = Len(mixed) - excess /\ drained' = drained + excess
      BY <1>1, <1>7
    <3>2. Len(mixed) \in Nat /\ excess \in Nat /\ drained \in Nat
      BY <1>2, <1>5, <1>6
    <3> QED BY <3>1, <3>2
  <2>2. drained + k \in 1..Len(aired')
    BY <1>2, <1>5, <1>8, <1>10, <2>1
  <2>3. data'[i] = (IF k <= Len(data) THEN data[k] ELSE {})
             \union (IF k > rel /\ k <= rel + n THEN {<<a, sent[a] + k - rel>>} ELSE {})
    BY <1>4, <1>7, <2>1
  <2>4. aired'[drained + k] \subseteq
             (IF k <= Len(data) THEN aired[drained + k] ELSE {})
             \union (IF k > rel /\ k <= rel + n THEN {<<a, sent[a] + k - rel>>} ELSE {})
    <3>1. drained + k <= Len(aired) <=> k <= Len(data)
      BY <1>2, <2>1
    <3>2. drained + k > at <=> k > rel
      BY <1>2, <1>3, <2>1
    <3>3. drained + k <= at + n <=> k <= rel + n
      BY <1>2, <1>3, <2>1
    <3>4. sent[a] + (drained + k) - at = sent[a] + k - rel
      BY <1>2, <1>3, <2>1 DEF LiveInv, Timeline
    <3> QED BY <1>9, <2>2, <3>1, <3>2, <3>3, <3>4
  <2>5. k <= Len(data) => aired[drained + k] \subseteq data[k]
    BY <2>1, <1>2 DEF LiveInv, InBuffer
  <2> QED BY <2>1, <2>3, <2>4, <2>5
<1>14. \A r \in Readers : Trails(r)'
  <2>1. Behind(write_head) <= Behind(write_head')
    BY <1>2, <1>5, <1>8 DEF Behind, Larger
  <2>2. Behind(write_head) \in Nat /\ Behind(write_head') \in Nat
    BY <1>2, <1>5, <1>8 DEF Behind, Larger
  <2> TAKE r \in Readers
  <2>3. Trails(r) /\ live_pos[r] \in Nat
    BY DEF LiveInv, LiveTypeOK
  <2>4. live_epoch'[r] = epoch' /\ active_count' > 0 => live_pos'[r] <= Behind(write_head')
    <3>1. live_epoch[r] = epoch => live_pos[r] <= Behind(write_head)
      BY <1>1, <2>3 DEF Trails
    <3> HIDE DEF Behind
    <3>2. live_pos'[r] = live_pos[r] /\ live_epoch'[r] = live_epoch[r] /\ epoch' = epoch
      BY <1>1
    <3> QED BY <2>1, <2>2, <2>3, <3>1, <3>2
  <2> QED BY <1>1, <2>3, <2>4 DEF Trails
<1>15. HeardWhole'
  <2> SUFFICES ASSUME NEW r \in Readers, NEW p \in DOMAIN heard[r]
               PROVE  aired'[p] \subseteq heard[r][p]
    BY <1>1 DEF HeardWhole
  <2>1. live_epoch[r] = epoch /\ p \in 1..live_pos[r] /\ live_pos[r] <= Behind(write_head)
    BY <1>1 DEF LiveInv, Trails
  <2>2. p <= Behind(write_head) /\ p \in 1..Len(aired)
    <3>1. Behind(write_head) \in Nat /\ Behind(write_head) <= write_head
      BY <1>2 DEF Behind, Larger
    <3>2. live_pos[r] \in Nat
      BY DEF LiveInv, LiveTypeOK
    <3> QED BY <1>2, <2>1, <3>1, <3>2
  <2>3. p \in 1..Len(aired') /\ ~(p > Behind(write_head))
    <3>1. Behind(write_head) \in Nat
      BY <1>2 DEF Behind, Larger
    <3> QED BY <1>2, <1>5, <1>8, <1>10, <2>2, <3>1
  <2>4. aired'[p] = (IF p <= Len(aired) THEN aired[p] ELSE {})
             \union (IF p > at /\ p <= at + n /\ p > Behind(write_head)
                     THEN {<<a, sent[a] + p - at>>} ELSE {})
    <3>1. p \in 1..Larger(Len(aired), at + n)
      BY <1>9, <2>3
    <3> QED BY <1>9, <3>1, Zenon
  <2>5. aired'[p] = aired[p]
    <3>1. p <= Len(aired)
      BY <1>2, <2>2
    <3> QED BY <2>3, <2>4, <3>1
  <2> QED BY <2>5 DEF LiveInv, HeardWhole
<1> QED BY <1>1, <1>11, <1>12, <1>13, <1>14, <1>15 DEF LiveInv

-----------------------------------------------------------------------------
(* Reading.                                                                *)

\* A full buffer is longer than the delay, so the place a reader starts at,
\* and the end it reads to, are where it trails the transmitters.
LEMMA ReadRange ==
  ASSUME LiveInv, NEW r \in Readers, NEW n \in Blocks,
         NEW some, some = Larger(Smaller(n, readable_end - (ReadFrom(r) - drained)), 0)
  PROVE  /\ ReadFrom(r) \in Nat /\ some \in Nat /\ ReadFrom(r) >= drained
         /\ live_epoch[r] = epoch => live_pos[r] <= ReadFrom(r)
         /\ ReadFrom(r) + some <= write_head
         /\ active_count > 0 => ReadFrom(r) + some <= Behind(write_head)
<1>1. /\ n \in Nat /\ drained \in Nat /\ LIVE_DELAY \in Nat /\ Len(data) \in Nat
      /\ write_head = drained + Len(data)
      /\ drained > 0 => Len(data) > LIVE_DELAY
      /\ live_pos[r] \in Nat
  BY LiveAssumption DEF LiveInv, LiveTypeOK, Timeline, Mixes, write_head
<1>2. /\ Behind(write_head) \in Nat /\ Behind(write_head) <= write_head
      /\ drained <= Behind(write_head)
  BY <1>1 DEF Behind, Larger
<1>3. /\ live_epoch[r] = epoch => live_pos[r] <= write_head
      /\ live_epoch[r] = epoch /\ active_count > 0 => live_pos[r] <= Behind(write_head)
  BY DEF LiveInv, LiveTypeOK, Trails
<1>4. /\ ReadFrom(r) \in Nat /\ ReadFrom(r) >= drained /\ ReadFrom(r) <= write_head
      /\ live_epoch[r] = epoch => live_pos[r] <= ReadFrom(r)
      /\ active_count > 0 => ReadFrom(r) <= Behind(write_head)
  <2> HIDE DEF Behind
  <2>1. CASE live_epoch[r] = epoch
    <3>1. ReadFrom(r) = Larger(live_pos[r], drained)
      BY <2>1 DEF ReadFrom
    <3> QED BY <1>1, <1>2, <1>3, <2>1, <3>1 DEF Larger
  <2>2. CASE live_epoch[r] # epoch
    <3>1. ReadFrom(r) = Larger(Behind(write_head), drained)
      BY <2>2 DEF ReadFrom
    <3> QED BY <1>1, <1>2, <2>2, <3>1 DEF Larger
  <2> QED BY <2>1, <2>2
<1>5. /\ readable_end \in Nat /\ drained + readable_end <= write_head
      /\ active_count > 0 => drained + readable_end <= Behind(write_head)
  <2>1. CASE active_count > 0
    <3>1. readable_end = Larger(Len(data) - LIVE_DELAY, 0)
      BY <2>1 DEF readable_end
    <3> QED BY <1>1, <3>1 DEF Behind, Larger
  <2>2. CASE ~(active_count > 0)
    <3>1. readable_end = Len(data)
      BY <2>2 DEF readable_end
    <3> QED BY <1>1, <2>2, <3>1
  <2> QED BY <2>1, <2>2
<1>6. some \in Nat /\ (some = 0 \/ ReadFrom(r) + some <= drained + readable_end)
  <2> DEFINE room == readable_end - (ReadFrom(r) - drained)
  <2>1. room \in Int /\ ReadFrom(r) + room = drained + readable_end
    BY <1>1, <1>4, <1>5
  <2> HIDE DEF room
  <2>2. some = Larger(Smaller(n, room), 0)
    BY DEF room
  <2> QED BY <1>1, <1>4, <2>1, <2>2 DEF Larger, Smaller
<1> QED BY <1>1, <1>2, <1>4, <1>5, <1>6

LEMMA ReadKeeps ==
  ASSUME LiveInv, NEW r \in Readers, NEW n \in Blocks, Read(r, n)
  PROVE  LiveInv'
<1> DEFINE from == ReadFrom(r)
           some == Larger(Smaller(n, readable_end - (from - drained)), 0)
           hears == [p \in DOMAIN heard[r] \union (from + 1)..(from + some) |->
                       IF p > from THEN data[p - drained] ELSE heard[r][p]]
<1>1. /\ live_pos' = [live_pos EXCEPT ![r] = from + some]
      /\ heard' = [heard EXCEPT ![r] = hears]
      /\ live_epoch' = [live_epoch EXCEPT ![r] = epoch]
      /\ UNCHANGED <<on, active_count, data, drained, epoch, max_samples, client_offsets,
                     next_epoch, sent, aired>>
  BY DEF Read, recorderVars, bufferVars
<1>2. /\ from \in Nat /\ some \in Nat /\ from >= drained
      /\ live_epoch[r] = epoch => live_pos[r] <= from
      /\ from + some <= write_head
      /\ active_count > 0 => from + some <= Behind(write_head)
  BY ReadRange
<1>3. /\ drained \in Nat /\ Len(data) \in Nat /\ write_head = drained + Len(data)
      /\ write_head' = write_head /\ live_pos[r] \in Nat /\ epoch \in Nat
      /\ live_epoch \in [Readers -> 0..epoch] /\ live_pos \in [Readers -> Nat]
      /\ DOMAIN heard = Readers /\ Len(aired) = write_head
  BY <1>1 DEF LiveInv, LiveTypeOK, Timeline, Mixes, write_head
<1>4. DOMAIN heard[r] \subseteq 1..from
  <2>1. CASE live_epoch[r] = epoch
    BY <1>2, <1>3, <2>1 DEF LiveInv, Trails
  <2>2. CASE live_epoch[r] # epoch
    BY <2>2 DEF LiveInv, Trails
  <2> QED BY <2>1, <2>2
<1> HIDE DEF from, some
<1>5. /\ DOMAIN hears \subseteq 1..(from + some)
      /\ \A p \in DOMAIN hears : aired[p] \subseteq hears[p]
  <2>1. DOMAIN hears \subseteq 1..(from + some)
    BY <1>2, <1>4
  <2> SUFFICES ASSUME NEW p \in DOMAIN hears PROVE aired[p] \subseteq hears[p]
    BY <2>1
  <2>2. CASE p > from
    <3>1. p - drained \in 1..Len(data) /\ p = drained + (p - drained)
      BY <1>2, <1>3, <2>1, <2>2
    <3>2. aired[drained + (p - drained)] \subseteq data[p - drained]
      BY <3>1 DEF LiveInv, InBuffer
    <3>3. hears[p] = data[p - drained]
      BY <2>2
    <3> QED BY <3>1, <3>2, <3>3
  <2>3. CASE ~(p > from)
    <3>1. p \in DOMAIN heard[r] /\ hears[p] = heard[r][p]
      BY <1>2, <2>3
    <3> QED BY <3>1 DEF LiveInv, HeardWhole
  <2> QED BY <2>2, <2>3
<1> HIDE DEF hears
<1>6. live_pos'[r] = from + some /\ live_epoch'[r] = epoch /\ heard'[r] = hears
  BY <1>1, <1>3
<1>7. \A q \in Readers \ {r} : /\ live_pos'[q] = live_pos[q] /\ heard'[q] = heard[q]
                               /\ live_epoch'[q] = live_epoch[q]
  BY <1>1, <1>3
<1>8. LiveTypeOK'
  <2>1. \A q \in Readers : live_epoch'[q] = epoch' => live_pos'[q] <= write_head'
    BY <1>1, <1>2, <1>3, <1>6, <1>7 DEF LiveInv, LiveTypeOK
  <2>2. live_pos' \in [Readers -> Nat] /\ live_epoch' \in [Readers -> 0..epoch']
    BY <1>1, <1>2, <1>3
  <2> QED BY <1>1, <1>3, <2>1, <2>2 DEF LiveInv, LiveTypeOK
<1>9. Timeline' /\ InBuffer'
  BY <1>1, <1>3 DEF LiveInv, Timeline, InBuffer
<1>10. \A q \in Readers : Trails(q)'
  <2> TAKE q \in Readers
  <2>1. CASE q = r
    BY <1>1, <1>2, <1>3, <1>5, <1>6, <2>1 DEF Trails, Behind
  <2>2. CASE q # r
    BY <1>1, <1>3, <1>7, <2>2 DEF LiveInv, Trails, Behind
  <2> QED BY <2>1, <2>2
<1>11. HeardWhole'
  BY <1>1, <1>5, <1>6, <1>7 DEF LiveInv, HeardWhole
<1> QED BY <1>1, <1>3, <1>8, <1>9, <1>10, <1>11 DEF LiveInv

-----------------------------------------------------------------------------
LEMMA NextInv == LiveInv /\ [LiveNext]_liveVars => LiveInv'
<1> SUFFICES ASSUME LiveInv, [LiveNext]_liveVars PROVE LiveInv'
  OBVIOUS
<1>1. ASSUME NEW a \in Transmitters, StartLive(a) PROVE LiveInv'
  BY <1>1, StartKeeps
<1>2. ASSUME NEW a \in Transmitters, StopLive(a) PROVE LiveInv'
  BY <1>2, StopKeeps
<1>3. ASSUME NEW a \in Transmitters, NEW n \in Blocks, FeedLive(a, n) PROVE LiveInv'
  BY <1>3, FeedKeeps
<1>4. ASSUME NEW r \in Readers, ReadSome(r) PROVE LiveInv'
  <2>1. PICK n \in Blocks : Read(r, n)
    BY <1>4 DEF ReadSome
  <2> QED BY <2>1, ReadKeeps
<1>5. CASE UNCHANGED liveVars
  BY <1>5 DEF LiveInv, LiveTypeOK, Timeline, InBuffer, Trails, HeardWhole, write_head, Behind,
              liveVars, recorderVars, bufferVars, readerVars, historyVars
<1> QED BY <1>1, <1>2, <1>3, <1>4, <1>5 DEF LiveNext

LEMMA AlwaysInv == LiveSpec => []LiveInv
<1> QED BY InitInv, NextInv, PTL DEF LiveSpec

\* Whatever the capacities and the delay, the buffer stays within them, and no
\* offset and no reader is ever ahead of its end.
THEOREM LiveTypeCorrect == LiveSpec => []LiveTypeOK
<1>1. LiveInv => LiveTypeOK
  BY DEF LiveInv
<1> QED BY <1>1, AlwaysInv, PTL

\* A reader hears every sample that came in time: it stays LIVE_DELAY behind
\* while anybody transmits, and what it has passed nobody in time adds to.
THEOREM HeardWholeAlways == LiveSpec => []HeardWhole
<1>1. LiveInv => HeardWhole
  BY DEF LiveInv
<1> QED BY <1>1, AlwaysInv, PTL

-----------------------------------------------------------------------------
(* The server.                                                             *)

USE FreqsAssumption DEF EchoModes

-----------------------------------------------------------------------------
(* The methods of the echo buffer.                                         *)

\* What an operation on the echo buffer leaves behind: its type and mode are
\* kept, and count is its active_count.
EchoBecomes(e, new, count) ==
  new \in Echo /\ new.mode = e.mode /\ new.active_count = count

LEMMA NoFreqNoFrequency == NoFreq \notin Freqs
  BY FreqsAssumption DEF NoFreq

\* A record of the right fields stays one.
LEMMA EchoExcept ==
  ASSUME NEW e \in Echo, NEW c \in [Freqs -> Nat], NEW o \in [Freqs -> SUBSET Addrs],
         NEW s \in [Freqs -> BOOLEAN]
  PROVE  EchoBecomes(e, [e EXCEPT !.active_count = c, !.sounding = s, !.offsets = o], c)
  BY DEF Echo, EchoBecomes

\* start_recording counts the transmitter.
LEMMA StartCounts ==
  ASSUME NEW e \in Echo, NEW f \in Freqs, NEW a \in Addrs, NEW resume \in BOOLEAN
  PROVE  EchoBecomes(e, StartRecording(e, f, a, resume),
                     [e.active_count EXCEPT ![f] = @ + 1])
<1> DEFINE first == e.active_count[f] = 0
           c == [e.active_count EXCEPT ![f] = @ + 1]
           s == [e.sounding EXCEPT
                   ![f] = @ /\ (first => e.mode = "Loop" /\ resume)]
           o == [e.offsets EXCEPT
                   ![f] = IF e.mode = "Live"
                          THEN (IF first THEN {} ELSE @) \union {a} ELSE @]
<1>1. StartRecording(e, f, a, resume)
        = [e EXCEPT !.active_count = c, !.sounding = s, !.offsets = o]
  BY Zenon DEF StartRecording
<1>2. c \in [Freqs -> Nat]
  BY DEF Echo
<1>3. o \in [Freqs -> SUBSET Addrs]
  BY DEF Echo
<1>4. s \in [Freqs -> BOOLEAN]
  BY Zenon DEF Echo
<1> HIDE DEF c, s, o
<1>5. EchoBecomes(e, [e EXCEPT !.active_count = c, !.sounding = s, !.offsets = o], c)
  BY <1>2, <1>3, <1>4, EchoExcept
<1>6. EchoBecomes(e, StartRecording(e, f, a, resume), c)
  BY <1>1, <1>5
<1> QED BY <1>6 DEF c

\* feed and commit_freq count nothing.
LEMMA FeedCounts ==
  ASSUME NEW e \in Echo, NEW f \in Freqs, NEW signal \in BOOLEAN, NEW forgets \in BOOLEAN
  PROVE  EchoBecomes(e, Feed(e, f, signal, forgets), e.active_count)
<1> DEFINE s == [e.sounding EXCEPT ![f] = signal \/ (@ /\ ~forgets)]
<1>1. CASE e.active_count[f] > 0 /\ e.mode = "Loop"
  <2>1. Feed(e, f, signal, forgets) = [e EXCEPT !.sounding = s]
    BY <1>1, Zenon DEF Feed
  <2>2. s \in [Freqs -> BOOLEAN]
    BY Zenon DEF Echo
  <2> HIDE DEF s
  <2> QED BY <2>1, <2>2 DEF Echo, EchoBecomes
<1>2. CASE ~(e.active_count[f] > 0 /\ e.mode = "Loop")
  BY <1>2 DEF Feed, EchoBecomes
<1> QED BY <1>1, <1>2

LEMMA CommitCounts ==
  ASSUME NEW e \in Echo, NEW f \in Freqs
  PROVE  EchoBecomes(e, Commit(e, f), e.active_count)
  BY DEF Commit, Echo, EchoBecomes

\* stop_recording counts a transmitter off, if there is one.
LEMMA StopCounts ==
  ASSUME NEW e \in Echo, NEW f \in Freqs, NEW a \in Addrs, e.active_count[f] # 0
  PROVE  EchoBecomes(e, StopRecording(e, f, a),
                     [e.active_count EXCEPT ![f] = @ - 1])
<1> DEFINE c == [e.active_count EXCEPT ![f] = @ - 1]
           o == [e.offsets EXCEPT ![f] = IF e.mode = "Live" THEN @ \ {a} ELSE @]
           left == [e EXCEPT !.active_count = c, !.offsets = o]
<1>1. StopRecording(e, f, a)
        = IF e.active_count[f] = 0 THEN e
          ELSE IF left.active_count[f] = 0 /\ e.mode = "Loop" THEN Commit(left, f)
          ELSE left
  BY DEF StopRecording
<1>2. c \in [Freqs -> Nat]
  BY DEF Echo
<1>3. o \in [Freqs -> SUBSET Addrs]
  BY DEF Echo
<1> HIDE DEF c, o
<1>4. EchoBecomes(e, left, c)
  BY <1>2, <1>3 DEF Echo, EchoBecomes
<1> HIDE DEF left
<1>5. EchoBecomes(e, StopRecording(e, f, a), c)
  BY <1>1, <1>4, CommitCounts DEF EchoBecomes
<1> QED BY <1>5 DEF c

-----------------------------------------------------------------------------
(* The counts.                                                             *)

Counted(count, tasks) ==
  \A f \in Freqs : count[f] = Cardinality({i \in Ids : tasks[i].recording_freq = f})

\* A task that had no recording and begins one on f adds one to its count;
\* one that gives its recording up takes one off.
LEMMA CountBegins ==
  ASSUME NEW count \in [Freqs -> Nat], NEW tasks \in [Ids -> Task], Counted(count, tasks),
         NEW i \in Ids, tasks[i].recording_freq = NoFreq,
         NEW t \in Task, NEW f \in Freqs, t.recording_freq = f
  PROVE  Counted([count EXCEPT ![f] = @ + 1], [tasks EXCEPT ![i] = t])
<1> DEFINE R(g) == {j \in Ids : tasks[j].recording_freq = g}
           Rn(g) == {j \in Ids : [tasks EXCEPT ![i] = t][j].recording_freq = g}
<1>1. SUFFICES ASSUME NEW g \in Freqs
               PROVE  [count EXCEPT ![f] = @ + 1][g] = Cardinality(Rn(g))
  BY DEF Counted
<1>2. IsFiniteSet(R(g)) /\ count[g] = Cardinality(R(g))
  BY FS_Subset, ServerAssumption DEF Counted
<1>3. CASE g = f
  <2>1. Rn(g) = R(g) \union {i} /\ i \notin R(g)
    BY <1>3, NoFreqNoFrequency
  <2>2. Cardinality(Rn(g)) = Cardinality(R(g)) + 1
    BY <2>1, <1>2, FS_AddElement
  <2> QED BY <1>3, <1>2, <2>2
<1>4. CASE g # f
  <2>1. Rn(g) = R(g)
    BY <1>4, NoFreqNoFrequency
  <2> QED BY <1>4, <1>2, <2>1
<1> QED BY <1>3, <1>4

LEMMA CountEnds ==
  ASSUME NEW count \in [Freqs -> Nat], NEW tasks \in [Ids -> Task], Counted(count, tasks),
         NEW i \in Ids, NEW f \in Freqs, tasks[i].recording_freq = f,
         NEW t \in Task, t.recording_freq = NoFreq
  PROVE  /\ count[f] # 0
         /\ Counted([count EXCEPT ![f] = @ - 1], [tasks EXCEPT ![i] = t])
<1> DEFINE R(g) == {j \in Ids : tasks[j].recording_freq = g}
           Rn(g) == {j \in Ids : [tasks EXCEPT ![i] = t][j].recording_freq = g}
<1>1. \A g \in Freqs : IsFiniteSet(R(g)) /\ count[g] = Cardinality(R(g))
  BY FS_Subset, ServerAssumption DEF Counted
<1>2. count[f] # 0
  <2>1. R(f) # {}
    OBVIOUS
  <2> QED BY <2>1, <1>1, FS_EmptySet
<1>3. ASSUME NEW g \in Freqs
      PROVE  [count EXCEPT ![f] = @ - 1][g] = Cardinality(Rn(g))
  <2>1. CASE g = f
    <3>1. Rn(g) = R(g) \ {i} /\ i \in R(g)
      BY <2>1, NoFreqNoFrequency
    <3>2. IsFiniteSet(R(g)) /\ count[g] = Cardinality(R(g))
      BY <1>1
    <3>3. Cardinality(R(g)) \in Nat
      BY <3>2, FS_CardinalityType
    <3>4. [count EXCEPT ![f] = @ - 1][g] = count[g] - 1
      BY <2>1
    <3> HIDE DEF R, Rn
    <3>5. Cardinality(R(g) \ {i}) = Cardinality(R(g)) - 1
      BY <3>1, <3>2, FS_RemoveElement
    <3> QED BY <3>1, <3>2, <3>3, <3>4, <3>5
  <2>2. CASE g # f
    <3>1. Rn(g) = R(g)
      BY <2>2, NoFreqNoFrequency
    <3> QED BY <2>2, <1>1, <3>1
  <2> QED BY <2>1, <2>2
<1> QED BY <1>2, <1>3 DEF Counted

\* Any other step of a task leaves the counts alone.
LEMMA CountStays ==
  ASSUME NEW count, NEW tasks \in [Ids -> Task], Counted(count, tasks),
         NEW i \in Ids, NEW t \in Task, t.recording_freq = tasks[i].recording_freq
  PROVE  Counted(count, [tasks EXCEPT ![i] = t])
<1>1. ASSUME NEW j \in Ids
      PROVE  [tasks EXCEPT ![i] = t][j].recording_freq = tasks[j].recording_freq
  OBVIOUS
<1> QED BY <1>1, Zenon DEF Counted

-----------------------------------------------------------------------------
(* The steps of the server.                                                *)

SessionInv == ServerTypeOK /\ RefCount /\ RecordingIffPtt

LEMMA RefCountIsCounted == RefCount <=> Counted(echo.active_count, task)
  BY DEF RefCount, Recorders, Counted

LEMMA NewTaskType ==
  ASSUME NEW a \in Addrs
  PROVE  /\ NewTask(a) \in Task
         /\ NewTask(a).recording_freq = NoFreq
         /\ NewTask(a).ptt = FALSE
         /\ NewTask(a).queue = <<>>
<1>1. <<>> \in Seq(Frames) /\ <<>> \in Seq(Subframe)
  OBVIOUS
<1> QED BY <1>1, ServerAssumption DEF NewTask, Task

LEMMA EndedType ==
  /\ Ended \in Task
  /\ Ended.recording_freq = NoFreq
  /\ Ended.ptt = FALSE
  /\ Ended.queue = <<>>
<1>1. (CHOOSE a \in Addrs : TRUE) \in Addrs
  BY ServerAssumption
<1> QED BY <1>1, NewTaskType DEF Ended

\* The buffer starts empty, and nobody records.
LEMMA InitSession == ServerInit => SessionInv
<1> SUFFICES ASSUME ServerInit PROVE SessionInv
  OBVIOUS
<1>1. PICK m \in Modes : echo = NewEcho(m)
  BY DEF ServerInit
<1>2. echo \in Echo /\ \A f \in Freqs : echo.active_count[f] = 0
  BY <1>1, ServerAssumption DEF NewEcho, Echo
<1>3. \A i \in Ids : task[i] = Ended
  BY DEF ServerInit
<1>4. ServerTypeOK
  <2>1. Len(<<>>) <= QUEUE_CAP
    BY ServerAssumption
  <2> QED BY <1>2, <1>3, <2>1, EndedType DEF ServerTypeOK, ServerInit
<1>5. RefCount
  <2>1. \A f \in Freqs : Recorders(f) = {}
    BY <1>3, EndedType, NoFreqNoFrequency DEF Recorders
  <2> QED BY <1>2, <2>1, FS_EmptySet DEF RefCount
<1>6. RecordingIffPtt
  BY <1>3, EndedType DEF RecordingIffPtt, ServerInit
<1> QED BY <1>4, <1>5, <1>6 DEF SessionInv

\* A step that changes one task, but neither its PTT nor its recording.
LEMMA TaskChanges ==
  ASSUME SessionInv, NEW i \in Ids, NEW t \in Task,
         Len(t.queue) <= QUEUE_CAP,
         t.recording_freq = task[i].recording_freq,
         t.ptt = task[i].ptt \/ (t.ptt = FALSE /\ i \notin live),
         task' = [task EXCEPT ![i] = t],
         live' = live \/ (live' = live \union {i} /\ t.ptt = FALSE),
         clients' \in [Addrs -> Ids \union {NoTask}], UNCHANGED echo
  PROVE  SessionInv'
<1>1. task' \in [Ids -> Task]
  BY DEF SessionInv, ServerTypeOK
<1>2. \A j \in Ids : task'[j] = IF j = i THEN t ELSE task[j]
  BY DEF SessionInv, ServerTypeOK
<1>3. ServerTypeOK'
  BY <1>1, <1>2 DEF SessionInv, ServerTypeOK
<1>4. RefCount'
  <2>1. Counted(echo.active_count, task')
    BY CountStays, RefCountIsCounted DEF SessionInv, ServerTypeOK
  <2> QED BY <2>1, <1>2 DEF RefCount, Recorders, Counted
<1>5. RecordingIffPtt'
  BY <1>2, Zenon DEF SessionInv, RecordingIffPtt
<1> QED BY <1>3, <1>4, <1>5 DEF SessionInv

\* A step that changes one task and the echo buffer with it.
LEMMA RecordingChanges ==
  ASSUME SessionInv, NEW i \in Ids, NEW t \in Task, NEW count,
         Len(t.queue) <= QUEUE_CAP,
         task' = [task EXCEPT ![i] = t], UNCHANGED clients,
         live' = live \/ live' = live \ {i},
         EchoBecomes(echo, echo', count), Counted(count, task'),
         t.recording_freq # NoFreq <=> i \in live' /\ t.ptt /\ echo.mode # "Off"
  PROVE  SessionInv'
<1>1. task' \in [Ids -> Task]
  BY DEF SessionInv, ServerTypeOK
<1>2. \A j \in Ids : task'[j] = IF j = i THEN t ELSE task[j]
  BY DEF SessionInv, ServerTypeOK
<1>3. ServerTypeOK'
  BY <1>1, <1>2 DEF SessionInv, ServerTypeOK, EchoBecomes
<1>4. RefCount'
  BY Zenon DEF RefCount, Recorders, Counted, EchoBecomes
<1>5. RecordingIffPtt'
  <2> SUFFICES ASSUME NEW j \in Ids
               PROVE  task'[j].recording_freq # NoFreq
                        <=> j \in live' /\ task'[j].ptt /\ echo'.mode # "Off"
    BY DEF RecordingIffPtt
  <2>1. echo'.mode = echo.mode
    BY DEF EchoBecomes
  <2>2. CASE j = i
    BY <2>1, <2>2, <1>2, Zenon
  <2>3. CASE j # i
    <3>1. task'[j] = task[j]
      BY <2>3, <1>2
    <3>2. j \in live' <=> j \in live
      BY <2>3
    <3> QED BY <2>1, <3>1, <3>2, Zenon DEF SessionInv, RecordingIffPtt
  <2> QED BY <2>2, <2>3
<1> QED BY <1>3, <1>4, <1>5 DEF SessionInv

LEMMA StartSession ==
  ASSUME SessionInv, NEW a \in Addrs, Start(a)
  PROVE  SessionInv'
<1> DEFINE i == CHOOSE j \in Ids : j \notin live
<1>1. i \in Ids /\ i \notin live
  BY Zenon DEF Start
<1>2. /\ live' = live \union {i}
      /\ task' = [task EXCEPT ![i] = NewTask(a)]
      /\ clients' = [clients EXCEPT ![a] = i]
      /\ UNCHANGED echo
  BY DEF Start
<1>3. task[i].recording_freq = NoFreq
  BY <1>1, Zenon DEF SessionInv, RecordingIffPtt
<1> HIDE DEF i
<1>4. clients' \in [Addrs -> Ids \union {NoTask}]
  BY <1>1, <1>2 DEF SessionInv, ServerTypeOK
<1>5. Len(NewTask(a).queue) <= QUEUE_CAP
  <2>1. Len(<<>>) <= QUEUE_CAP
    BY ServerAssumption
  <2> QED BY <2>1, NewTaskType
<1> QED BY <1>1, <1>2, <1>3, <1>4, <1>5, NewTaskType, TaskChanges

LEMMA StopSession ==
  ASSUME SessionInv, NEW a \in Addrs, Stop(a)
  PROVE  SessionInv'
<1> DEFINE i == clients[a]
           t == [task[i] EXCEPT !.stop = TRUE]
<1>1. i \in Ids
  BY DEF SessionInv, ServerTypeOK, Stop, Connected
<1>2. task[i] \in Task /\ Len(task[i].queue) <= QUEUE_CAP
  BY <1>1 DEF SessionInv, ServerTypeOK
<1>3. /\ t \in Task
      /\ t.queue = task[i].queue
      /\ t.ptt = task[i].ptt
      /\ t.recording_freq = task[i].recording_freq
  BY <1>2 DEF Task
<1>4. task' = [task EXCEPT ![i] = t]
  BY <1>1 DEF Stop, SessionInv, ServerTypeOK
<1>5. clients' \in [Addrs -> Ids \union {NoTask}] /\ UNCHANGED <<live, echo>>
  BY DEF Stop, SessionInv, ServerTypeOK
<1> HIDE DEF t, i
<1> QED BY <1>1, <1>2, <1>3, <1>4, <1>5, TaskChanges

LEMMA DataSession ==
  ASSUME SessionInv, NEW a \in Addrs, NEW frame \in Frames, Data(a, frame)
  PROVE  SessionInv'
<1> DEFINE i == clients[a]
           t == [task[i] EXCEPT !.queue = Append(@, frame)]
<1>1. i \in Ids
  BY DEF SessionInv, ServerTypeOK, Data, Connected
<1>2. task[i] \in Task /\ Len(task[i].queue) <= QUEUE_CAP
  BY <1>1 DEF SessionInv, ServerTypeOK
<1>3. clients' \in [Addrs -> Ids \union {NoTask}] /\ UNCHANGED <<live, echo>>
  BY DEF Data, Retained, SessionInv, ServerTypeOK
<1>4. CASE task' = task
  BY <1>1, <1>2, <1>3, <1>4
     DEF SessionInv, ServerTypeOK, RefCount, Recorders, RecordingIffPtt
<1>5. CASE /\ Len(task[i].queue) < QUEUE_CAP
           /\ task' = [task EXCEPT ![i].queue = Append(@, frame)]
  <2>1. t \in Task /\ Len(t.queue) <= QUEUE_CAP
    <3> DEFINE q == task[i].queue
    <3>1. q \in Seq(Frames) /\ QUEUE_CAP \in Nat
      BY <1>2, ServerAssumption DEF Task
    <3>2. Append(q, frame) \in Seq(Frames) /\ Len(Append(q, frame)) = Len(q) + 1
      BY <3>1
    <3>3. t \in Task /\ t.queue = Append(q, frame)
      BY <1>2, <3>2 DEF Task
    <3> HIDE DEF t
    <3> QED BY <1>5, <3>1, <3>2, <3>3
  <2>2. t.ptt = task[i].ptt /\ t.recording_freq = task[i].recording_freq
    BY <1>2 DEF Task
  <2>3. task' = [task EXCEPT ![i] = t]
    BY <1>1, <1>5 DEF SessionInv, ServerTypeOK
  <2> HIDE DEF t, i
  <2> QED BY <1>1, <1>3, <2>1, <2>2, <2>3, TaskChanges
<1> QED BY <1>4, <1>5 DEF Data

LEMMA ReceiveSession ==
  ASSUME SessionInv, NEW i \in Ids, Receive(i)
  PROVE  SessionInv'
<1> DEFINE t == [task[i] EXCEPT !.frame = Head(task[i].queue), !.queue = Tail(@)]
<1>1. task[i] \in Task /\ Len(task[i].queue) <= QUEUE_CAP /\ task[i].queue # <<>>
  BY DEF SessionInv, ServerTypeOK, Receive
<1>2. task[i].queue \in Seq(Frames)
  BY <1>1 DEF Task
<1>3. Head(task[i].queue) \in Seq(Subframe)
  BY <1>1, <1>2, ServerAssumption
<1>4. Tail(task[i].queue) \in Seq(Frames) /\ Len(Tail(task[i].queue)) <= QUEUE_CAP
  BY <1>1, <1>2, ServerAssumption
<1>5. t \in Task /\ Len(t.queue) <= QUEUE_CAP
  BY <1>1, <1>3, <1>4 DEF Task
<1>6. t.ptt = task[i].ptt /\ t.recording_freq = task[i].recording_freq
  BY <1>1 DEF Task
<1>7. task' = [task EXCEPT ![i] = t]
  BY <1>1 DEF Receive, SessionInv, ServerTypeOK
<1>8. clients' \in [Addrs -> Ids \union {NoTask}] /\ UNCHANGED <<live, echo>>
  BY DEF Receive, SessionInv, ServerTypeOK
<1> HIDE DEF t
<1> QED BY <1>5, <1>6, <1>7, <1>8, TaskChanges

\* What a sub-frame leaves of its task.
LEMMA SubframeTask ==
  ASSUME SessionInv, NEW i \in Ids, HandleSubframe(i),
         NEW t, t = [task[i] EXCEPT
                       !.frame = Tail(@), !.ptt = Head(task[i].frame).mox,
                       !.tx_frequency = TxFrequency(task[i], Head(task[i].frame)),
                       !.recording_freq = RecordingFreq(task[i], Head(task[i].frame))]
  PROVE  /\ Head(task[i].frame) \in Subframe
         /\ TxFrequency(task[i], Head(task[i].frame)) \in Freqs
         /\ t \in Task
         /\ Len(t.queue) <= QUEUE_CAP
         /\ t.ptt = Head(task[i].frame).mox
         /\ t.recording_freq = RecordingFreq(task[i], Head(task[i].frame))
         /\ task' = [task EXCEPT ![i] = t]
<1> DEFINE sf == Head(task[i].frame)
           tx == TxFrequency(task[i], sf)
           rec == RecordingFreq(task[i], sf)
<1>1. /\ task[i] \in Task /\ Len(task[i].queue) <= QUEUE_CAP
      /\ task[i].frame \in Seq(Subframe) /\ task[i].frame # <<>>
  BY DEF SessionInv, ServerTypeOK, Task, HandleSubframe
<1>2. sf \in Subframe /\ Tail(task[i].frame) \in Seq(Subframe)
  BY <1>1
<1>3. tx \in Freqs
  BY <1>1, <1>2 DEF TxFrequency, Subframe, Task
<1>4. rec \in Freqs \union {NoFreq}
  BY <1>1, <1>3 DEF RecordingFreq, Task
<1>5. sf.mox \in BOOLEAN
  BY <1>2 DEF Subframe
<1>6. task' = [task EXCEPT ![i] = t]
  BY DEF HandleSubframe, SessionInv, ServerTypeOK
<1> HIDE DEF sf, tx, rec
<1>7. t = [task[i] EXCEPT !.frame = Tail(@), !.ptt = sf.mox,
                          !.tx_frequency = tx, !.recording_freq = rec]
  BY Zenon DEF sf, tx, rec
<1>8. /\ t \in Task /\ t.queue = task[i].queue
      /\ t.ptt = sf.mox /\ t.recording_freq = rec
  BY <1>1, <1>2, <1>3, <1>4, <1>5, <1>7 DEF Task
<1> QED BY <1>1, <1>2, <1>3, <1>6, <1>8 DEF sf, tx, rec

LEMMA HandleSubframeSession ==
  ASSUME SessionInv, NEW i \in Ids, HandleSubframe(i)
  PROVE  SessionInv'
<1> DEFINE t == [task[i] EXCEPT
                   !.frame = Tail(@), !.ptt = Head(task[i].frame).mox,
                   !.tx_frequency = TxFrequency(task[i], Head(task[i].frame)),
                   !.recording_freq = RecordingFreq(task[i], Head(task[i].frame))]
           sf == Head(task[i].frame)
           tx == TxFrequency(task[i], sf)
           rec == RecordingFreq(task[i], sf)
           old == task[i].recording_freq
<1>1. /\ sf \in Subframe /\ tx \in Freqs /\ t \in Task
      /\ Len(t.queue) <= QUEUE_CAP /\ t.ptt = sf.mox /\ t.recording_freq = rec
      /\ task' = [task EXCEPT ![i] = t]
  BY SubframeTask, Zenon
<1>2. /\ sf.mox \in BOOLEAN /\ sf.signal \in BOOLEAN
      /\ task[i].ptt \in BOOLEAN /\ task[i].addr \in Addrs
      /\ old \in Freqs \union {NoFreq}
      /\ echo \in Echo /\ echo.active_count \in [Freqs -> Nat]
      /\ task \in [Ids -> Task] /\ Counted(echo.active_count, task)
  BY <1>1, RefCountIsCounted
     DEF Subframe, SessionInv, ServerTypeOK, Task, Echo
<1>3. i \in live /\ UNCHANGED <<clients, live>>
  BY DEF HandleSubframe
<1>4. old # NoFreq <=> task[i].ptt /\ echo.mode # "Off"
  BY <1>3, Zenon DEF SessionInv, RecordingIffPtt
<1>5. rec = IF sf.mox = task[i].ptt \/ echo.mode = "Off" THEN old
            ELSE IF sf.mox THEN tx ELSE NoFreq
  BY Zenon DEF RecordingFreq
<1>6. PICK resume \in BOOLEAN, forgets \in BOOLEAN :
        echo' = IF echo.mode = "Off" THEN echo
                ELSE Echoed(task[i], sf, resume, forgets)
  BY Zenon DEF HandleSubframe
<1> DEFINE switched ==
             IF sf.mox = task[i].ptt THEN echo
             ELSE IF sf.mox THEN StartRecording(echo, rec, task[i].addr, resume)
             ELSE IF old # NoFreq THEN StopRecording(echo, old, task[i].addr) ELSE echo
<1>7. echo.mode # "Off" =>
        echo' = IF sf.mox /\ rec # NoFreq THEN Feed(switched, rec, sf.signal, forgets)
                ELSE switched
  BY <1>6, Zenon DEF Echoed
<1>8. rec # NoFreq <=> sf.mox /\ echo.mode # "Off"
  BY <1>1, <1>2, <1>4, <1>5, NoFreqNoFrequency
\* What the sub-frame did to the echo buffer and to the counts.
<1>9. \E count : EchoBecomes(echo, echo', count) /\ Counted(count, task')
  <2>1. CASE echo.mode = "Off" \/ sf.mox = task[i].ptt
    <3>1. Counted(echo.active_count, task')
      BY <2>1, <1>1, <1>2, <1>5, CountStays
    <3>2. EchoBecomes(echo, echo', echo.active_count)
      <4>1. EchoBecomes(echo, echo, echo.active_count)
        BY <1>2 DEF EchoBecomes
      <4>2. CASE rec # NoFreq /\ echo.mode # "Off"
        <5>1. rec \in Freqs
          BY <1>2, <1>5, <2>1, <4>2
        <5>2. echo' = Feed(echo, rec, sf.signal, forgets)
          BY <1>7, <1>8, <2>1, <4>2
        <5> QED BY <5>1, <5>2, <1>2, FeedCounts
      <4>3. CASE rec = NoFreq \/ echo.mode = "Off"
        <5>1. echo' = echo
          BY <1>6, <1>7, <2>1, <4>3
        <5> QED BY <5>1, <4>1
      <4> QED BY <4>2, <4>3
    <3> QED BY <3>1, <3>2
  <2>2. CASE echo.mode # "Off" /\ sf.mox /\ ~task[i].ptt
    <3> DEFINE count == [echo.active_count EXCEPT ![rec] = @ + 1]
               begun == StartRecording(echo, rec, task[i].addr, resume)
    <3>1. rec \in Freqs /\ rec = tx /\ old = NoFreq
      BY <2>2, <1>1, <1>4, <1>5
    <3>2. Counted(count, task')
      BY <3>1, <1>1, <1>2, CountBegins
    <3>3. EchoBecomes(echo, begun, count)
      BY <3>1, <1>2, StartCounts
    <3>4. echo' = Feed(begun, rec, sf.signal, forgets)
      BY <2>2, <1>7, <1>8
    <3>5. sf.signal \in BOOLEAN
      BY <1>2
    <3> HIDE DEF begun, count, switched, t, sf, tx, rec, old
    <3>6. begun \in Echo /\ begun.mode = echo.mode /\ begun.active_count = count
      BY <3>3 DEF EchoBecomes
    <3>7. EchoBecomes(begun, Feed(begun, rec, sf.signal, forgets), begun.active_count)
      BY <3>1, <3>5, <3>6, FeedCounts
    <3>8. EchoBecomes(echo, Feed(begun, rec, sf.signal, forgets), count)
      BY <3>6, <3>7 DEF EchoBecomes
    <3>9. EchoBecomes(echo, echo', count)
      BY <3>4, <3>8
    <3> QED BY <3>2, <3>9
  <2>3. CASE echo.mode # "Off" /\ ~sf.mox /\ task[i].ptt
    <3> DEFINE count == [echo.active_count EXCEPT ![old] = @ - 1]
    <3>1. old \in Freqs /\ old # NoFreq /\ rec = NoFreq
      BY <2>3, <1>2, <1>4, <1>5
    <3>2. echo.active_count[old] # 0 /\ Counted(count, task')
      BY <3>1, <1>1, <1>2, CountEnds
    <3>3. echo' = StopRecording(echo, old, task[i].addr)
      BY <2>3, <3>1, <1>7
    <3>4. EchoBecomes(echo, echo', count)
      BY <3>1, <3>2, <3>3, <1>2, StopCounts
    <3> QED BY <3>2, <3>4
  <2> QED BY <2>1, <2>2, <2>3, <1>2
<1>10. t.recording_freq # NoFreq <=> i \in live' /\ t.ptt /\ echo.mode # "Off"
  BY <1>1, <1>3, <1>8, Zenon
<1> HIDE DEF t, sf, tx, rec, old
<1> QED BY <1>1, <1>3, <1>9, <1>10, RecordingChanges

\* A task that ends lets its recording go.
LEMMA EndSession ==
  ASSUME SessionInv, NEW i \in Ids, End(i)
  PROVE  SessionInv'
<1> DEFINE old == task[i].recording_freq
<1>1. /\ live' = live \ {i} /\ UNCHANGED clients
      /\ task' = [task EXCEPT ![i] = Ended]
      /\ echo' = IF old = NoFreq THEN echo ELSE StopRecording(echo, old, task[i].addr)
  BY DEF End
<1>2. /\ task[i].addr \in Addrs /\ old \in Freqs \union {NoFreq}
      /\ echo \in Echo /\ echo.active_count \in [Freqs -> Nat]
      /\ task \in [Ids -> Task] /\ Counted(echo.active_count, task)
  BY RefCountIsCounted DEF SessionInv, ServerTypeOK, Task, Echo
<1>3. Len(Ended.queue) <= QUEUE_CAP
  <2>1. Len(<<>>) <= QUEUE_CAP
    BY ServerAssumption
  <2> QED BY <2>1, EndedType
<1>4. \E count : EchoBecomes(echo, echo', count) /\ Counted(count, task')
  <2>1. CASE old = NoFreq
    <3>1. Counted(echo.active_count, task')
      BY <2>1, <1>1, <1>2, EndedType, CountStays
    <3>2. EchoBecomes(echo, echo', echo.active_count)
      BY <2>1, <1>1, <1>2 DEF EchoBecomes
    <3> QED BY <3>1, <3>2
  <2>2. CASE old # NoFreq
    <3> DEFINE count == [echo.active_count EXCEPT ![old] = @ - 1]
    <3>1. echo.active_count[old] # 0 /\ Counted(count, task')
      BY <2>2, <1>1, <1>2, EndedType, CountEnds
    <3>2. EchoBecomes(echo, echo', count)
      BY <2>2, <3>1, <1>1, <1>2, StopCounts
    <3> QED BY <3>1, <3>2
  <2> QED BY <2>1, <2>2
<1> QED BY <1>1, <1>3, <1>4, EndedType, RecordingChanges

LEMMA StepSession ==
  ASSUME SessionInv, [ServerNext]_serverVars
  PROVE  SessionInv'
<1>1. CASE UNCHANGED serverVars
  BY <1>1 DEF SessionInv, ServerTypeOK, RefCount, Recorders, RecordingIffPtt, serverVars
<1>2. ASSUME NEW a \in Addrs, Start(a) \/ Stop(a) \/ \E f \in Frames : Data(a, f)
      PROVE  SessionInv'
  BY <1>2, StartSession, StopSession, DataSession
<1>3. ASSUME NEW i \in Ids, TaskStep(i)
      PROVE  SessionInv'
  BY <1>3, ReceiveSession, HandleSubframeSession, EndSession DEF TaskStep
<1> QED BY <1>1, <1>2, <1>3 DEF ServerNext

-----------------------------------------------------------------------------
(* Every live task can be told to stop.                                    *)

ReachInv == ServerTypeOK /\ TasksReachable

LEMMA StartReaches ==
  ASSUME ReachInv, NEW a \in Addrs, Start(a)
  PROVE  TasksReachable'
<1> DEFINE i == CHOOSE j \in Ids : j \notin live
<1>1. i \in Ids /\ i \notin live
  BY Zenon DEF Start
<1>2. /\ live' = live \union {i}
      /\ task' = [task EXCEPT ![i] = NewTask(a)]
      /\ clients' = [clients EXCEPT ![a] = i]
      /\ clients[a] = NoTask
  BY DEF Start, Connected
<1> HIDE DEF i
<1>3. NewTask(a).addr = a /\ NewTask(a).stop = FALSE
  BY DEF NewTask
<1>4. /\ clients \in [Addrs -> Ids \union {NoTask}] /\ live \subseteq Ids
      /\ task \in [Ids -> Task] /\ NoTask \notin Ids
  BY ServerAssumption DEF ReachInv, ServerTypeOK
<1>5. task'[i] = NewTask(a) /\ \A j \in live : j # i /\ task'[j] = task[j]
  BY <1>1, <1>2, <1>4
<1>6. clients'[a] = i /\ \A b \in Addrs : b # a => clients'[b] = clients[b]
  BY <1>2, <1>4
<1>7. ASSUME NEW j \in live'
      PROVE  task'[j].stop \/ clients'[task'[j].addr] = j
  <2>1. CASE j = i
    BY <2>1, <1>3, <1>5, <1>6
  <2>2. CASE j # i
    <3>1. j \in live /\ task'[j] = task[j] /\ task[j].addr \in Addrs /\ j # NoTask
      BY <2>2, <1>2, <1>4, <1>5 DEF Task
    <3>2. task[j].stop \/ clients[task[j].addr] = j
      BY <3>1 DEF ReachInv, TasksReachable
    <3> QED BY <3>1, <3>2, <1>2, <1>6
  <2> QED BY <2>1, <2>2
<1>8. ASSUME NEW b \in Addrs, clients'[b] # NoTask
      PROVE  clients'[b] \in live' /\ task'[clients'[b]].addr = b /\ ~task'[clients'[b]].stop
  <2>1. CASE b = a
    BY <2>1, <1>2, <1>3, <1>5, <1>6
  <2>2. CASE b # a
    <3>1. clients'[b] = clients[b] /\ b \in Connected
      BY <2>2, <1>6, <1>8 DEF Connected
    <3>2. clients[b] \in live /\ task[clients[b]].addr = b /\ ~task[clients[b]].stop
      BY <3>1 DEF ReachInv, TasksReachable
    <3> QED BY <3>1, <3>2, <1>2, <1>5
  <2> QED BY <2>1, <2>2
<1> QED BY <1>7, <1>8 DEF TasksReachable, Connected

LEMMA StopReaches ==
  ASSUME ReachInv, NEW a \in Addrs, Stop(a)
  PROVE  TasksReachable'
<1> DEFINE i == clients[a]
<1>1. /\ live' = live
      /\ task' = [task EXCEPT ![i].stop = TRUE]
      /\ clients' = [clients EXCEPT ![a] = NoTask]
      /\ a \in Connected
  BY DEF Stop
<1>2. /\ clients \in [Addrs -> Ids \union {NoTask}] /\ live \subseteq Ids
      /\ task \in [Ids -> Task]
  BY DEF ReachInv, ServerTypeOK
<1>3. i \in live /\ task[i].addr = a
  BY <1>1 DEF ReachInv, TasksReachable
<1> HIDE DEF i
<1>4. /\ task'[i].stop = TRUE
      /\ \A j \in live : j # i => task'[j] = task[j]
  BY <1>1, <1>2, <1>3 DEF Task
<1>5. clients'[a] = NoTask /\ \A b \in Addrs : b # a => clients'[b] = clients[b]
  BY <1>1, <1>2
<1>6. ASSUME NEW j \in live'
      PROVE  task'[j].stop \/ clients'[task'[j].addr] = j
  <2>1. CASE j = i
    BY <2>1, <1>4
  <2>2. CASE j # i
    <3>1. task'[j] = task[j] /\ task[j].addr \in Addrs
      BY <2>2, <1>1, <1>2, <1>4 DEF Task
    <3>2. task[j].stop \/ clients[task[j].addr] = j
      BY <1>1 DEF ReachInv, TasksReachable
    <3> QED BY <3>1, <3>2, <2>2, <1>5 DEF i
  <2> QED BY <2>1, <2>2
<1>7. ASSUME NEW b \in Addrs, clients'[b] # NoTask
      PROVE  clients'[b] \in live' /\ task'[clients'[b]].addr = b /\ ~task'[clients'[b]].stop
  <2>1. b # a /\ clients'[b] = clients[b] /\ b \in Connected
    BY <1>5, <1>7 DEF Connected
  <2>2. clients[b] \in live /\ task[clients[b]].addr = b /\ ~task[clients[b]].stop
    BY <2>1 DEF ReachInv, TasksReachable
  <2>3. clients[b] # i
    BY <2>1, <2>2, <1>3
  <2> QED BY <2>1, <2>2, <2>3, <1>1, <1>4
<1> QED BY <1>6, <1>7 DEF TasksReachable, Connected

\* What keeps the table, the tasks alive, their addresses and stop signals.
LEMMA SameReaches ==
  ASSUME ReachInv, clients' = clients, live' = live,
         \A j \in Ids : task'[j].addr = task[j].addr /\ task'[j].stop = task[j].stop
  PROVE  TasksReachable'
<1>1. live \subseteq Ids
  BY DEF ReachInv, ServerTypeOK
<1>2. \A b \in Connected : clients[b] \in live
  BY DEF ReachInv, TasksReachable
<1> QED BY <1>1, <1>2 DEF ReachInv, TasksReachable, Connected

LEMMA DataReaches ==
  ASSUME ReachInv, NEW a \in Addrs, NEW frame \in Frames, Data(a, frame)
  PROVE  TasksReachable'
<1>1. clients \in [Addrs -> Ids \union {NoTask}] /\ task \in [Ids -> Task]
  BY DEF ReachInv, ServerTypeOK
<1>2. Retained = clients
  <2>1. \A b \in Addrs : (IF clients[b] \in live THEN clients[b] ELSE NoTask) = clients[b]
    BY DEF ReachInv, TasksReachable, Connected
  <2> QED BY <1>1, <2>1 DEF Retained
<1>3. clients' = clients /\ live' = live
  BY <1>2 DEF Data
<1>4. \A j \in Ids : task'[j].addr = task[j].addr /\ task'[j].stop = task[j].stop
  BY <1>1 DEF Data, Task
<1> QED BY <1>3, <1>4, SameReaches

LEMMA TaskReaches ==
  ASSUME ReachInv, NEW i \in Ids, Receive(i) \/ HandleSubframe(i)
  PROVE  TasksReachable'
<1>1. task \in [Ids -> Task]
  BY DEF ReachInv, ServerTypeOK
<1>2. clients' = clients /\ live' = live
  BY DEF Receive, HandleSubframe
<1>3. \A j \in Ids : task'[j].addr = task[j].addr /\ task'[j].stop = task[j].stop
  <2>1. CASE Receive(i)
    BY <2>1, <1>1 DEF Receive, Task
  <2>2. CASE HandleSubframe(i)
    BY <2>2, <1>1 DEF HandleSubframe, Task
  <2> QED BY <2>1, <2>2
<1> QED BY <1>2, <1>3, SameReaches

\* A task that ends was told to, so no entry leads to it.
LEMMA EndReaches ==
  ASSUME ReachInv, NEW i \in Ids, End(i)
  PROVE  TasksReachable'
<1>1. /\ live' = live \ {i} /\ clients' = clients /\ task[i].stop
      /\ task' = [task EXCEPT ![i] = Ended]
  BY DEF End
<1>2. live \subseteq Ids /\ task \in [Ids -> Task]
  BY DEF ReachInv, ServerTypeOK
<1>3. \A j \in live' : j \in live /\ task'[j] = task[j]
  BY <1>1, <1>2
<1>4. \A b \in Connected : clients[b] \in live /\ clients[b] # i
  BY <1>1 DEF ReachInv, TasksReachable
<1>5. \A j \in live' : task'[j].stop \/ clients'[task'[j].addr] = j
  BY <1>1, <1>3 DEF ReachInv, TasksReachable
<1>6. \A b \in Connected' : /\ clients'[b] \in live'
                            /\ task'[clients'[b]].addr = b /\ ~task'[clients'[b]].stop
  BY <1>1, <1>3, <1>4 DEF ReachInv, TasksReachable, Connected
<1> QED BY <1>5, <1>6 DEF TasksReachable

LEMMA StepReaches ==
  ASSUME ReachInv, [ServerNext]_serverVars
  PROVE  TasksReachable'
<1>1. CASE UNCHANGED serverVars
  BY <1>1, SameReaches DEF serverVars
<1>2. ASSUME NEW a \in Addrs, Start(a) \/ Stop(a) \/ \E f \in Frames : Data(a, f)
      PROVE  TasksReachable'
  BY <1>2, StartReaches, StopReaches, DataReaches
<1>3. ASSUME NEW i \in Ids, TaskStep(i)
      PROVE  TasksReachable'
  BY <1>3, TaskReaches, EndReaches DEF TaskStep
<1> QED BY <1>1, <1>2, <1>3 DEF ServerNext

-----------------------------------------------------------------------------
(* A recording with a signal in it is committed by its last transmitter.   *)
(* Outside loop mode nothing is recorded that could be.                    *)

Committed(e) ==
  /\ e \in Echo
  /\ e.mode # "Loop" => \A f \in Freqs : ~e.sounding[f]
  /\ \A f \in Freqs : e.active_count[f] = 0 /\ e.sounding[f] => f \in e.echoes
  /\ 0 \notin e.echoes

LEMMA StartCommitted ==
  ASSUME NEW e, Committed(e), NEW f \in Freqs, NEW a \in Addrs, NEW resume \in BOOLEAN
  PROVE  Committed(StartRecording(e, f, a, resume))
<1> DEFINE n == StartRecording(e, f, a, resume)
           s == [e.sounding EXCEPT
                   ![f] = @ /\ (e.active_count[f] = 0 => e.mode = "Loop" /\ resume)]
<1>1. EchoBecomes(e, n, [e.active_count EXCEPT ![f] = @ + 1])
  BY StartCounts DEF Committed
<1>2. n.echoes = e.echoes /\ n.sounding = s
  BY Zenon DEF StartRecording, Committed, Echo
<1>3. e.active_count \in [Freqs -> Nat] /\ e.sounding \in [Freqs -> BOOLEAN]
  BY DEF Committed, Echo
<1>4. \A g \in Freqs : s[g] => e.sounding[g]
  BY <1>3, Zenon
<1>5. n \in Echo /\ n.mode = e.mode
  BY <1>1 DEF EchoBecomes
<1>6. \A g \in Freqs : n.active_count[g] = 0 => e.active_count[g] = 0
  BY <1>1, <1>3 DEF EchoBecomes
<1> HIDE DEF s, n
<1>7. \A g \in Freqs : n.sounding[g] => e.sounding[g]
  BY <1>2, <1>4
<1>8. Committed(n)
  BY <1>2, <1>5, <1>6, <1>7 DEF Committed
<1> QED BY <1>8 DEF n

LEMMA FeedCommitted ==
  ASSUME NEW e, Committed(e), NEW f \in Freqs, NEW signal \in BOOLEAN, NEW forgets \in BOOLEAN
  PROVE  Committed(Feed(e, f, signal, forgets))
<1> DEFINE n == Feed(e, f, signal, forgets)
<1>1. n \in Echo /\ n.mode = e.mode /\ n.active_count = e.active_count
  BY FeedCounts DEF Committed, EchoBecomes
<1>2. n.echoes = e.echoes
  BY DEF Feed, Committed, Echo
<1>3. CASE e.active_count[f] > 0 /\ e.mode = "Loop"
  <2>1. \A g \in Freqs : g # f => n.sounding[g] = e.sounding[g]
    BY <1>3 DEF Feed, Committed, Echo
  <2> HIDE DEF n
  <2>2. n.active_count[f] # 0
    BY <1>1, <1>3 DEF Committed, Echo
  <2>3. Committed(n)
    BY <1>1, <1>2, <1>3, <2>1, <2>2 DEF Committed
  <2> QED BY <2>3 DEF n
<1>4. CASE ~(e.active_count[f] > 0 /\ e.mode = "Loop")
  BY <1>4 DEF Feed
<1> QED BY <1>3, <1>4

LEMMA StopCommitted ==
  ASSUME NEW e, Committed(e), NEW f \in Freqs, NEW a \in Addrs
  PROVE  Committed(StopRecording(e, f, a))
<1> DEFINE n == StopRecording(e, f, a)
           o == [e.offsets EXCEPT ![f] = IF e.mode = "Live" THEN @ \ {a} ELSE @]
           c == [e.active_count EXCEPT ![f] = @ - 1]
           left == [e EXCEPT !.active_count = c, !.offsets = o]
<1>1. CASE e.active_count[f] = 0
  BY <1>1 DEF StopRecording
<1>2. CASE e.active_count[f] # 0
  <2>1. n \in Echo /\ n.mode = e.mode /\ n.active_count = c
    BY <1>2, StopCounts DEF Committed, EchoBecomes
  <2>2. n = IF left.active_count[f] = 0 /\ e.mode = "Loop" THEN Commit(left, f) ELSE left
    BY <1>2 DEF StopRecording
  <2>3. /\ left.echoes = e.echoes /\ left.sounding = e.sounding /\ left.active_count = c
        /\ e.sounding \in [Freqs -> BOOLEAN] /\ e.active_count \in [Freqs -> Nat]
    BY DEF Committed, Echo
  <2>4. \A g \in Freqs : g # f => c[g] = e.active_count[g]
    BY <2>3
  <2>5. CASE c[f] = 0 /\ e.mode = "Loop"
    <3> HIDE DEF c, o
    <3>1. n = Commit(left, f)
      BY <2>2, <2>3, <2>5
    <3>2. \A g \in Freqs : g # f => n.sounding[g] = e.sounding[g]
      BY <3>1, <2>3 DEF Commit, Committed, Echo
    <3>3. /\ n.sounding[f] => f \in n.echoes
          /\ e.echoes \subseteq n.echoes
          /\ n.echoes \subseteq e.echoes \union {f}
          /\ f = 0 => n.echoes = e.echoes
      BY <3>1, <2>3 DEF Commit, Committed, Echo
    <3> HIDE DEF n, left
    <3>4. \A g \in Freqs : n.active_count[g] = 0 /\ n.sounding[g] => g \in n.echoes
      BY <2>1, <2>4, <3>2, <3>3 DEF Committed
    <3>5. 0 \notin n.echoes
      BY <3>3 DEF Committed
    <3>6. Committed(n)
      BY <2>1, <2>5, <3>4, <3>5 DEF Committed
    <3> QED BY <3>6 DEF n
  <2>6. CASE ~(c[f] = 0 /\ e.mode = "Loop")
    <3> HIDE DEF c, o
    <3>1. n = left
      BY <2>2, <2>3, <2>6
    <3> HIDE DEF n, left
    <3>2. \A g \in Freqs : n.active_count[g] = 0 /\ n.sounding[g] => g \in n.echoes
      BY <2>1, <2>3, <2>4, <2>6, <3>1 DEF Committed
    <3>3. Committed(n)
      BY <2>1, <2>3, <3>1, <3>2 DEF Committed
    <3> QED BY <3>3 DEF n
  <2> QED BY <2>5, <2>6
<1> QED BY <1>1, <1>2

LEMMA InitCommitted == ServerInit => Committed(echo)
  BY ServerAssumption DEF ServerInit, NewEcho, Echo, Committed

LEMMA HandleSubframeCommitted ==
  ASSUME SessionInv, Committed(echo), NEW i \in Ids, HandleSubframe(i)
  PROVE  Committed(echo')
<1> DEFINE sf == Head(task[i].frame)
           rec == RecordingFreq(task[i], sf)
           old == task[i].recording_freq
<1>1. /\ task[i] \in Task /\ task[i].frame \in Seq(Subframe) /\ task[i].frame # <<>>
  BY DEF SessionInv, ServerTypeOK, Task, HandleSubframe
<1>2. /\ sf \in Subframe /\ task[i].addr \in Addrs /\ old \in Freqs \union {NoFreq}
      /\ task[i].tx_frequency \in Freqs
  BY <1>1 DEF Task
<1>3. sf.mox \in BOOLEAN /\ sf.signal \in BOOLEAN /\ TxFrequency(task[i], sf) \in Freqs
  BY <1>2 DEF Subframe, TxFrequency
<1>4. CASE echo.mode = "Off"
  BY <1>4 DEF HandleSubframe
<1>5. CASE echo.mode # "Off"
  <2>1. PICK resume \in BOOLEAN, forgets \in BOOLEAN :
          echo' = Echoed(task[i], sf, resume, forgets)
    BY <1>5, Zenon DEF HandleSubframe
  <2>2. rec = IF sf.mox = task[i].ptt THEN old
              ELSE IF sf.mox THEN TxFrequency(task[i], sf) ELSE NoFreq
    BY <1>5, Zenon DEF RecordingFreq
  <2> DEFINE switched ==
               IF sf.mox = task[i].ptt THEN echo
               ELSE IF sf.mox THEN StartRecording(echo, rec, task[i].addr, resume)
               ELSE IF old # NoFreq THEN StopRecording(echo, old, task[i].addr) ELSE echo
  <2>3. echo' = IF sf.mox /\ rec # NoFreq THEN Feed(switched, rec, sf.signal, forgets)
                ELSE switched
    BY <2>1, Zenon DEF Echoed
  <2>4. rec \in Freqs \union {NoFreq}
    BY <1>2, <1>3, <2>2
  <2> HIDE DEF sf, rec, old
  <2>5. Committed(switched)
    <3>1. CASE sf.mox = task[i].ptt
      BY <3>1
    <3>2. CASE sf.mox # task[i].ptt /\ sf.mox
      BY <3>2, <1>2, <1>3, <2>2, StartCommitted
    <3>3. CASE sf.mox # task[i].ptt /\ ~sf.mox
      BY <3>3, <1>2, StopCommitted
    <3> QED BY <3>1, <3>2, <3>3
  <2> HIDE DEF switched
  <2> QED BY <2>3, <2>4, <2>5, <1>3, FeedCommitted
<1> QED BY <1>4, <1>5

LEMMA EndCommitted ==
  ASSUME SessionInv, Committed(echo), NEW i \in Ids, End(i)
  PROVE  Committed(echo')
<1>1. task[i].addr \in Addrs /\ task[i].recording_freq \in Freqs \union {NoFreq}
  BY DEF SessionInv, ServerTypeOK, Task
<1> QED BY <1>1, StopCommitted DEF End

LEMMA StepCommitted ==
  ASSUME SessionInv, Committed(echo), [ServerNext]_serverVars
  PROVE  Committed(echo')
<1>1. CASE UNCHANGED echo
  BY <1>1
<1>2. ASSUME NEW a \in Addrs, Start(a) \/ Stop(a) \/ \E f \in Frames : Data(a, f)
      PROVE  Committed(echo')
  BY <1>2, <1>1 DEF Start, Stop, Data
<1>3. ASSUME NEW i \in Ids, TaskStep(i)
      PROVE  Committed(echo')
  BY <1>3, <1>1, HandleSubframeCommitted, EndCommitted DEF TaskStep, Receive
<1> QED BY <1>1, <1>2, <1>3 DEF ServerNext, serverVars

-----------------------------------------------------------------------------
(* The theorems.                                                           *)

LEMMA SessionAlways == ServerSpec => []SessionInv
<1>1. ServerInit => SessionInv
  BY InitSession
<1>2. SessionInv /\ [ServerNext]_serverVars => SessionInv'
  BY StepSession
<1> QED BY <1>1, <1>2, PTL DEF ServerSpec

\* Types: whatever the clients send, a queue keeps to its capacity (try_send in
\* run_emulator) and the table leads to tasks only.
THEOREM ServerTypeCorrect == ServerSpec => []ServerTypeOK
<1>1. SessionInv => ServerTypeOK
  BY DEF SessionInv
<1> QED BY <1>1, SessionAlways, PTL

\* The active count of a frequency (FreqRecorder::active_count) is the number
\* of tasks recording on it: no recorder leaks, none is released twice.
THEOREM RefCountAlways == ServerSpec => []RefCount
<1>1. SessionInv => RefCount
  BY DEF SessionInv
<1> QED BY <1>1, SessionAlways, PTL

\* A task records exactly while its PTT is on (ClientState::recording_freq).
THEOREM RecordingIffPttAlways == ServerSpec => []RecordingIffPtt
<1>1. SessionInv => RecordingIffPtt
  BY DEF SessionInv
<1> QED BY <1>1, SessionAlways, PTL

\* The shared recorders and the tasks never disagree on who records.
THEOREM RecordersAgreeAlways == ServerSpec => []RecordersAgree
<1>1. RefCount /\ RecordingIffPtt => RecordersAgree
  BY DEF RecordersAgree
<1> QED BY <1>1, RefCountAlways, RecordingIffPttAlways, PTL

\* Every live task can still be told to stop, through its signal or its entry
\* in the table (ClientEntry), in any order of starts, stops and data packets:
\* Start makes an entry where there was none, and Stop signals what it removes.
THEOREM TasksReachableAlways == ServerSpec => []TasksReachable
<1>1. ServerInit => TasksReachable
  BY DEF ServerInit, TasksReachable, Connected
<1>2. ServerTypeOK /\ TasksReachable /\ [ServerNext]_serverVars => TasksReachable'
  BY StepReaches DEF ReachInv
<1> QED BY <1>1, <1>2, ServerTypeCorrect, PTL DEF ServerSpec

\* In loop mode (EchoBuffer::commit_freq) a recording with a signal in it is on
\* the air once its last transmitter has let go, and frequency 0 never is.
THEOREM LoopCommittedAlways == ServerSpec => []LoopCommitted
<1>1. ServerInit => Committed(echo)
  BY InitCommitted
<1>2. SessionInv /\ Committed(echo) /\ [ServerNext]_serverVars => Committed(echo)'
  BY StepCommitted
<1>3. Committed(echo) => LoopCommitted
  BY DEF Committed, LoopCommitted
<1> QED BY <1>1, <1>2, <1>3, SessionAlways, PTL DEF ServerSpec
=============================================================================
