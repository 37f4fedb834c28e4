-------------------------- MODULE PaddleInputProofs --------------------------
(***************************************************************************)
(* Of the paddle inputs, for any number of sources of any kinds, any       *)
(* bindings and messages, and however often paddles move and cables are    *)
(* pulled: no wake-up is lost, every state is of its type, and no source   *)
(* but a serial port's shows a state its paddles have not been in.  The    *)
(* last two need what drain_events makes of a whole channel: that the fold *)
(* in Drained goes through the events one by one, by induction over their  *)
(* number.                                                                 *)
(***************************************************************************)
EXTENDS PaddleInput, TLAPS, WellFoundedInduction

\* Of the types, those the argument needs.
WakeTypes ==
  /\ DOMAIN channel = Sources
  /\ unnotified \in [Sources -> Nat]
  /\ flag \in [Sources -> BOOLEAN]
  /\ pc \in [Sources -> ThreadPcs]
  /\ \A s \in Sources : pc[s] = "half" => kind[s] # "keyboard"
  /\ merged_generation \in Nat /\ last_generation \in Nat

\* A keyboard's event that is not seen yet is one somebody will notify of, if
\* its waiter is past its last look.
KeyboardAwake(s) ==
  kind[s] = "keyboard" /\ pc[s] = "waiting" /\ ~flag[s] /\ channel[s] # <<>>
    => unnotified[s] > 0

\* The keyer's generation is of the past, or its state is the merged one.
KeyerAwake ==
  /\ last_generation <= merged_generation
  /\ last_generation = merged_generation => keyer_paddle = paddle

WakeInv == WakeTypes /\ (\A s \in Sources : KeyboardAwake(s)) /\ KeyerAwake

LEMMA WakeInvImplies == WakeInv => NoLostWake
  BY DEF WakeInv, KeyboardAwake, KeyerAwake, NoLostWake

LEMMA WakeInit == PaddleInit => WakeInv
  BY DEF PaddleInit, WakeInv, WakeTypes, KeyboardAwake, KeyerAwake, ThreadPcs

-----------------------------------------------------------------------------
(* What a step that keeps the keyboards, or the keyer, awake leaves alone. *)

keyerView == <<merged_generation, last_generation, paddle, keyer_paddle>>

\* A step in which every source's waiting room is as it was, or quieter.
LEMMA WorldKeeps ==
  ASSUME WakeInv, NEW s \in Sources, World(s)
  PROVE  WakeInv'
<1>1. WakeTypes' /\ KeyerAwake'
  BY DEF WakeInv, WakeTypes, KeyerAwake, World, Touch, Unplug, wakeVars, threadVars,
         mergedVars, keyerVars
<1>2. ASSUME NEW t \in Sources PROVE KeyboardAwake(t)'
  <2>1. CASE \E p \in Paddles : Touch(s, p)
    <3>1. PICK p \in Paddles : Touch(s, p)
      BY <2>1
    <3>2. UNCHANGED <<kind, flag, pc>>
      BY <3>1 DEF Touch, threadVars
    <3>3. CASE kind[s] = "keyboard"
      <4>1. unnotified' = [unnotified EXCEPT ![s] = @ + 1]
            /\ \E e : channel' = [channel EXCEPT ![s] = e]
        BY <3>1, <3>3 DEF Touch, IsMidi, HasChannel
      <4>2. unnotified'[s] > 0 /\ (t # s => unnotified'[t] = unnotified[t] /\ channel'[t] = channel[t])
        BY <4>1 DEF WakeInv, WakeTypes
      <4> QED BY <3>2, <4>2 DEF WakeInv, KeyboardAwake
    <3>4. CASE kind[s] # "keyboard"
      <4>1. UNCHANGED unnotified
            /\ (UNCHANGED channel \/ \E e : channel' = [channel EXCEPT ![s] = e])
        BY <3>1, <3>4 DEF Touch
      <4>2. t # s => channel'[t] = channel[t]
        BY <4>1 DEF WakeInv, WakeTypes
      <4> QED BY <3>2, <3>4, <4>1, <4>2 DEF WakeInv, KeyboardAwake
    <3> QED BY <3>3, <3>4
  <2>2. CASE Unplug(s)
    BY <2>2 DEF Unplug, wakeVars, threadVars, WakeInv, KeyboardAwake
  <2> QED BY <2>1, <2>2 DEF World
<1> QED BY <1>1, <1>2 DEF WakeInv

LEMMA FillerKeeps ==
  ASSUME WakeInv, NEW s \in Sources, Filler(s) \/ PortError(s) \/ PollError(s) \/ PollEnds(s)
  PROVE  WakeInv'
<1>1. UNCHANGED <<kind, pc, merged_generation, last_generation, paddle, keyer_paddle>>
  BY DEF Filler, Notify, HandleMessage, PollModem, PortError, PollError, PollEnds,
         worldVars, threadVars, mergedVars, keyerVars
<1>2. CASE Notify(s)
  <2>1. flag' = [flag EXCEPT ![s] = TRUE] /\ unnotified' = [unnotified EXCEPT ![s] = @ - 1]
        /\ unnotified[s] > 0 /\ UNCHANGED channel
    BY <1>2 DEF Notify
  <2> QED BY <1>1, <2>1 DEF WakeInv, WakeTypes, KeyboardAwake, KeyerAwake
<1>3. CASE HandleMessage(s)
  <2>1. kind[s] # "keyboard" /\ UNCHANGED <<unnotified, flag>>
        /\ channel' = [channel EXCEPT ![s] = Tail(@)]
    BY <1>3 DEF HandleMessage, IsMidi
  <2> QED BY <1>1, <2>1 DEF WakeInv, WakeTypes, KeyboardAwake, KeyerAwake
<1>4. CASE PollModem(s) \/ PortError(s) \/ PollError(s) \/ PollEnds(s)
  <2>1. UNCHANGED wakeVars
    BY <1>4 DEF PollModem, PortError, PollError, PollEnds
  <2> QED BY <1>1, <2>1 DEF wakeVars, WakeInv, WakeTypes, KeyboardAwake, KeyerAwake
<1> QED BY <1>2, <1>3, <1>4 DEF Filler

\* A thread's step but Report moves the thread, and drains its own channel or
\* clears its own flag as it leaves the wait.
LEMMA StepKeeps ==
  ASSUME WakeInv, NEW s \in Sources, NEW l \in ThreadPcs, Goto(s, l),
         l = "half" => kind[s] # "keyboard",
         UNCHANGED <<kind, unnotified, keyerView>>,
         kind[s] = "keyboard" /\ l = "waiting" => channel[s] = <<>> /\ UNCHANGED channel,
         UNCHANGED channel \/ channel' = [channel EXCEPT ![s] = <<>>],
         UNCHANGED flag \/ (flag' = [flag EXCEPT ![s] = FALSE] /\ l # "waiting")
  PROVE  WakeInv'
<1>1. WakeTypes' /\ KeyerAwake'
  BY DEF WakeInv, WakeTypes, KeyerAwake, Goto, keyerView
<1>2. ASSUME NEW t \in Sources PROVE KeyboardAwake(t)'
  <2>1. CASE t = s
    BY <2>1 DEF Goto, WakeInv, WakeTypes, KeyboardAwake
  <2>2. CASE t # s
    BY <2>2 DEF Goto, WakeInv, WakeTypes, KeyboardAwake
  <2> QED BY <2>1, <2>2
<1> QED BY <1>1, <1>2 DEF WakeInv

LEMMA ThreadKeeps ==
  ASSUME WakeInv, NEW s \in Sources, Thread(s)
  PROVE  WakeInv'
<1> USE DEF ThreadPcs, keyerView, worldVars, wakeVars, mergedVars, keyerVars
<1>1. CASE Begin(s) \/ Close(s) \/ End(s)
  BY <1>1, StepKeeps DEF Begin, Close, End
<1>2. CASE Report(s)
  <2>1. UNCHANGED <<kind, channel, unnotified, flag, last_generation, keyer_paddle>>
        /\ Goto(s, "top")
    BY <1>2 DEF Report
  <2>2. \/ merged_generation' = merged_generation + 1
        \/ UNCHANGED <<merged_generation, paddle>>
    BY <1>2 DEF Report
  <2>3. WakeTypes' /\ KeyerAwake'
    BY <2>1, <2>2 DEF WakeInv, WakeTypes, KeyerAwake, Goto
  <2>4. ASSUME NEW t \in Sources PROVE KeyboardAwake(t)'
    BY <2>1 DEF WakeInv, WakeTypes, KeyboardAwake, Goto
  <2> QED BY <2>3, <2>4 DEF WakeInv
<1>3. CASE KeyboardEnter(s) \/ KeyboardCheck(s)
  <2>1. CASE KeyboardEnter(s)
    BY <2>1, StepKeeps DEF KeyboardEnter, Drain
  <2>2. CASE KeyboardCheck(s)
    <3>1. CASE channel[s] = <<>>
      BY <2>2, <3>1, StepKeeps DEF KeyboardCheck
    <3>2. CASE channel[s] # <<>>
      BY <2>2, <3>2, StepKeeps DEF KeyboardCheck
    <3> QED BY <3>1, <3>2
  <2> QED BY <1>3, <2>1, <2>2
<1>4. CASE KeyboardWake(s)
  BY <1>4, StepKeeps DEF KeyboardWake
<1>5. CASE KeyboardReturn(s)
  BY <1>5, StepKeeps DEF KeyboardReturn, Drain, Got
<1>6. CASE SharedEnter(s) \/ SharedReturn(s)
  BY <1>6, StepKeeps DEF SharedEnter, SharedReturn, Got, IsShared, IsMidi
<1>7. CASE SerialEnter(s) \/ SampleDit(s)
  BY <1>7, StepKeeps DEF SerialEnter, SampleDit
<1>8. CASE SerialReturn(s) \/ SerialAgain(s)
  <2>1. CASE SerialReturn(s)
    BY <2>1, StepKeeps DEF SerialReturn, Got
  <2>2. CASE SerialAgain(s)
    <3>1. kind[s] # "keyboard"
      BY <2>2 DEF SerialAgain, WakeInv, WakeTypes
    <3> QED BY <2>2, <3>1, StepKeeps DEF SerialAgain
  <2> QED BY <1>8, <2>1, <2>2
<1> QED BY <1>1, <1>2, <1>3, <1>4, <1>5, <1>6, <1>7, <1>8 DEF Thread

LEMMA KeyerKeeps ==
  ASSUME WakeInv, Waits \/ KeyerStops \/ Joined
  PROVE  WakeInv'
<1> USE DEF worldVars, wakeVars, threadVars, mergedVars
<1>1. UNCHANGED <<kind, channel, unnotified, flag, pc, merged_generation, paddle>>
  BY DEF Waits, KeyerEnter, KeyerReturn, KeyerTake, KeyerStops, Joined
<1>2. \/ last_generation' = merged_generation /\ keyer_paddle' = paddle
      \/ UNCHANGED <<last_generation, keyer_paddle>>
  BY DEF Waits, KeyerEnter, KeyerReturn, KeyerTake, KeyerStops, Joined
<1> QED BY <1>1, <1>2 DEF WakeInv, WakeTypes, KeyboardAwake, KeyerAwake

\* No change is slept through: not by a keyboard's reader
\* (KeyboardPaddle::wait_for_change, KeyboardPaddleSender::send), nor by the
\* keyer (MergedPaddleInput::wait_for_change).
THEOREM NoLostWakeAlways == PaddleSpec => []NoLostWake
<1>1. WakeInv /\ [PaddleNext]_paddleVars => WakeInv'
  <2> SUFFICES ASSUME WakeInv, [PaddleNext]_paddleVars PROVE WakeInv'
    OBVIOUS
  <2>1. ASSUME NEW s \in Sources, World(s) PROVE WakeInv'
    BY <2>1, WorldKeeps
  <2>2. ASSUME NEW s \in Sources, Filler(s) \/ PortError(s) \/ PollError(s) \/ PollEnds(s)
        PROVE WakeInv'
    BY <2>2, FillerKeeps
  <2>3. ASSUME NEW s \in Sources, Thread(s) PROVE WakeInv'
    BY <2>3, ThreadKeeps
  <2>4. CASE Waits \/ KeyerStops \/ Joined
    BY <2>4, KeyerKeeps
  <2>5. CASE Over \/ UNCHANGED paddleVars
    BY <2>5 DEF Over, paddleVars, worldVars, wakeVars, threadVars, mergedVars, keyerVars,
                WakeInv, WakeTypes, KeyboardAwake, KeyerAwake
  <2> QED BY <2>1, <2>2, <2>3, <2>4, <2>5 DEF PaddleNext
<1> QED BY <1>1, WakeInit, WakeInvImplies, PTL DEF PaddleSpec

-----------------------------------------------------------------------------
(* Induction, and the greatest of some numbers.                            *)

LEMMA LeastElement ==
  ASSUME NEW T, T \subseteq Nat, T # {}
  PROVE  \E x \in T : \A y \in T : x <= y
<1> DEFINE R == {ss \in Nat \X Nat : ss[1] < ss[2]}
<1>1. IsWellFoundedOn(R, Nat)
  BY NatLessThanWellFounded, Zenon DEF OpToRel
<1>2. PICK x \in T : \A y \in T : ~(<<y, x>> \in R)
  <2> HIDE DEF R
  <2> QED BY <1>1, WFMin
<1>3. \A y \in T : ~(y < x)
  BY <1>2
<1> QED BY <1>3

LEMMA SetInduction ==
  ASSUME NEW T, 0 \in T, \A n \in Nat : n \in T => n + 1 \in T
  PROVE  Nat \subseteq T
<1> DEFINE U == Nat \ T
<1>1. ASSUME U # {} PROVE FALSE
  <2>1. PICK x \in U : \A y \in U : x <= y BY <1>1, LeastElement
  <2>2. x # 0 /\ x - 1 \in Nat /\ x - 1 \notin U BY <2>1
  <2> QED BY <2>1, <2>2
<1> QED BY <1>1

LEMMA GreatestElement ==
  ASSUME NEW n \in Nat, NEW T, T \subseteq 1..n, T # {}
  PROVE  Max(T) \in T /\ \A y \in T : Max(T) >= y
<1> DEFINE D == {d \in Nat : n - d \in T}
<1>1. D \subseteq Nat /\ D # {}
  <2>1. PICK y \in T : TRUE OBVIOUS
  <2>2. n - y \in Nat /\ n - (n - y) = y BY <2>1
  <2> QED BY <2>1, <2>2
<1>2. PICK d \in D : \A y \in D : d <= y
  <2> HIDE DEF D
  <2> QED BY <1>1, LeastElement
<1>3. ASSUME NEW y \in T PROVE n - d >= y
  <2>1. y \in 1..n /\ n - y \in Nat /\ n - (n - y) = y OBVIOUS
  <2>2. n - y \in D BY <2>1
  <2> QED BY <1>2, <2>1, <2>2
<1> QED BY <1>2, <1>3 DEF Max

-----------------------------------------------------------------------------
(* drain_events.                                                           *)

\* Events, as the channel of a keyboard holds them.
Events == Paddles \X BOOLEAN

\* The fold's own recursion, for the operation of drain_events.
Folder(c, known) ==
  CHOOSE iter : iter = [s \in SUBSET DOMAIN c |->
                          IF s = {} THEN known ELSE LET x == Max(s)
                                                    IN Apply(iter[s \ {x}], c[x])]

LEMMA FoldUnfold ==
  ASSUME NEW known, NEW c
  PROVE  FoldLeft(Apply, known, c) = Folder(c, known)[DOMAIN c]
BY Zenon DEF FoldLeft, MapThenFoldSet, Folder

\* A function that satisfies it: the last event of a paddle decides.
About(c, s, p) == {i \in s : c[i][1] = p}
LastWord(c, known, s) ==
  {p \in Paddles : IF About(c, s, p) = {} THEN p \in known ELSE c[Max(About(c, s, p))][2]}

LEMMA LastWordStep ==
  ASSUME NEW c \in Seq(Events), NEW known \in PaddleState,
         NEW s \in SUBSET DOMAIN c, s # {}
  PROVE  LastWord(c, known, s) = Apply(LastWord(c, known, s \ {Max(s)}), c[Max(s)])
<1> DEFINE m == Max(s)
           e == c[m]
           rest == s \ {m}
<1>1. DOMAIN c = 1..Len(c) /\ Len(c) \in Nat
  OBVIOUS
<1>2. m \in s /\ \A y \in s : m >= y
  BY <1>1, GreatestElement
<1>3. e \in Events /\ e[1] \in Paddles /\ e[2] \in BOOLEAN
  BY <1>1, <1>2 DEF Events
<1> HIDE DEF m
<1>4. ASSUME NEW p \in Paddles, p # e[1] PROVE About(c, s, p) = About(c, rest, p)
  BY <1>4 DEF About
<1>5. About(c, s, e[1]) # {} /\ Max(About(c, s, e[1])) = m
  <2>1. m \in About(c, s, e[1]) /\ About(c, s, e[1]) \subseteq s
    BY <1>2 DEF About
  <2> DEFINE T == About(c, s, e[1])
  <2>2. Max(T) \in T /\ \A y \in T : Max(T) >= y
    <3>1. T \subseteq 1..Len(c) /\ T # {} BY <1>1, <2>1
    <3> HIDE DEF T
    <3> QED BY <1>1, <3>1, GreatestElement
  <2> HIDE DEF T
  <2>3. Max(T) >= m /\ m >= Max(T) /\ Max(T) \in 1..Len(c) /\ m \in 1..Len(c)
    BY <1>1, <1>2, <2>1, <2>2 DEF T
  <2> QED BY <2>1, <2>3 DEF T
<1>6. ASSUME NEW p \in Paddles
      PROVE  p \in LastWord(c, known, s) <=> p \in Apply(LastWord(c, known, rest), e)
  <2>1. CASE p = e[1]
    <3>1. p \in LastWord(c, known, s) <=> e[2]
      BY <1>5, <2>1 DEF LastWord
    <3> QED BY <2>1, <3>1, <1>3 DEF Apply
  <2>2. CASE p # e[1]
    <3>1. p \in LastWord(c, known, s) <=> p \in LastWord(c, known, rest)
      BY <1>4, <2>2 DEF LastWord
    <3> QED BY <2>2, <3>1, <1>3 DEF Apply
  <2> QED BY <2>1, <2>2
<1>7. LastWord(c, known, s) \subseteq Paddles /\ Apply(LastWord(c, known, rest), e) \subseteq Paddles
  BY <1>3 DEF LastWord, Apply
<1>8. LastWord(c, known, s) = Apply(LastWord(c, known, rest), e)
  BY <1>6, <1>7
<1> QED BY <1>8 DEF m

LEMMA FolderUnfolds ==
  ASSUME NEW c \in Seq(Events), NEW known \in PaddleState
  PROVE  /\ Folder(c, known)[{}] = known
         /\ \A s \in SUBSET DOMAIN c : s # {} =>
              Folder(c, known)[s] = Apply(Folder(c, known)[s \ {Max(s)}], c[Max(s)])
<1> DEFINE H == [s \in SUBSET DOMAIN c |-> LastWord(c, known, s)]
           Step(f) == [s \in SUBSET DOMAIN c |->
                         IF s = {} THEN known ELSE Apply(f[s \ {Max(s)}], c[Max(s)])]
<1>1. LastWord(c, known, {}) = known
  BY DEF LastWord, About, PaddleState
<1>2. ASSUME NEW s \in SUBSET DOMAIN c
      PROVE  H[s] = IF s = {} THEN known ELSE Apply(H[s \ {Max(s)}], c[Max(s)])
  <2>1. CASE s = {} BY <1>1, <2>1
  <2>2. CASE s # {}
    <3>1. LastWord(c, known, s) = Apply(LastWord(c, known, s \ {Max(s)}), c[Max(s)])
      BY <2>2, LastWordStep
    <3>2. s \ {Max(s)} \in SUBSET DOMAIN c OBVIOUS
    <3> QED BY <2>2, <3>1, <3>2
  <2> QED BY <2>1, <2>2
<1>3. H = Step(H)
  <2>1. H = [s \in SUBSET DOMAIN c |-> H[s]] OBVIOUS
  <2> HIDE DEF H
  <2> QED BY <1>2, <2>1
<1> HIDE DEF H
<1>4. Folder(c, known) = Step(Folder(c, known))
  <2>1. \E iter : iter = Step(iter) BY <1>3
  <2> QED BY <2>1, Zenon DEF Folder
<1> HIDE DEF Folder
<1>5. Step(Folder(c, known))[{}] = known
  OBVIOUS
<1>6. ASSUME NEW s \in SUBSET DOMAIN c, s # {}
      PROVE  Step(Folder(c, known))[s] = Apply(Folder(c, known)[s \ {Max(s)}], c[Max(s)])
  BY <1>6
<1> HIDE DEF Step
<1> QED BY <1>4, <1>5, <1>6

\* From one event to the next.
LEMMA FolderOnEvents ==
  ASSUME NEW c \in Seq(Events), NEW known \in PaddleState
  PROVE  /\ Folder(c, known)[1..0] = known
         /\ \A i \in Nat : i + 1 <= Len(c) =>
              Folder(c, known)[1..(i + 1)] = Apply(Folder(c, known)[1..i], c[i + 1])
<1>1. DOMAIN c = 1..Len(c) /\ Len(c) \in Nat
  OBVIOUS
<1>2. 1..0 = {}
  OBVIOUS
<1>3. ASSUME NEW i \in Nat, i + 1 <= Len(c)
      PROVE  Folder(c, known)[1..(i + 1)] = Apply(Folder(c, known)[1..i], c[i + 1])
  <2> DEFINE s == 1..(i + 1)
  <2>1. s \in SUBSET DOMAIN c /\ s # {} /\ s \subseteq 1..(i + 1) /\ i + 1 \in s
    <3>1. i + 1 \in s OBVIOUS
    <3>2. s \subseteq DOMAIN c BY <1>1, <1>3
    <3> QED BY <3>1, <3>2
  <2>2. Max(s) = i + 1
    <3>1. Max(s) \in s /\ \A y \in s : Max(s) >= y
      <4> HIDE DEF s
      <4> QED BY <2>1, GreatestElement
    <3> QED BY <2>1, <3>1
  <2>3. s \ {i + 1} = 1..i
    OBVIOUS
  <2> HIDE DEF s
  <2>4. Folder(c, known)[s] = Apply(Folder(c, known)[s \ {Max(s)}], c[Max(s)])
    BY <2>1, FolderUnfolds
  <2> QED BY <2>2, <2>3, <2>4 DEF s
<1> QED BY <1>2, <1>3, FolderUnfolds

\* The states a source goes through as it applies its events one by one.
Trail(q, c, known) ==
  q[0] = known /\ \A i \in 1..Len(c) : q[i] = Apply(q[i - 1], c[i])

LEMMA DrainFollowsTrail ==
  ASSUME NEW c \in Seq(Events), NEW known \in PaddleState, NEW q, Trail(q, c, known)
  PROVE  FoldLeft(Apply, known, c) = q[Len(c)]
<1> DEFINE F == Folder(c, known)
           T == {i \in Nat : i <= Len(c) => F[1..i] = q[i]}
<1>1. DOMAIN c = 1..Len(c) /\ Len(c) \in Nat
  OBVIOUS
<1>2. 0 \in T
  BY FolderOnEvents DEF Trail
<1>3. ASSUME NEW i \in Nat, i \in T PROVE i + 1 \in T
  <2> SUFFICES ASSUME i + 1 <= Len(c) PROVE F[1..(i + 1)] = q[i + 1]
    OBVIOUS
  <2>1. F[1..i] = q[i]
    BY <1>1, <1>3
  <2>2. i + 1 \in 1..Len(c) /\ (i + 1) - 1 = i
    BY <1>1
  <2>3. q[i + 1] = Apply(q[i], c[i + 1])
    BY <2>2 DEF Trail
  <2> QED BY <2>1, <2>3, FolderOnEvents
<1>4. Len(c) \in T
  <2> HIDE DEF T
  <2> QED BY <1>1, <1>2, <1>3, SetInduction
<1>5. F[DOMAIN c] = q[Len(c)]
  BY <1>1, <1>4
<1> QED BY <1>5, FoldUnfold
-----------------------------------------------------------------------------
(* Types.                                                                  *)

\* What the types rest on: a drained channel is a keyboard's and holds events,
\* a reader between two pins is a serial port's, a thread that polls has not
\* failed too often.
Rooms(s) ==
  /\ pc[s] \in {"drained", "woken"} => kind[s] = "keyboard"
  /\ pc[s] = "half" => kind[s] = "serial"
  /\ kind[s] = "keyboard" => channel[s] \in Seq(Events)
  /\ IsMidi(s) => channel[s] \in Seq(Seq(Bytes))
  /\ kind[s] = "usb" /\ poll[s] => errors[s] < MAX_ERRORS

PaddleTypes == PaddleTypeOK /\ \A s \in Sources : Rooms(s)

Item == Events \union Seq(Bytes)

LEMMA DrainedIsState ==
  ASSUME PaddleTypes, NEW s \in Sources, kind[s] = "keyboard"
  PROVE  Drained(s) \in PaddleState
<1>1. channel[s] \in Seq(Events) /\ state[s] \in PaddleState
  BY DEF PaddleTypes, PaddleTypeOK, Rooms
<1> DEFINE c == channel[s]
           F == Folder(c, state[s])
           T == {i \in Nat : i <= Len(c) => F[1..i] \in PaddleState}
<1>2. Len(c) \in Nat /\ DOMAIN c = 1..Len(c)
  BY <1>1
<1>3. 0 \in T
  BY <1>1, FolderOnEvents
<1>4. ASSUME NEW i \in Nat, i \in T PROVE i + 1 \in T
  <2> SUFFICES ASSUME i + 1 <= Len(c) PROVE F[1..(i + 1)] \in PaddleState
    OBVIOUS
  <2>1. F[1..i] \in PaddleState /\ c[i + 1] \in Events
    BY <1>1, <1>2, <1>4
  <2>2. F[1..(i + 1)] = Apply(F[1..i], c[i + 1])
    BY <1>1, FolderOnEvents
  <2> QED BY <2>1, <2>2 DEF Apply, Events, PaddleState
<1>5. Len(c) \in T
  <2> HIDE DEF T
  <2> QED BY <1>2, <1>3, <1>4, SetInduction
<1>6. F[DOMAIN c] \in PaddleState
  BY <1>2, <1>5
<1> QED BY <1>6, FoldUnfold DEF Drained

LEMMA TypesInit == PaddleInit => PaddleTypes
<1> SUFFICES ASSUME PaddleInit PROVE PaddleTypes
  OBVIOUS
<1>1. kind \in [Sources -> Kinds] /\ touches \in Nat
  BY PaddleAssumption DEF PaddleInit
<1>2. poll \in [Sources -> BOOLEAN] /\ errors \in [Sources -> 0..MAX_ERRORS]
  BY PaddleAssumption DEF PaddleInit, IsShared, IsMidi
<1>3. channel \in [Sources -> Seq(Item)]
  BY DEF PaddleInit
<1>4. PaddleTypeOK
  BY <1>1, <1>2, <1>3 DEF PaddleInit, PaddleTypeOK, PaddleState, ThreadPcs, Item, Events
<1>5. ASSUME NEW s \in Sources PROVE Rooms(s)
  BY <1>1, PaddleAssumption DEF PaddleInit, Rooms
<1> QED BY <1>4, <1>5 DEF PaddleTypes

LEMMA WorldTypes ==
  ASSUME PaddleTypes, NEW s \in Sources, World(s)
  PROVE  PaddleTypes'
<1>1. UNCHANGED <<kind, flag, state, errors, poll, pc, sampled, got, prev, paddle,
                  merged_generation, stop, keyer, last_generation, keyer_paddle>>
  BY DEF World, Touch, Unplug, wakeVars, sharedVars, threadVars, mergedVars, keyerVars
<1>2. CASE \E p \in Paddles : Touch(s, p)
  <2>1. PICK p \in Paddles : Touch(s, p)
    BY <1>2
  <2>2. touches' \in Nat /\ UNCHANGED plugged
    BY <2>1 DEF Touch, PaddleTypes, PaddleTypeOK
  <2>3. \E now \in PaddleState : /\ contact' = [contact EXCEPT ![s] = now]
                                 /\ history' = [history EXCEPT ![s] = @ \union {now}]
    <3>1. contact[s] \in PaddleState
      BY DEF PaddleTypes, PaddleTypeOK
    <3> QED BY <2>1, <3>1 DEF Touch, PaddleState
  <2>4. contact' \in [Sources -> PaddleState] /\ history' \in [Sources -> SUBSET PaddleState]
    BY <2>3 DEF PaddleTypes, PaddleTypeOK
  <2>5. unnotified' \in [Sources -> Nat]
    BY <2>1 DEF Touch, PaddleTypes, PaddleTypeOK
  <2>6. \/ UNCHANGED channel
        \/ \E e \in Item : /\ channel' = [channel EXCEPT ![s] = Append(@, e)]
                           /\ kind[s] = "keyboard" => e \in Events
                           /\ IsMidi(s) => e \in Seq(Bytes)
    <3>1. CASE kind[s] = "keyboard"
      BY <2>1, <3>1 DEF Touch, Item, Events, IsMidi, HasChannel
    <3>2. CASE IsMidi(s)
      <4>1. \A down \in BOOLEAN : Wire[p][down] \subseteq Seq(Bytes)
        BY PaddleAssumption
      <4>2. PICK m \in Wire[p][p \notin contact[s]] : channel' = [channel EXCEPT ![s] = Append(@, m)]
        BY <2>1, <3>2 DEF Touch, IsMidi, HasChannel
      <4> QED BY <3>2, <4>1, <4>2 DEF Item, IsMidi
    <3>3. CASE ~HasChannel(s)
      BY <2>1, <3>3 DEF Touch, HasChannel, IsMidi
    <3> QED BY <3>1, <3>2, <3>3 DEF HasChannel, IsMidi
  <2>7. channel \in [Sources -> Seq(Item)]
    BY DEF PaddleTypes, PaddleTypeOK, Item, Events
  <2>8. channel' \in [Sources -> Seq(Item)]
    BY <2>6, <2>7
  <2>9. ASSUME NEW t \in Sources PROVE Rooms(t)'
    <3>1. Rooms(t) /\ kind[t] \in Kinds
      BY DEF PaddleTypes, PaddleTypeOK
    <3>2. UNCHANGED <<kind, pc, poll, errors>>
      BY <1>1
    <3>3. /\ kind[t] = "keyboard" => channel'[t] \in Seq(Events)
          /\ IsMidi(t) => channel'[t] \in Seq(Seq(Bytes))
      <4>1. CASE t # s \/ UNCHANGED channel
        BY <2>6, <2>7, <3>1, <4>1 DEF Rooms
      <4>2. CASE t = s /\ ~UNCHANGED channel
        <5>1. PICK e \in Item : /\ channel' = [channel EXCEPT ![s] = Append(@, e)]
                                /\ kind[s] = "keyboard" => e \in Events
                                /\ IsMidi(s) => e \in Seq(Bytes)
          BY <2>6, <4>2
        <5>2. channel'[t] = Append(channel[t], e)
          BY <2>7, <4>2, <5>1
        <5>3. kind[t] = "keyboard" => channel'[t] \in Seq(Events)
          BY <3>1, <4>2, <5>1, <5>2 DEF Rooms
        <5>4. IsMidi(t) => channel'[t] \in Seq(Seq(Bytes))
          BY <3>1, <4>2, <5>1, <5>2 DEF Rooms
        <5> QED BY <5>3, <5>4
      <4> QED BY <4>1, <4>2
    <3> QED BY <3>1, <3>2, <3>3 DEF Rooms, IsMidi
  <2> QED BY <1>1, <2>2, <2>4, <2>5, <2>8, <2>9 DEF PaddleTypes, PaddleTypeOK, Item, Events
<1>3. CASE Unplug(s)
  <2>1. touches' \in Nat /\ UNCHANGED <<contact, history, channel, unnotified>>
        /\ plugged' = [plugged EXCEPT ![s] = FALSE]
    BY <1>3 DEF Unplug, wakeVars, PaddleTypes, PaddleTypeOK
  <2> QED BY <1>1, <2>1 DEF PaddleTypes, PaddleTypeOK, Rooms, IsMidi
<1> QED BY <1>2, <1>3 DEF World

LEMMA FillerTypes ==
  ASSUME PaddleTypes, NEW s \in Sources, Filler(s) \/ PortError(s) \/ PollError(s) \/ PollEnds(s)
  PROVE  PaddleTypes'
<1> USE DEF PaddleTypes, PaddleTypeOK, Rooms, IsMidi
<1>1. UNCHANGED <<kind, contact, plugged, touches, history, pc, sampled, got, prev, paddle,
                  merged_generation, stop, keyer, last_generation, keyer_paddle>>
  BY DEF Filler, Notify, HandleMessage, PollModem, PortError, PollError, PollEnds,
         worldVars, threadVars, mergedVars, keyerVars
<1>2. CASE Notify(s)
  <2>1. flag' = [flag EXCEPT ![s] = TRUE] /\ unnotified' \in [Sources -> Nat]
        /\ UNCHANGED <<channel, state, errors, poll>>
    BY <1>2 DEF Notify, sharedVars
  <2> QED BY <1>1, <2>1
<1>3. CASE HandleMessage(s)
  <2>1. UNCHANGED <<unnotified, flag, errors, poll>> /\ kind[s] \in {"midi", "amidi"}
        /\ channel[s] # <<>> /\ channel' = [channel EXCEPT ![s] = Tail(@)]
        /\ state' = [state EXCEPT ![s] = Heard(@, Head(channel[s]))]
    BY <1>3 DEF HandleMessage
  <2>2. state' \in [Sources -> PaddleState]
    BY <2>1 DEF Heard, PaddleState
  <2>3. Tail(channel[s]) \in Seq(Item) /\ Tail(channel[s]) \in Seq(Seq(Bytes))
    BY <2>1 DEF Item, Events
  <2>4. channel' \in [Sources -> Seq(Item)]
    BY <2>1, <2>3 DEF Item, Events
  <2>5. ASSUME NEW t \in Sources PROVE Rooms(t)'
    BY <1>1, <2>1, <2>3
  <2> QED BY <1>1, <2>1, <2>2, <2>4, <2>5 DEF Item, Events
<1>4. CASE PollModem(s)
  <2>1. UNCHANGED <<channel, unnotified, flag, poll>>
        /\ state' = [state EXCEPT ![s] = contact[s]]
        /\ errors' = [errors EXCEPT ![s] = 0]
    BY <1>4 DEF PollModem, wakeVars
  <2> QED BY <1>1, <2>1, PaddleAssumption
<1>5. CASE PortError(s) \/ PollEnds(s)
  <2>1. UNCHANGED <<channel, unnotified, flag, state, errors>>
        /\ poll' = [poll EXCEPT ![s] = FALSE]
    BY <1>5 DEF PortError, PollEnds, wakeVars
  <2> QED BY <1>1, <2>1
<1>6. CASE PollError(s)
  <2>1. UNCHANGED <<channel, unnotified, flag, state>> /\ errors[s] < MAX_ERRORS
        /\ errors' = [errors EXCEPT ![s] = @ + 1]
        /\ poll' = [poll EXCEPT ![s] = errors'[s] < MAX_ERRORS]
    BY <1>6 DEF PollError, wakeVars
  <2>2. errors' \in [Sources -> 0..MAX_ERRORS]
    BY <2>1, PaddleAssumption
  <2>3. poll' \in [Sources -> BOOLEAN] /\ (poll'[s] => errors'[s] < MAX_ERRORS)
        /\ \A t \in Sources \ {s} : poll'[t] = poll[t] /\ errors'[t] = errors[t]
    <3>1. CASE errors'[s] < MAX_ERRORS
      <4>1. poll' = [poll EXCEPT ![s] = TRUE] BY <2>1, <3>1
      <4> QED BY <2>1, <3>1, <4>1
    <3>2. CASE ~(errors'[s] < MAX_ERRORS)
      <4>0. (errors'[s] < MAX_ERRORS) = FALSE BY <3>2
      <4>1. poll' = [poll EXCEPT ![s] = FALSE] BY <2>1, <4>0
      <4> QED BY <2>1, <3>2, <4>1
    <3> QED BY <3>1, <3>2
  <2>4. ASSUME NEW t \in Sources PROVE Rooms(t)'
    BY <1>1, <2>1, <2>3
  <2> QED BY <1>1, <2>1, <2>2, <2>3, <2>4
<1> QED BY <1>2, <1>3, <1>4, <1>5, <1>6 DEF Filler

\* A step of a thread: where it goes, and what it makes of the states it keeps.
LEMMA MoveTypes ==
  ASSUME PaddleTypes, NEW s \in Sources, NEW l \in ThreadPcs, Goto(s, l),
         l \in {"drained", "woken"} => kind[s] = "keyboard",
         l = "half" => kind[s] = "serial",
         UNCHANGED <<worldVars, unnotified, sharedVars, stop, keyerVars>>,
         UNCHANGED channel \/ channel' = [channel EXCEPT ![s] = <<>>],
         UNCHANGED flag \/ flag' = [flag EXCEPT ![s] = FALSE],
         \E x \in PaddleState : UNCHANGED state \/ state' = [state EXCEPT ![s] = x],
         \E x \in PaddleState : UNCHANGED sampled \/ sampled' = [sampled EXCEPT ![s] = x],
         \E x \in PaddleState : UNCHANGED got \/ got' = [got EXCEPT ![s] = x],
         \E x \in PaddleState : UNCHANGED prev \/ prev' = [prev EXCEPT ![s] = x],
         paddle' \in PaddleState, merged_generation' \in Nat
  PROVE  PaddleTypes'
<1>1. /\ state \in [Sources -> PaddleState] /\ sampled \in [Sources -> PaddleState]
      /\ got \in [Sources -> PaddleState] /\ prev \in [Sources -> PaddleState]
      /\ channel \in [Sources -> Seq(Item)] /\ flag \in [Sources -> BOOLEAN]
      /\ pc \in [Sources -> ThreadPcs]
  BY DEF PaddleTypes, PaddleTypeOK, Item, Events
<1>4a. state' \in [Sources -> PaddleState]
  BY <1>1
<1>4b. sampled' \in [Sources -> PaddleState]
  BY <1>1
<1>4c. got' \in [Sources -> PaddleState]
  BY <1>1
<1>4d. prev' \in [Sources -> PaddleState]
  BY <1>1
<1>2. channel' \in [Sources -> Seq(Item)]
  <2>1. <<>> \in Seq(Item) OBVIOUS
  <2> QED BY <1>1, <2>1
<1>3. pc' \in [Sources -> ThreadPcs] /\ flag' \in [Sources -> BOOLEAN]
  BY <1>1 DEF Goto
<1>4. ASSUME NEW t \in Sources PROVE Rooms(t)'
  <2>1. UNCHANGED <<kind, poll, errors>>
    BY DEF worldVars, sharedVars
  <2>2. Rooms(t) BY DEF PaddleTypes
  <2>3. channel'[t] = channel[t] \/ channel'[t] = <<>>
    BY <1>1
  <2>4. pc'[t] = pc[t] \/ (t = s /\ pc'[t] = l)
    BY <1>1 DEF Goto
  <2>5. <<>> \in Seq(Events) /\ <<>> \in Seq(Seq(Bytes))
    OBVIOUS
  <2>6. /\ kind[t] = "keyboard" => channel'[t] \in Seq(Events)
        /\ IsMidi(t) => channel'[t] \in Seq(Seq(Bytes))
    BY <2>2, <2>3, <2>5 DEF Rooms
  <2> QED BY <2>1, <2>2, <2>4, <2>6 DEF Rooms, IsMidi
<1> QED BY <1>4a, <1>4b, <1>4c, <1>4d, <1>2, <1>3, <1>4
        DEF PaddleTypes, PaddleTypeOK, Item, Events, worldVars, sharedVars, keyerVars

LEMMA ThreadTypes ==
  ASSUME PaddleTypes, NEW s \in Sources, Thread(s)
  PROVE  PaddleTypes'
<1> USE DEF ThreadPcs, wakeVars, threadVars, mergedVars
<1>0. state[s] \in PaddleState /\ sampled[s] \in PaddleState /\ got[s] \in PaddleState
      /\ contact[s] \in PaddleState /\ {} \in PaddleState
      /\ paddle \in PaddleState /\ merged_generation \in Nat
  BY DEF PaddleTypes, PaddleTypeOK, PaddleState
<1>1. CASE Begin(s) \/ Close(s) \/ End(s)
  BY <1>0, <1>1, MoveTypes DEF Begin, Close, End
<1>2. CASE Report(s)
  <2>1. paddle' \in PaddleState /\ merged_generation' \in Nat
    BY <1>0, <1>2 DEF Report
  <2>2. /\ \E x \in PaddleState : UNCHANGED got \/ got' = [got EXCEPT ![s] = x]
        /\ \E x \in PaddleState : UNCHANGED prev \/ prev' = [prev EXCEPT ![s] = x]
    BY <1>0, <1>2 DEF Report
  <2>3. /\ UNCHANGED <<worldVars, unnotified, sharedVars, stop, keyerVars, channel, flag, state, sampled>>
        /\ Goto(s, "top")
    BY <1>2 DEF Report
  <2> QED BY <1>0, <2>1, <2>2, <2>3, MoveTypes
<1>3. CASE KeyboardEnter(s)
  <2>1. kind[s] = "keyboard" BY <1>3 DEF KeyboardEnter
  <2>2. Drained(s) \in PaddleState BY <2>1, DrainedIsState
  <2> QED BY <1>0, <1>3, <2>1, <2>2, MoveTypes DEF KeyboardEnter, Drain
<1>4. CASE KeyboardCheck(s)
  <2>1. kind[s] = "keyboard" BY <1>4 DEF KeyboardCheck, PaddleTypes, Rooms
  <2>2. Goto(s, "waiting") \/ Goto(s, "woken") BY <1>4 DEF KeyboardCheck
  <2> QED BY <1>0, <1>4, <2>1, <2>2, MoveTypes DEF KeyboardCheck
<1>5. CASE KeyboardWake(s)
  BY <1>0, <1>5, MoveTypes DEF KeyboardWake
<1>6. CASE KeyboardReturn(s)
  <2>1. kind[s] = "keyboard" BY <1>6 DEF KeyboardReturn, PaddleTypes, Rooms
  <2>2. Drained(s) \in PaddleState BY <2>1, DrainedIsState
  <2> QED BY <1>0, <1>6, <2>1, <2>2, MoveTypes DEF KeyboardReturn, Drain, Got
<1>7. CASE SharedEnter(s) \/ SharedReturn(s)
  BY <1>0, <1>7, MoveTypes DEF SharedEnter, SharedReturn, Got
<1>8. CASE SerialEnter(s) \/ SampleDit(s)
  <2>1. ReadPin(s, "dit") \in PaddleState BY <1>0 DEF ReadPin, PaddleState
  <2> QED BY <1>0, <1>8, <2>1, MoveTypes DEF SerialEnter, SampleDit
<1>9. CASE SerialReturn(s) \/ SerialAgain(s)
  <2>1. Sample(s) \in PaddleState BY <1>0 DEF Sample, ReadPin, PaddleState
  <2> QED BY <1>0, <1>9, <2>1, MoveTypes DEF SerialReturn, SerialAgain, Got
<1> QED BY <1>1, <1>2, <1>3, <1>4, <1>5, <1>6, <1>7, <1>8, <1>9 DEF Thread

LEMMA KeyerTypes ==
  ASSUME PaddleTypes, Waits \/ KeyerStops \/ Joined
  PROVE  PaddleTypes'
<1>1. UNCHANGED <<worldVars, wakeVars, state, sharedVars, threadVars, paddle, merged_generation>>
  BY DEF Waits, KeyerEnter, KeyerReturn, KeyerTake, KeyerStops, Joined, mergedVars
<1>2. stop' \in BOOLEAN /\ keyer' \in {"run", "waiting", "joining", "dropped"}
      /\ last_generation' \in Nat /\ keyer_paddle' \in PaddleState
  BY DEF Waits, KeyerEnter, KeyerReturn, KeyerTake, KeyerStops, Joined, mergedVars,
         PaddleTypes, PaddleTypeOK
<1> QED BY <1>1, <1>2 DEF PaddleTypes, PaddleTypeOK, Rooms, IsMidi, worldVars, wakeVars,
                          sharedVars, threadVars

LEMMA TypesStep == PaddleTypes /\ [PaddleNext]_paddleVars => PaddleTypes'
<1> SUFFICES ASSUME PaddleTypes, [PaddleNext]_paddleVars PROVE PaddleTypes'
  OBVIOUS
<1>1. ASSUME NEW s \in Sources, World(s) PROVE PaddleTypes'
  BY <1>1, WorldTypes
<1>2. ASSUME NEW s \in Sources, Filler(s) \/ PortError(s) \/ PollError(s) \/ PollEnds(s)
      PROVE PaddleTypes'
  BY <1>2, FillerTypes
<1>3. ASSUME NEW s \in Sources, Thread(s) PROVE PaddleTypes'
  BY <1>3, ThreadTypes
<1>4. CASE Waits \/ KeyerStops \/ Joined
  BY <1>4, KeyerTypes
<1>5. CASE Over \/ UNCHANGED paddleVars
  BY <1>5 DEF Over, paddleVars, worldVars, wakeVars, sharedVars, threadVars, mergedVars,
              keyerVars, PaddleTypes, PaddleTypeOK, Rooms, IsMidi
<1> QED BY <1>1, <1>2, <1>3, <1>4, <1>5 DEF PaddleNext

\* Every paddle state, channel, counter and place of the inputs is one the
\* program can hold: draining a keyboard's events (KeyboardPaddle::drain_events)
\* leaves a paddle state, and a poll thread never counts past the limit that
\* ends it (poll_loop).
THEOREM PaddleTypeOKAlways == PaddleSpec => []PaddleTypeOK
<1>1. PaddleTypes => PaddleTypeOK
  BY DEF PaddleTypes
<1> QED BY <1>1, TypesInit, TypesStep, PTL DEF PaddleSpec

-----------------------------------------------------------------------------
(* Snapshots.                                                              *)

\* What an event or a message makes of the paddles known to be down.
Becomes(k, known, e) == IF k = "keyboard" THEN Apply(known, e) ELSE Heard(known, e)

\* A source of kind k that knows "from" and has c to hear yet will have heard
\* "to", through states of h.
LeadsTo(k, from, c, to, h) ==
  \E q \in [0..Len(c) -> h] :
    /\ q[0] = from /\ q[Len(c)] = to
    /\ \A i \in 1..Len(c) : q[i] = Becomes(k, q[i - 1], c[i])

\* What a source has yet to hear leads from what it knows to what its paddles
\* are, through states they have been in.
Real(s) ==
  /\ {contact[s], {}} \subseteq history[s]
  /\ kind[s] # "serial" => {state[s], prev[s], got[s]} \subseteq history[s]
  /\ HasChannel(s) => LeadsTo(kind[s], state[s], channel[s], contact[s], history[s])

RealInv == PaddleTypes /\ \A s \in Sources : Real(s)

LEMMA LeadsToSent ==
  ASSUME NEW k, NEW E, NEW from, NEW to, NEW c \in Seq(E), NEW h, NEW e, NEW now,
         LeadsTo(k, from, c, to, h), Becomes(k, to, e) = now
  PROVE  LeadsTo(k, from, Append(c, e), now, h \union {now})
<1> DEFINE n == Len(c)
           d == Append(c, e)
<1>1. PICK q \in [0..n -> h] : /\ q[0] = from /\ q[n] = to
                               /\ \A i \in 1..n : q[i] = Becomes(k, q[i - 1], c[i])
  BY DEF LeadsTo
<1> DEFINE r == [i \in 0..(n + 1) |-> IF i = n + 1 THEN now ELSE q[i]]
<1>2. n \in Nat /\ Len(d) = n + 1 /\ d[n + 1] = e /\ \A i \in 1..n : d[i] = c[i]
  <2>1. n \in Nat /\ Len(d) = n + 1
    OBVIOUS
  <2>2. d[n + 1] = e
    OBVIOUS
  <2>3. \A i \in 1..n : d[i] = c[i]
    OBVIOUS
  <2> QED BY <2>1, <2>2, <2>3
<1> HIDE DEF d, n
<1>3. r \in [0..Len(d) -> h \union {now}]
  BY <1>2
<1>4. r[0] = from /\ r[Len(d)] = now
  BY <1>1, <1>2
<1>5. ASSUME NEW i \in 1..Len(d) PROVE r[i] = Becomes(k, r[i - 1], d[i])
  <2>1. CASE i = n + 1
    <3>1. r[i - 1] = to /\ r[i] = now BY <1>1, <1>2, <2>1
    <3> QED BY <1>2, <2>1, <3>1
  <2>2. CASE i \in 1..n
    <3>1. r[i - 1] = q[i - 1] /\ r[i] = q[i] BY <1>2, <2>2
    <3> QED BY <1>1, <1>2, <2>2, <3>1
  <2> QED BY <1>2, <2>1, <2>2
<1>6. LeadsTo(k, from, d, now, h \union {now})
  <2> HIDE DEF r
  <2> QED BY <1>3, <1>4, <1>5 DEF LeadsTo
<1> QED BY <1>6 DEF d

LEMMA LeadsToHeard ==
  ASSUME NEW k, NEW E, NEW from, NEW to, NEW c \in Seq(E), NEW h, c # <<>>,
         LeadsTo(k, from, c, to, h)
  PROVE  /\ LeadsTo(k, Becomes(k, from, Head(c)), Tail(c), to, h)
         /\ Becomes(k, from, Head(c)) \in h
<1> DEFINE n == Len(c)
           d == Tail(c)
<1>1. PICK q \in [0..n -> h] : /\ q[0] = from /\ q[n] = to
                               /\ \A i \in 1..n : q[i] = Becomes(k, q[i - 1], c[i])
  BY DEF LeadsTo
<1> DEFINE r == [i \in 0..(n - 1) |-> q[i + 1]]
<1>2. /\ n \in Nat \ {0} /\ Len(d) = n - 1 /\ Head(c) = c[1]
      /\ \A i \in 1..(n - 1) : d[i] = c[i + 1]
  <2>1. n \in Nat \ {0} /\ Len(d) = n - 1 /\ Head(c) = c[1]
    OBVIOUS
  <2>2. \A i \in 1..(n - 1) : d[i] = c[i + 1]
    OBVIOUS
  <2> QED BY <2>1, <2>2
<1> HIDE DEF d, n
<1>3. r \in [0..Len(d) -> h]
  BY <1>2
<1>4. q[1] = Becomes(k, from, Head(c)) /\ q[1] \in h
  <2>1. 1 \in 1..n /\ 1 - 1 = 0 /\ 1 \in 0..n BY <1>2
  <2> QED BY <1>1, <1>2, <2>1
<1>5. r[0] = q[1] /\ r[Len(d)] = to
  BY <1>1, <1>2
<1>6. ASSUME NEW i \in 1..Len(d) PROVE r[i] = Becomes(k, r[i - 1], d[i])
  <2>1. r[i] = q[i + 1] /\ r[i - 1] = q[i] /\ i + 1 \in 1..n /\ (i + 1) - 1 = i
    BY <1>2
  <2>2. d[i] = c[i + 1]
    BY <1>2
  <2> QED BY <1>1, <2>1, <2>2
<1>7. LeadsTo(k, q[1], d, to, h)
  <2> HIDE DEF r
  <2> QED BY <1>3, <1>5, <1>6 DEF LeadsTo
<1> QED BY <1>4, <1>7 DEF d

LEMMA LeadsToDrained ==
  ASSUME NEW from \in PaddleState, NEW to, NEW c \in Seq(Events), NEW h,
         LeadsTo("keyboard", from, c, to, h)
  PROVE  FoldLeft(Apply, from, c) = to
<1>1. PICK q \in [0..Len(c) -> h] :
        /\ q[0] = from /\ q[Len(c)] = to
        /\ \A i \in 1..Len(c) : q[i] = Becomes("keyboard", q[i - 1], c[i])
  BY DEF LeadsTo
<1>2. Trail(q, c, from)
  BY <1>1 DEF Trail, Becomes
<1> QED BY <1>1, <1>2, DrainFollowsTrail

LEMMA LeadsToItself ==
  ASSUME NEW k, NEW h, NEW to \in h
  PROVE  LeadsTo(k, to, <<>>, to, h)
<1> DEFINE q == [i \in 0..0 |-> to]
<1>1. Len(<<>>) = 0 /\ 1..0 = {} /\ q \in [0..0 -> h] /\ q[0] = to
  OBVIOUS
<1> HIDE DEF q
<1> QED BY <1>1 DEF LeadsTo

\* A message holds one event at most.
LEMMA OneEvent ==
  ASSUME NEW b, NEW e \in FromBytes(b), NEW f \in FromBytes(b)
  PROVE  e = f
<1> DEFINE nibble == b[1] \div 16
           One(type, number, down) ==
             {[control |-> [kind |-> type, channel |-> (b[1] % 16) + 1, number |-> number],
               is_down |-> down]}
<1>1. FromBytes(b) = CASE Len(b) = 1 /\ nibble \in {8, 9}  -> One("NoteOn", 0, nibble = 9)
                       [] Len(b) >= 3 /\ nibble = 8        -> One("NoteOn", b[2], FALSE)
                       [] Len(b) >= 3 /\ nibble = 9        -> One("NoteOn", b[2], b[3] > 0)
                       [] Len(b) >= 3 /\ nibble = 11       -> One("ControlChange", b[2], b[3] > 0)
                       [] OTHER                            -> {}
  BY DEF FromBytes
<1>2. ASSUME NEW type, NEW number, NEW down, FromBytes(b) = One(type, number, down)
      PROVE  e = f
  BY <1>2
<1> HIDE DEF One
<1> DEFINE c1 == Len(b) = 1 /\ nibble \in {8, 9}
           c2 == Len(b) >= 3 /\ nibble = 8
           c3 == Len(b) >= 3 /\ nibble = 9
           c4 == Len(b) >= 3 /\ nibble = 11
           on == nibble = 9
           e1 == One("NoteOn", 0, on)
           e2 == One("NoteOn", b[2], FALSE)
           e3 == One("NoteOn", b[2], b[3] > 0)
           e4 == One("ControlChange", b[2], b[3] > 0)
<1>3. FromBytes(b) = CASE c1 -> e1 [] c2 -> e2 [] c3 -> e3 [] c4 -> e4 [] OTHER -> {}
  BY <1>1
<1>4. (c1 \/ c2 \/ c3 \/ c4) => FromBytes(b) \in {e1, e2, e3, e4}
  <2> HIDE DEF c1, c2, c3, c4, e1, e2, e3, e4
  <2> QED BY <1>3
<1>5. ~(c1 \/ c2 \/ c3 \/ c4) => FromBytes(b) = {}
  <2> HIDE DEF c1, c2, c3, c4, e1, e2, e3, e4
  <2> QED BY <1>3
<1>6. FromBytes(b) = e1 \/ FromBytes(b) = e2 \/ FromBytes(b) = e3 \/ FromBytes(b) = e4
  <2> HIDE DEF c1, c2, c3, c4, e1, e2, e3, e4
  <2> QED BY <1>4, <1>5
<1> HIDE DEF on
<1>7. CASE FromBytes(b) = e1
  BY <1>2, <1>7, Zenon
<1>8. CASE FromBytes(b) = e2
  BY <1>2, <1>8, Zenon
<1>9. CASE FromBytes(b) = e3
  BY <1>2, <1>9, Zenon
<1>10. CASE FromBytes(b) = e4
  BY <1>2, <1>10, Zenon
<1> HIDE DEF e1, e2, e3, e4
<1> QED BY <1>6, <1>7, <1>8, <1>9, <1>10

LEMMA HearsWhatMoved ==
  ASSUME WireIsBound, NEW p \in Paddles, NEW down \in BOOLEAN, NEW m \in Wire[p][down],
         NEW known \in PaddleState
  PROVE  Heard(known, m) = IF down THEN known \union {p} ELSE known \ {p}
<1>1. PICK e \in FromBytes(m) : e.control = Bindings[p] /\ e.is_down = down
  BY DEF WireIsBound
<1>2. \A f \in FromBytes(m) : f = e
  BY OneEvent
<1>3. ASSUME NEW r \in Paddles, r # p PROVE Bindings[r] # Bindings[p]
  BY <1>3 DEF WireIsBound, Paddles
<1>4. ASSUME NEW r \in Paddles PROVE r \in Heard(known, m) <=> IF r = p THEN down ELSE r \in known
  <2>1. CASE r = p
    BY <1>1, <1>2, <2>1 DEF Heard, Matches
  <2>2. CASE r # p
    <3>1. Bindings[r] # Bindings[p] BY <1>3, <2>2
    <3> QED BY <1>1, <1>2, <2>2, <3>1 DEF Heard, Matches
  <2> QED BY <2>1, <2>2
<1>5. Heard(known, m) \subseteq Paddles /\ known \subseteq Paddles
  BY DEF Heard, PaddleState
<1> QED BY <1>4, <1>5

LEMMA RealInit == PaddleInit => RealInv
<1> SUFFICES ASSUME PaddleInit PROVE RealInv
  OBVIOUS
<1>1. ASSUME NEW s \in Sources PROVE Real(s)
  <2>1. {} \in history[s] /\ contact[s] = {} /\ state[s] = {} /\ prev[s] = {} /\ got[s] = {}
        /\ channel[s] = <<>>
    BY DEF PaddleInit
  <2> QED BY <2>1, LeadsToItself DEF Real
<1> QED BY <1>1, TypesInit DEF RealInv

LEMMA WorldReal ==
  ASSUME WireIsBound, RealInv, NEW s \in Sources, World(s), NEW t \in Sources
  PROVE  Real(t)'
<1>1. UNCHANGED <<kind, state, got, prev>> /\ Real(t)
  BY DEF World, Touch, Unplug, threadVars, RealInv
<1>2. CASE Unplug(s)
  BY <1>1, <1>2 DEF Unplug, wakeVars, Real, HasChannel
<1>3. CASE \E p \in Paddles : Touch(s, p)
  <2>1. PICK p \in Paddles : Touch(s, p)
    BY <1>3
  <2> DEFINE down == p \notin contact[s]
             now == IF down THEN contact[s] \union {p} ELSE contact[s] \ {p}
  <2>2. /\ contact \in [Sources -> PaddleState] /\ history \in [Sources -> SUBSET PaddleState]
        /\ DOMAIN channel = Sources /\ Rooms(s) /\ contact[s] \in PaddleState
    BY DEF RealInv, PaddleTypes, PaddleTypeOK
  <2>3. contact' = [contact EXCEPT ![s] = now] /\ history' = [history EXCEPT ![s] = @ \union {now}]
    BY <2>1 DEF Touch
  <2>4. \/ UNCHANGED channel /\ ~HasChannel(s)
        \/ \E e : /\ channel' = [channel EXCEPT ![s] = Append(@, e)]
                  /\ kind[s] = "keyboard" => e = <<p, down>>
                  /\ IsMidi(s) => e \in Wire[p][down]
    BY <2>1 DEF Touch, HasChannel, IsMidi
  <2> HIDE DEF now, down
  <2>5. CASE t # s
    <3>1. contact'[t] = contact[t] /\ history'[t] = history[t] /\ channel'[t] = channel[t]
      BY <2>2, <2>3, <2>4, <2>5
    <3> QED BY <1>1, <3>1 DEF Real, HasChannel
  <2>6. CASE t = s
    <3>1. contact'[s] = now /\ history'[s] = history[s] \union {now}
      BY <2>2, <2>3
    <3>2. ASSUME HasChannel(s)
          PROVE  LeadsTo(kind[s], state[s], channel'[s], now, history[s] \union {now})
      <4>1. PICK e : /\ channel' = [channel EXCEPT ![s] = Append(@, e)]
                     /\ kind[s] = "keyboard" => e = <<p, down>>
                     /\ IsMidi(s) => e \in Wire[p][down]
        BY <2>4, <3>2
      <4>2. Becomes(kind[s], contact[s], e) = now
        <5>1. CASE kind[s] = "keyboard"
          <6>1. e[1] = p /\ e[2] = down
            BY <4>1, <5>1
          <6>2. Apply(contact[s], e) = now
            BY <6>1, Zenon DEF Apply, now
          <6> QED BY <5>1, <6>2 DEF Becomes
        <5>2. CASE IsMidi(s)
          <6>1. down \in BOOLEAN BY DEF down
          <6>2. e \in Wire[p][down] BY <4>1, <5>2
          <6>3. Heard(contact[s], e) = IF down THEN contact[s] \union {p} ELSE contact[s] \ {p}
            BY <2>2, <6>1, <6>2, HearsWhatMoved
          <6> QED BY <5>2, <6>3 DEF Becomes, IsMidi, now
        <5> QED BY <3>2, <5>1, <5>2 DEF HasChannel, IsMidi
      <4>3. channel'[s] = Append(channel[s], e)
        BY <2>2, <4>1
      <4>4. \E E : channel[s] \in Seq(E)
        BY <2>2, <3>2 DEF Rooms, HasChannel, IsMidi
      <4>5. LeadsTo(kind[s], state[s], channel[s], contact[s], history[s])
        BY <1>1, <2>6, <3>2 DEF Real
      <4> QED BY <4>2, <4>3, <4>4, <4>5, LeadsToSent
    <3> QED BY <1>1, <2>6, <3>1, <3>2 DEF Real, HasChannel
  <2> QED BY <2>5, <2>6
<1> QED BY <1>2, <1>3 DEF World

LEMMA FillerReal ==
  ASSUME RealInv, NEW s \in Sources, Filler(s) \/ PortError(s) \/ PollError(s) \/ PollEnds(s),
         NEW t \in Sources
  PROVE  Real(t)'
<1>1. UNCHANGED <<kind, contact, history, prev, got>> /\ Real(t)
  BY DEF Filler, Notify, HandleMessage, PollModem, PortError, PollError, PollEnds,
         worldVars, threadVars, RealInv
<1>2. DOMAIN channel = Sources /\ DOMAIN state = Sources /\ Rooms(s) /\ Real(s)
  BY DEF RealInv, PaddleTypes, PaddleTypeOK
<1>3. CASE Notify(s) \/ PortError(s) \/ PollError(s) \/ PollEnds(s)
  <2>1. UNCHANGED <<channel, state>>
    BY <1>3 DEF Notify, PortError, PollError, PollEnds, wakeVars
  <2> QED BY <1>1, <2>1 DEF Real, HasChannel
<1>4. CASE HandleMessage(s)
  <2>1. IsMidi(s) /\ channel[s] # <<>> /\ channel' = [channel EXCEPT ![s] = Tail(@)]
        /\ state' = [state EXCEPT ![s] = Heard(@, Head(channel[s]))]
    BY <1>4 DEF HandleMessage
  <2>2. CASE t # s
    <3>1. channel'[t] = channel[t] /\ state'[t] = state[t]
      BY <1>2, <2>1, <2>2
    <3> QED BY <1>1, <3>1 DEF Real, HasChannel
  <2>3. CASE t = s
    <3>1. channel'[s] = Tail(channel[s]) /\ state'[s] = Heard(state[s], Head(channel[s]))
      BY <1>2, <2>1
    <3>2. channel[s] \in Seq(Seq(Bytes)) /\ HasChannel(s) /\ kind[s] # "keyboard"
      BY <1>2, <2>1 DEF Rooms, HasChannel, IsMidi
    <3>3. state'[s] = Becomes(kind[s], state[s], Head(channel[s]))
      BY <3>1, <3>2 DEF Becomes
    <3>4. LeadsTo(kind[s], state[s], channel[s], contact[s], history[s])
      BY <1>2, <3>2 DEF Real
    <3>5. LeadsTo(kind[s], state'[s], channel'[s], contact[s], history[s]) /\ state'[s] \in history[s]
      BY <2>1, <3>1, <3>2, <3>3, <3>4, LeadsToHeard
    <3> QED BY <1>1, <2>3, <3>5 DEF Real, HasChannel
  <2> QED BY <2>2, <2>3
<1>5. CASE PollModem(s)
  <2>1. kind[s] = "usb" /\ UNCHANGED channel /\ state' = [state EXCEPT ![s] = contact[s]]
    BY <1>5 DEF PollModem, wakeVars
  <2> QED BY <1>1, <1>2, <2>1 DEF Real, HasChannel
<1> QED BY <1>3, <1>4, <1>5 DEF Filler

\* A thread keeps of its source what the source shows, was or has drained.
LEMMA DrainReal ==
  ASSUME RealInv, NEW s \in Sources, kind[s] = "keyboard"
  PROVE  Drained(s) = contact[s]
<1>1. channel[s] \in Seq(Events) /\ state[s] \in PaddleState
      /\ LeadsTo("keyboard", state[s], channel[s], contact[s], history[s])
  BY DEF RealInv, Real, PaddleTypes, PaddleTypeOK, Rooms, HasChannel
<1> QED BY <1>1, LeadsToDrained DEF Drained

LEMMA ThreadReal ==
  ASSUME RealInv, NEW s \in Sources, Thread(s), NEW t \in Sources
  PROVE  Real(t)'
<1> DEFINE Seen == {state[s], prev[s], got[s], contact[s], {}}
<1>1. UNCHANGED <<kind, contact, history>> /\ Real(t) /\ Real(s)
  BY DEF Thread, Begin, Report, Close, End, KeyboardEnter, KeyboardCheck, KeyboardWake,
         KeyboardReturn, SharedEnter, SharedReturn, SerialEnter, SampleDit, SerialReturn,
         SerialAgain, worldVars, RealInv
<1>2. /\ DOMAIN channel = Sources /\ DOMAIN state = Sources /\ DOMAIN prev = Sources
      /\ DOMAIN got = Sources /\ Rooms(s)
  BY DEF RealInv, PaddleTypes, PaddleTypeOK
<1>3. kind[s] # "serial" =>
        /\ UNCHANGED prev \/ \E x \in Seen : prev' = [prev EXCEPT ![s] = x]
        /\ UNCHANGED got \/ \E x \in Seen : got' = [got EXCEPT ![s] = x]
        /\ \/ UNCHANGED <<channel, state>>
           \/ /\ HasChannel(s) /\ channel' = [channel EXCEPT ![s] = <<>>]
              /\ state' = [state EXCEPT ![s] = contact[s]]
  <2>1. CASE Begin(s) \/ Report(s) \/ Close(s) \/ End(s)
    BY <2>1 DEF Begin, Report, Close, End, wakeVars
  <2>2. CASE KeyboardEnter(s) \/ KeyboardReturn(s)
    <3>1. kind[s] = "keyboard" BY <1>2, <2>2 DEF KeyboardEnter, KeyboardReturn, Rooms
    <3>2. Drained(s) = contact[s] BY <3>1, DrainReal
    <3> QED BY <2>2, <3>1, <3>2 DEF KeyboardEnter, KeyboardReturn, Drain, Got, HasChannel
  <2>3. CASE KeyboardCheck(s) \/ KeyboardWake(s)
    BY <2>3 DEF KeyboardCheck, KeyboardWake, wakeVars
  <2>4. CASE SharedEnter(s) \/ SharedReturn(s)
    BY <2>4 DEF SharedEnter, SharedReturn, Got, wakeVars
  <2>5. CASE SerialEnter(s) \/ SampleDit(s) \/ SerialReturn(s) \/ SerialAgain(s)
    <3>1. kind[s] = "serial"
      BY <1>2, <2>5 DEF SerialEnter, SampleDit, SerialReturn, SerialAgain, Rooms
    <3> QED BY <3>1
  <2> QED BY <2>1, <2>2, <2>3, <2>4, <2>5 DEF Thread
<1>4. kind[s] = "serial" =>
        /\ UNCHANGED prev \/ \E x : prev' = [prev EXCEPT ![s] = x]
        /\ UNCHANGED got \/ \E x : got' = [got EXCEPT ![s] = x]
        /\ UNCHANGED state \/ \E x : state' = [state EXCEPT ![s] = x]
        /\ UNCHANGED channel
  <2> SUFFICES ASSUME kind[s] = "serial"
               PROVE  /\ UNCHANGED prev \/ \E x : prev' = [prev EXCEPT ![s] = x]
                      /\ UNCHANGED got \/ \E x : got' = [got EXCEPT ![s] = x]
                      /\ UNCHANGED state \/ \E x : state' = [state EXCEPT ![s] = x]
                      /\ UNCHANGED channel
    OBVIOUS
  <2>1. CASE Begin(s) \/ Report(s) \/ Close(s) \/ End(s)
    BY <2>1 DEF Begin, Report, Close, End, wakeVars
  <2>2. CASE SerialEnter(s) \/ SampleDit(s) \/ SerialReturn(s) \/ SerialAgain(s)
    BY <2>2 DEF SerialEnter, SampleDit, SerialReturn, SerialAgain, Got, wakeVars
  <2>3. ~(KeyboardEnter(s) \/ KeyboardCheck(s) \/ KeyboardWake(s) \/ KeyboardReturn(s)
          \/ SharedEnter(s) \/ SharedReturn(s))
    BY <1>2 DEF KeyboardEnter, KeyboardCheck, KeyboardWake, KeyboardReturn, SharedEnter,
                SharedReturn, Rooms, IsShared, IsMidi
  <2> QED BY <2>1, <2>2, <2>3 DEF Thread
<1> HIDE DEF Seen
<1>5. CASE t # s
  <2>1. state'[t] = state[t] /\ prev'[t] = prev[t] /\ got'[t] = got[t] /\ channel'[t] = channel[t]
    BY <1>2, <1>3, <1>4, <1>5
  <2> QED BY <1>1, <2>1 DEF Real, HasChannel
<1>6. CASE t = s
  <2>1. CASE kind[s] = "serial"
    BY <1>1, <1>6, <2>1 DEF Real, HasChannel
  <2>2. CASE kind[s] # "serial"
    <3>1. Seen \subseteq history[s]
      BY <1>1, <2>2 DEF Real, Seen
    <3>2. prev'[s] \in history[s] /\ got'[s] \in history[s]
      BY <1>1, <1>2, <1>3, <2>2, <3>1 DEF Real
    <3>3. /\ state'[s] \in history[s]
          /\ HasChannel(s) => LeadsTo(kind[s], state'[s], channel'[s], contact[s], history[s])
      <4>1. CASE UNCHANGED <<channel, state>>
        BY <1>1, <2>2, <4>1 DEF Real
      <4>2. CASE HasChannel(s) /\ channel' = [channel EXCEPT ![s] = <<>>]
                 /\ state' = [state EXCEPT ![s] = contact[s]]
        <5>1. channel'[s] = <<>> /\ state'[s] = contact[s] /\ contact[s] \in history[s]
          BY <1>1, <1>2, <4>2 DEF Real
        <5> QED BY <5>1, LeadsToItself
      <4> QED BY <1>3, <2>2, <4>1, <4>2
    <3> QED BY <1>1, <1>6, <3>2, <3>3 DEF Real, HasChannel
  <2> QED BY <2>1, <2>2
<1> QED BY <1>5, <1>6

\* No source but a serial port's ever shows a state its paddles have not been
\* in, however late its events or messages are handled, provided that a MIDI
\* device sends for a paddle what the paddle is bound to, and that no two are
\* bound to the same control (KeyboardPaddle::drain_events, the midir callback,
\* amidi_poll_thread, poll_loop).
THEOREM SnapshotsRealAlways ==
  ASSUME WireIsBound
  PROVE  PaddleSpec => []SnapshotsReal
<1>1. RealInv => SnapshotsReal
  BY DEF RealInv, Real, SnapshotsReal
<1>2. RealInv /\ [PaddleNext]_paddleVars => RealInv'
  <2> SUFFICES ASSUME RealInv, [PaddleNext]_paddleVars PROVE RealInv'
    OBVIOUS
  <2>1. PaddleTypes'
    BY TypesStep DEF RealInv
  <2>2. ASSUME NEW t \in Sources PROVE Real(t)'
    <3>1. ASSUME NEW s \in Sources, World(s) PROVE Real(t)'
      BY <3>1, WorldReal
    <3>2. ASSUME NEW s \in Sources, Filler(s) \/ PortError(s) \/ PollError(s) \/ PollEnds(s)
          PROVE Real(t)'
      BY <3>2, FillerReal
    <3>3. ASSUME NEW s \in Sources, Thread(s) PROVE Real(t)'
      BY <3>3, ThreadReal
    <3>4. CASE Waits \/ KeyerStops \/ Joined \/ Over \/ UNCHANGED paddleVars
      <4>1. UNCHANGED <<kind, contact, history, state, channel, prev, got>>
        BY <3>4 DEF Waits, KeyerEnter, KeyerReturn, KeyerTake, KeyerStops, Joined, Over,
                    paddleVars, worldVars, wakeVars, threadVars
      <4> QED BY <4>1 DEF RealInv, Real, HasChannel
    <3> QED BY <3>1, <3>2, <3>3, <3>4 DEF PaddleNext
  <2> QED BY <2>1, <2>2 DEF RealInv
<1> QED BY <1>1, <1>2, RealInit, PTL DEF PaddleSpec
=============================================================================
