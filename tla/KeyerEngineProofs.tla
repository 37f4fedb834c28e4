-------------------------- MODULE KeyerEngineProofs --------------------------
(***************************************************************************)
(* Invariants of KeyerEngine, proved for every set of configurations,      *)
(* every tick, every ring size and every text, with the mode changed at    *)
(* any moment unless the theorem says otherwise.                           *)
(***************************************************************************)
EXTENDS KeyerEngine, TLAPS

\* The durations of a configuration, as the steps use them.
LEMMA ConfigFacts ==
  ASSUME NEW c \in Configs
  PROVE  /\ c.mode \in Modes
         /\ \A p \in Paddles : c.dur[p] \in Nat \ {0}
         /\ \A g \in TextGaps : c.gap[g] \in Nat
         /\ c.hang \in 0 .. U32_MAX
         /\ c.auto_spacing \in BOOLEAN /\ c.keys_reversed \in BOOLEAN
  BY ConfigsAssumption DEF Config

\* The remaining time after a tick is an integer no smaller than -TICK, and
\* so is a phase scheduled from it.
LEMMA RemType ==
  ASSUME phase \in Int
  PROVE  /\ Rem \in Int /\ Rem >= -TICK
         /\ \A d \in Nat : Schedule(d) => phase' \in Int /\ phase' >= -TICK
<1>1. Rem \in Int /\ Rem >= -TICK
  BY TickAssumption DEF Rem, Greater
<1>2. ASSUME NEW d \in Nat, Schedule(d)
      PROVE  phase' \in Int /\ phase' >= -TICK
  BY <1>1, <1>2, TickAssumption DEF Schedule
<1>3. QED
  BY <1>1, <1>2

\* Recording keeps the ring a sequence within its capacity.
LEMMA RecordedType ==
  ASSUME transitions \in Seq(BOOLEAN),
         Len(transitions) <= MAX_RECORDED_TRANSITIONS,
         NEW b \in BOOLEAN
  PROVE  /\ Recorded(b) \in Seq(BOOLEAN)
         /\ Len(Recorded(b)) <= MAX_RECORDED_TRANSITIONS
<1> DEFINE kept == IF Len(transitions) = MAX_RECORDED_TRANSITIONS
                   THEN Tail(transitions) ELSE transitions
<1>1. /\ kept \in Seq(BOOLEAN)
      /\ Len(kept) < MAX_RECORDED_TRANSITIONS
  <2>1. CASE Len(transitions) = MAX_RECORDED_TRANSITIONS
    <3>1. transitions # <<>>
      BY <2>1, RingAssumption
    <3>2. Tail(transitions) \in Seq(BOOLEAN)
      BY <3>1
    <3>3. Len(Tail(transitions)) = Len(transitions) - 1
      BY <3>1
    <3>4. QED
      BY <2>1, <3>2, <3>3, RingAssumption
  <2>2. CASE Len(transitions) # MAX_RECORDED_TRANSITIONS
    BY <2>2, RingAssumption
  <2>3. QED
    BY <2>1, <2>2
<1>2. Recorded(b) = Append(kept, b)
  BY DEF Recorded
<1> HIDE DEF kept
<1>3. Len(Append(kept, b)) = Len(kept) + 1 /\ Append(kept, b) \in Seq(BOOLEAN)
  BY <1>1
<1>4. QED
  BY <1>1, <1>2, <1>3, RingAssumption

-----------------------------------------------------------------------------
(* Type correctness.  The conjuncts fall into groups that the building     *)
(* blocks of a tick establish on their own.                                *)

LineOK ==
  /\ ptt_active \in BOOLEAN
  /\ key_active \in BOOLEAN
  /\ hang_counter \in 0 .. U32_MAX
  /\ transitions \in Seq(BOOLEAN)
  /\ Len(transitions) <= MAX_RECORDED_TRANSITIONS
  /\ out \in Outputs

PhaseOK ==
  /\ state \in KeyerStates
  /\ phase \in Int /\ phase >= -TICK
  /\ element_duration \in Nat

TextOK == text_queue \in Seq(Elements) /\ text_sending \in BOOLEAN

MemoryOK ==
  /\ memory \in SUBSET Paddles
  /\ last_paddle \in Paddles \union {"none"}

\* Every event block keeps the line variables typed.
LEMMA LineType ==
  ASSUME TypeOK
  PROVE  /\ Silent => LineOK'
         /\ EmitKeyDown => LineOK'
         /\ EmitKeyUp /\ hang_counter' \in {0, hang_counter} => LineOK'
         /\ EmitPttOrKeyDown => LineOK'
         /\ HandleHangTime => LineOK'
<1> USE DEF TypeOK, LineOK, Outputs
<1>1. \A b \in BOOLEAN : /\ Recorded(b) \in Seq(BOOLEAN)
                         /\ Len(Recorded(b)) <= MAX_RECORDED_TRANSITIONS
  BY RecordedType
<1>2. Silent => LineOK'
  BY DEF Silent
<1>3. EmitKeyDown => LineOK'
  <2> SUFFICES ASSUME EmitKeyDown PROVE LineOK'
    OBVIOUS
  <2>1. transitions' \in Seq(BOOLEAN)
        /\ Len(transitions') <= MAX_RECORDED_TRANSITIONS
    BY <1>1, Zenon DEF EmitKeyDown
  <2>2. hang_counter' \in 0 .. U32_MAX
    BY U32Assumption DEF EmitKeyDown
  <2>3. QED
    BY <2>1, <2>2, Zenon DEF EmitKeyDown
<1>4. EmitKeyUp /\ hang_counter' \in {0, hang_counter} => LineOK'
  <2> SUFFICES ASSUME EmitKeyUp, hang_counter' \in {0, hang_counter}
               PROVE  LineOK'
    OBVIOUS
  <2>1. transitions' \in Seq(BOOLEAN)
        /\ Len(transitions') <= MAX_RECORDED_TRANSITIONS
    BY <1>1, Zenon DEF EmitKeyUp
  <2>2. hang_counter' \in 0 .. U32_MAX
    BY U32Assumption
  <2>3. QED
    BY <2>1, <2>2, Zenon DEF EmitKeyUp
<1>5. EmitPttOrKeyDown => LineOK'
  BY <1>3 DEF EmitPttOrKeyDown
<1>6. HandleHangTime => LineOK'
  <2> SUFFICES ASSUME HandleHangTime PROVE LineOK'
    OBVIOUS
  <2>1. CASE ptt_active /\ ~key_active
    <3>1. hang_counter' \in 0 .. U32_MAX
      <4>1. hang_counter' = Lesser(hang_counter + TICK, U32_MAX)
        BY <2>1 DEF HandleHangTime
      <4>2. QED
        BY <4>1, U32Assumption, TickAssumption DEF Lesser
    <3>2. ptt_active' \in BOOLEAN /\ out' \in Outputs
      BY <2>1, Zenon DEF HandleHangTime
    <3>3. UNCHANGED <<key_active, transitions>>
      BY <2>1 DEF HandleHangTime
    <3>4. QED
      BY <3>1, <3>2, <3>3
  <2>2. CASE ~(ptt_active /\ ~key_active)
    BY <1>2, <2>2, Zenon DEF HandleHangTime
  <2>3. QED
    BY <2>1, <2>2
<1>7. QED
  BY <1>2, <1>3, <1>4, <1>5, <1>6

\* Every way of setting the state and its deadline keeps them typed.
LEMMA PhaseType ==
  ASSUME TypeOK
  PROVE  /\ Wait => PhaseOK'
         /\ \A s \in KeyerStates : Goto(s) => PhaseOK'
         /\ \A s \in KeyerStates, d \in Nat : GotoFor(s, d) => PhaseOK'
         /\ \A p \in Paddles : StartElement(p) => PhaseOK' /\ MemoryOK'
<1> USE DEF TypeOK, PhaseOK
<1>1. Rem \in Int /\ Rem >= -TICK
  BY RemType
<1>2. \A d \in Nat : Schedule(d) => phase' \in Int /\ phase' >= -TICK
  BY RemType
<1>3. Wait => PhaseOK'
  BY <1>1 DEF Wait
<1>4. \A s \in KeyerStates : Goto(s) => PhaseOK'
  BY <1>1 DEF Goto
<1>5. \A s \in KeyerStates, d \in Nat : GotoFor(s, d) => PhaseOK'
  BY <1>2 DEF GotoFor
<1>6. ASSUME NEW p \in Paddles, StartElement(p)
      PROVE  PhaseOK'
  <2>1. config.dur[p] \in Nat
    BY ConfigFacts
  <2>2. Sending[p] \in KeyerStates
    BY DEF Sending, KeyerStates, SendStates, Paddles
  <2>3. QED
    BY <1>2, <1>6, <2>1, <2>2 DEF StartElement
<1>7. ASSUME NEW p \in Paddles, StartElement(p)
      PROVE  MemoryOK'
  BY <1>7 DEF StartElement, MemoryOK
<1>8. QED
  BY <1>3, <1>4, <1>5, <1>6, <1>7

\* What the rest of a tick may touch.
RestOK == single_paddle_decided \in BOOLEAN /\ straight_release_grace \in Nat
StepOK == LineOK /\ PhaseOK /\ TextOK /\ MemoryOK /\ RestOK

\* TypeOK is the sum of its groups.
LEMMA TypeParts ==
  /\ TypeOK => StepOK /\ config \in Configs /\ held \in SUBSET Paddles
  /\ (StepOK /\ config \in Configs /\ held \in SUBSET Paddles)' => TypeOK'
<1> USE DEF TypeOK, StepOK, LineOK, PhaseOK, TextOK, MemoryOK, RestOK
<1>1. TypeOK => StepOK /\ config \in Configs /\ held \in SUBSET Paddles
  OBVIOUS
<1>2. (StepOK /\ config \in Configs /\ held \in SUBSET Paddles)' => TypeOK'
  OBVIOUS
<1>3. QED
  BY <1>1, <1>2

\* Groups a step leaves alone stay typed.
LEMMA FrameType ==
  ASSUME TypeOK
  PROVE  /\ UNCHANGED textVars => TextOK'
         /\ UNCHANGED latchVars => MemoryOK' /\ single_paddle_decided' \in BOOLEAN
         /\ UNCHANGED <<memory, last_paddle>> => MemoryOK'
         /\ UNCHANGED lineVars => LineOK'
         /\ UNCHANGED phaseVars => PhaseOK'
         /\ AbortTextIfHeld => TextOK'
<1> USE DEF TypeOK, textVars, latchVars, lineVars, phaseVars
<1>1. UNCHANGED textVars => TextOK'
  BY DEF TextOK
<1>2. UNCHANGED latchVars => MemoryOK' /\ single_paddle_decided' \in BOOLEAN
  BY DEF MemoryOK
<1>3. UNCHANGED <<memory, last_paddle>> => MemoryOK'
  BY DEF MemoryOK
<1>4. UNCHANGED lineVars => LineOK'
  BY DEF LineOK
<1>5. UNCHANGED phaseVars => PhaseOK'
  BY DEF PhaseOK
<1>6. AbortTextIfHeld => TextOK'
  <2>1. <<>> \in Seq(Elements)
    OBVIOUS
  <2>2. QED
    BY <1>1, <2>1, Zenon DEF AbortTextIfHeld, TextOK
<1>7. QED
  BY <1>1, <1>2, <1>3, <1>4, <1>5, <1>6

\* The composite blocks of a tick.
LEMMA BlockType ==
  ASSUME TypeOK
  PROVE  /\ \A p \in Paddles : StartElementKeyed(p) =>
              LineOK' /\ PhaseOK' /\ MemoryOK'
         /\ text_queue # <<>> /\ DispatchText =>
              LineOK' /\ PhaseOK' /\ MemoryOK' /\ TextOK'
                /\ single_paddle_decided' \in BOOLEAN
         /\ \A p \in Paddles : FinishElement(p) => LineOK' /\ PhaseOK'
         /\ EnterIdleFromDelay => StepOK'
         /\ ResolveDelayTail => StepOK'
<1>a. "Idle" \in KeyerStates /\ "LetterSpace" \in KeyerStates
      /\ \A p \in Paddles : DelayAfter[p] \in KeyerStates
  BY DEF KeyerStates, DelayStates, DelayAfter, Paddles
<1>b. \A g \in TextGaps : config.gap[g] \in Nat
  BY ConfigFacts DEF TypeOK
<1>1. ASSUME NEW p \in Paddles, StartElementKeyed(p)
      PROVE  LineOK' /\ PhaseOK' /\ MemoryOK'
  BY <1>1, LineType, PhaseType DEF StartElementKeyed
<1>2. ASSUME text_queue # <<>>, DispatchText
      PROVE  LineOK' /\ PhaseOK' /\ MemoryOK' /\ TextOK'
               /\ single_paddle_decided' \in BOOLEAN
  <2>1. Tail(text_queue) \in Seq(Elements)
    BY <1>2 DEF TypeOK
  <2>2. TextOK' /\ single_paddle_decided' \in BOOLEAN
    BY <1>2, <2>1 DEF DispatchText, TextOK
  <2>3. CASE Head(text_queue) \in Paddles /\ StartElementKeyed(Head(text_queue))
    BY <1>1, <2>2, <2>3
  <2>4. CASE /\ Head(text_queue) \in TextGaps
             /\ GotoFor("DitDelay", config.gap[Head(text_queue)])
             /\ Silent
             /\ UNCHANGED <<memory, last_paddle>>
    <3>1. "DitDelay" \in KeyerStates
      BY DEF KeyerStates, DelayStates
    <3>2. PhaseOK'
      BY <1>b, <2>4, <3>1, PhaseType
    <3>3. LineOK' /\ MemoryOK'
      BY <2>4, LineType, FrameType
    <3>4. QED
      BY <2>2, <3>2, <3>3
  <2>5. QED
    BY <1>2, <2>3, <2>4 DEF DispatchText
<1>3. ASSUME NEW p \in Paddles, FinishElement(p)
      PROVE  LineOK' /\ PhaseOK'
  <2>1. LineOK'
    BY <1>3, LineType DEF FinishElement
  <2>2. "ElementGap" \in TextGaps
    BY DEF TextGaps
  <2>3. PhaseOK'
    BY <1>3, <1>a, <1>b, <2>2, PhaseType DEF FinishElement
  <2>4. QED
    BY <2>1, <2>3
<1>4. ASSUME EnterIdleFromDelay
      PROVE  StepOK'
  <2>1. PhaseOK'
    BY <1>4, <1>a, PhaseType DEF EnterIdleFromDelay
  <2>2. LineOK'
    BY <1>4, U32Assumption DEF EnterIdleFromDelay, LineOK, TypeOK, Outputs
  <2>3. TextOK'
    <3>1. <<>> \in Seq(Elements)
      OBVIOUS
    <3>2. text_queue' \in Seq(Elements)
      BY <1>4, <3>1, Zenon DEF EnterIdleFromDelay, TypeOK
    <3>3. text_sending' \in BOOLEAN
      BY <1>4 DEF EnterIdleFromDelay
    <3>4. QED
      BY <3>2, <3>3 DEF TextOK
  <2>4. MemoryOK' /\ RestOK'
    BY <1>4 DEF EnterIdleFromDelay, ForgetSession, MemoryOK, RestOK, TypeOK
  <2>5. QED
    BY <2>1, <2>2, <2>3, <2>4 DEF StepOK
<1>5. ASSUME ResolveDelayTail
      PROVE  StepOK'
  <2> USE DEF RestOK
  <2>1. CASE /\ Goto("Idle") /\ Silent
             /\ UNCHANGED <<textVars, latchVars, straight_release_grace>>
    <3>1. LineOK' /\ PhaseOK' /\ TextOK' /\ MemoryOK'
      BY <1>a, <2>1, LineType, PhaseType, FrameType
    <3>2. RestOK'
      BY <2>1, FrameType DEF TypeOK
    <3>3. QED
      BY <3>1, <3>2 DEF StepOK
  <2>2. CASE /\ GotoFor("LetterSpace", LetterRest) /\ AbortTextIfHeld /\ Silent
             /\ UNCHANGED <<latchVars, straight_release_grace>>
    <3>1. LetterRest \in Nat
      BY <1>b DEF LetterRest, Monus, Greater, TextGaps
    <3>2. LineOK' /\ PhaseOK' /\ TextOK' /\ MemoryOK'
      BY <1>a, <2>2, <3>1, LineType, PhaseType, FrameType
    <3>3. RestOK'
      BY <2>2, FrameType DEF TypeOK
    <3>4. QED
      BY <3>2, <3>3 DEF StepOK
  <2>3. QED
    BY <1>4, <1>5, <2>1, <2>2 DEF ResolveDelayTail
<1>6. QED
  BY <1>1, <1>2, <1>3, <1>4, <1>5

-----------------------------------------------------------------------------
(* One lemma per kind of tick.                                             *)

LEMMA TickStraightType ==
  ASSUME TypeOK, TickStraight
  PROVE  StepOK'
<1> USE DEF RestOK
<1>a. "Idle" \in KeyerStates /\ "StraightKey" \in KeyerStates
  BY DEF KeyerStates
<1>1. TextOK' /\ MemoryOK' /\ single_paddle_decided' \in BOOLEAN
  BY FrameType DEF TickStraight
<1>2. LineOK'
  BY LineType DEF TickStraight, StraightIdle, StraightKeyed, StraightOther
<1>3. PhaseOK'
  BY <1>a, PhaseType DEF TickStraight, StraightIdle, StraightKeyed, StraightOther
<1>4. straight_release_grace' \in Nat
  BY TickAssumption
     DEF TypeOK, TickStraight, StraightIdle, StraightKeyed, StraightOther
<1>5. QED
  BY <1>1, <1>2, <1>3, <1>4 DEF StepOK

LEMMA IambicInnerType ==
  ASSUME TypeOK, IambicInner
  PROVE  StepOK'
<1> USE DEF RestOK
<1>1. ASSUME IambicIdle
      PROVE  StepOK'
  <2>1. straight_release_grace' \in Nat
    BY <1>1 DEF IambicIdle, TypeOK
  <2>2. CASE /\ IambicStart # "none" /\ StartElementKeyed(IambicStart)
             /\ UNCHANGED <<textVars, single_paddle_decided>>
    <3>1. IambicStart \in Paddles
      BY <2>2 DEF IambicStart, Paddles
    <3>2. QED
      BY <2>1, <2>2, <3>1, BlockType, FrameType DEF StepOK, TypeOK
  <2>3. CASE text_queue # <<>> /\ DispatchText
    BY <2>1, <2>3, BlockType DEF StepOK
  <2>4. CASE HandleHangTime /\ Wait /\ UNCHANGED <<textVars, latchVars>>
    BY <2>1, <2>4, LineType, PhaseType, FrameType DEF StepOK
  <2>5. QED
    BY <1>1, <2>2, <2>3, <2>4 DEF IambicIdle
<1>2. ASSUME NEW p \in Paddles, IambicSend(p)
      PROVE  StepOK'
  <2>1. TextOK' /\ RestOK'
    BY <1>2, FrameType DEF IambicSend, TypeOK
  <2>2. MemoryOK'
    BY <1>2 DEF IambicSend, MemoryOK, TypeOK, Opp, Paddles
  <2>3. LineOK' /\ PhaseOK'
    BY <1>2, LineType, PhaseType, BlockType DEF IambicSend
  <2>4. QED
    BY <2>1, <2>2, <2>3 DEF StepOK
<1>3. ASSUME NEW p \in Paddles, IambicDelay(p)
      PROVE  StepOK'
  <2>1. CASE /\ memory' = memory \union ({Opp(p)} \intersect held)
             /\ AbortTextIfHeld /\ Silent /\ Wait
             /\ UNCHANGED <<last_paddle, single_paddle_decided,
                            straight_release_grace>>
    <3>1. MemoryOK' /\ RestOK'
      BY <2>1 DEF MemoryOK, TypeOK
    <3>2. QED
      BY <2>1, <3>1, LineType, PhaseType, FrameType DEF StepOK
  <2>2. CASE /\ NextElement(p) # "none" /\ StartElementKeyed(NextElement(p))
             /\ AbortTextIfHeld
             /\ UNCHANGED <<single_paddle_decided, straight_release_grace>>
    <3>1. NextElement(p) \in Paddles
      BY <2>2 DEF NextElement, UltimaticNext, IambicNext, Opp, Paddles, TypeOK
    <3>2. QED
      BY <2>2, <3>1, BlockType, FrameType DEF StepOK, TypeOK
  <2>3. CASE ResolveDelayTail
    BY <2>3, BlockType
  <2>4. QED
    BY <1>3, <2>1, <2>2, <2>3 DEF IambicDelay
<1>4. ASSUME LetterSpaceTick
      PROVE  StepOK'
  <2>1. "Idle" \in KeyerStates
    BY DEF KeyerStates
  <2>2. PhaseOK'
    BY <1>4, <2>1, RemType, TickAssumption DEF LetterSpaceTick, PhaseOK, TypeOK
  <2>3. QED
    BY <1>4, <2>2, LineType, FrameType DEF LetterSpaceTick, StepOK, TypeOK
<1>5. QED
  BY <1>1, <1>2, <1>3, <1>4 DEF IambicInner

LEMMA LeaveStraightKeyType ==
  ASSUME TypeOK, LeaveStraightKey
  PROVE  StepOK'
<1>1. "Idle" \in KeyerStates
  BY DEF KeyerStates
<1>2. QED
  BY <1>1, LineType, PhaseType, FrameType
     DEF LeaveStraightKey, StepOK, RestOK, TypeOK

LEMMA TickBugType ==
  ASSUME TypeOK, TickBug
  PROVE  StepOK'
<1>1. CASE (BugDash \/ BugKeyed)
           /\ UNCHANGED <<textVars, latchVars, straight_release_grace>>
  <2>1. "Idle" \in KeyerStates /\ "StraightKey" \in KeyerStates
    BY DEF KeyerStates
  <2>2. LineOK' /\ PhaseOK'
    BY <1>1, <2>1, LineType, PhaseType DEF BugDash, BugKeyed
  <2>3. QED
    BY <1>1, <2>2, FrameType DEF StepOK, RestOK, TypeOK
<1>2. CASE IambicInner
  BY <1>2, IambicInnerType
<1>3. QED
  BY <1>1, <1>2 DEF TickBug

LEMMA TickSinglePaddleType ==
  ASSUME TypeOK, TickSinglePaddle
  PROVE  StepOK'
<1> USE DEF RestOK
<1>a. /\ "Idle" \in KeyerStates /\ "DitDelay" \in KeyerStates
      /\ "SendDash" \in KeyerStates /\ "dit" \in Paddles
  BY DEF KeyerStates, DelayStates, SendStates, Paddles
<1>b. /\ config.gap["ElementGap"] \in Nat
      /\ config.dur["dash"] \in Nat /\ config.dur["dit"] \in Nat
  BY ConfigFacts DEF TextGaps, Paddles, TypeOK
<1>1. ASSUME SingleIdle
      PROVE  StepOK'
  <2>1. straight_release_grace' \in Nat
    BY <1>1 DEF SingleIdle, TypeOK
  <2>2. CASE /\ single_paddle_decided' = FALSE /\ StartElementKeyed("dit")
             /\ UNCHANGED textVars
    BY <1>a, <2>1, <2>2, BlockType, FrameType DEF StepOK
  <2>3. CASE text_queue # <<>> /\ DispatchText
    BY <2>1, <2>3, BlockType DEF StepOK
  <2>4. CASE HandleHangTime /\ Wait /\ UNCHANGED <<textVars, latchVars>>
    BY <2>1, <2>4, LineType, PhaseType, FrameType DEF StepOK
  <2>5. QED
    BY <1>1, <2>2, <2>3, <2>4 DEF SingleIdle
<1>2. ASSUME SingleUndecided
      PROVE  LineOK' /\ PhaseOK' /\ single_paddle_decided' \in BOOLEAN
  <2>1. CASE /\ single_paddle_decided' = TRUE
             /\ GotoFor("DitDelay", config.gap["ElementGap"])
             /\ EmitKeyUp /\ UNCHANGED hang_counter
    BY <1>a, <1>b, <2>1, LineType, PhaseType
  <2>2. CASE /\ single_paddle_decided' = TRUE /\ state' = "SendDash"
             /\ Schedule(Monus(config.dur["dash"], config.dur["dit"]))
             /\ element_duration' = config.dur["dash"] /\ Silent
    <3>1. Monus(config.dur["dash"], config.dur["dit"]) \in Nat
      BY <1>b DEF Monus, Greater
    <3>2. PhaseOK'
      BY <1>a, <1>b, <2>2, <3>1, RemType DEF PhaseOK, TypeOK
    <3>3. QED
      BY <2>2, <3>2, LineType
  <2>3. CASE Silent /\ Wait /\ UNCHANGED single_paddle_decided
    BY <2>3, LineType, PhaseType DEF TypeOK
  <2>4. QED
    BY <1>2, <2>1, <2>2, <2>3 DEF SingleUndecided
<1>3. ASSUME NEW p \in Paddles, SingleSend(p)
      PROVE  StepOK'
  <2>1. TextOK' /\ MemoryOK' /\ straight_release_grace' \in Nat
    BY <1>3, FrameType DEF SingleSend, TypeOK
  <2>2. LineOK' /\ PhaseOK' /\ single_paddle_decided' \in BOOLEAN
    BY <1>2, <1>3, LineType, PhaseType, BlockType DEF SingleSend, TypeOK
  <2>3. QED
    BY <2>1, <2>2 DEF StepOK
<1>4. ASSUME SingleDelay
      PROVE  StepOK'
  <2>1. CASE /\ AbortTextIfHeld /\ Silent /\ Wait
             /\ UNCHANGED <<latchVars, straight_release_grace>>
    BY <2>1, LineType, PhaseType, FrameType DEF StepOK, TypeOK
  <2>2. CASE /\ single_paddle_decided' = FALSE /\ StartElementKeyed("dit")
             /\ AbortTextIfHeld /\ UNCHANGED straight_release_grace
    BY <1>a, <2>2, BlockType, FrameType DEF StepOK, TypeOK
  <2>3. CASE /\ Goto("Idle") /\ Silent
             /\ UNCHANGED <<textVars, latchVars, straight_release_grace>>
    BY <1>a, <2>3, LineType, PhaseType, FrameType DEF StepOK, TypeOK
  <2>4. CASE EnterIdleFromDelay
    BY <2>4, BlockType
  <2>5. QED
    BY <1>4, <2>1, <2>2, <2>3, <2>4 DEF SingleDelay
<1>5. CASE LetterSpaceTick
  BY <1>5, IambicInnerType DEF IambicInner
<1>6. CASE LeaveStraightKey
  BY <1>6, LeaveStraightKeyType
<1>7. QED
  BY <1>1, <1>3, <1>4, <1>5, <1>6 DEF TickSinglePaddle

LEMMA TickType ==
  ASSUME TypeOK, Tick
  PROVE  TypeOK'
<1>1. StepOK'
  BY TickStraightType, TickBugType, IambicInnerType, LeaveStraightKeyType,
     TickSinglePaddleType DEF Tick, TickIambic
<1>2. UNCHANGED <<config, held>>
  BY DEF Tick, TickStraight, TickBug, TickIambic, TickSinglePaddle
<1>3. QED
  BY <1>1, <1>2, TypeParts

LEMMA CallType ==
  ASSUME TypeOK
  PROVE  /\ \A raw \in SUBSET Paddles : SetPaddle(raw) => TypeOK'
         /\ \A c \in Configs : UpdateConfig(c) => TypeOK'
         /\ \A t \in Texts : SendText(t) => TypeOK'
         /\ AbortText => TypeOK'
         /\ DrainTransitions => TypeOK'
<1>0. ReturnsNothing =>
        /\ PhaseOK' /\ RestOK'
        /\ transitions' \in Seq(BOOLEAN)
             /\ Len(transitions') <= MAX_RECORDED_TRANSITIONS => LineOK'
  BY FrameType DEF ReturnsNothing, LineOK, RestOK, TypeOK, Outputs
<1>1. ASSUME NEW raw \in SUBSET Paddles, SetPaddle(raw)
      PROVE  TypeOK'
  <2>1. held' \in SUBSET Paddles
    BY <1>1 DEF SetPaddle, Opp, Paddles
  <2>2. MemoryOK'
    BY <1>1, <2>1 DEF SetPaddle, MemoryOK, TypeOK, Paddles
  <2>3. TextOK'
    <3>1. <<>> \in Seq(Elements)
      OBVIOUS
    <3>2. \/ UNCHANGED textVars
          \/ text_queue' = <<>> /\ text_sending' = FALSE
      BY <1>1, Zenon DEF SetPaddle
    <3>3. QED
      BY <3>1, <3>2 DEF TextOK, TypeOK, textVars
  <2>4. LineOK' /\ PhaseOK' /\ RestOK'
    BY <1>0, <1>1 DEF SetPaddle, TypeOK
  <2>5. config' \in Configs
    BY <1>1 DEF SetPaddle, TypeOK
  <2>6. QED
    BY <2>1, <2>2, <2>3, <2>4, <2>5, TypeParts DEF StepOK
<1>2. ASSUME NEW c \in Configs, UpdateConfig(c)
      PROVE  TypeOK'
  BY <1>0, <1>2, FrameType, TypeParts DEF UpdateConfig, StepOK, TypeOK
<1>3. ASSUME NEW t \in Texts, SendText(t)
      PROVE  TypeOK'
  <2>1. TextOK'
    BY <1>3, TextsAssumption DEF SendText, TextOK, TypeOK
  <2>2. QED
    BY <1>0, <1>3, <2>1, FrameType, TypeParts DEF SendText, StepOK, TypeOK
<1>4. ASSUME AbortText
      PROVE  TypeOK'
  <2>1. TextOK'
    <3>1. <<>> \in Seq(Elements)
      OBVIOUS
    <3>2. QED
      BY <1>4, <3>1 DEF AbortText, TextOK
  <2>2. QED
    BY <1>0, <1>4, <2>1, FrameType, TypeParts DEF AbortText, StepOK, TypeOK
<1>5. ASSUME DrainTransitions
      PROVE  TypeOK'
  <2>1. LineOK' /\ PhaseOK' /\ RestOK'
    BY <1>0, <1>5, RingAssumption DEF DrainTransitions
  <2>2. QED
    BY <1>5, <2>1, FrameType, TypeParts DEF DrainTransitions, StepOK, TypeOK
<1>6. QED
  BY <1>1, <1>2, <1>3, <1>4, <1>5

LEMMA InitType == Init => TypeOK
<1> SUFFICES ASSUME Init PROVE TypeOK
  OBVIOUS
<1>1. <<>> \in Seq(Elements) /\ <<>> \in Seq(BOOLEAN) /\ Len(<<>>) = 0
  OBVIOUS
<1>2. LineOK /\ TextOK
  <2>1. 0 \in 0 .. U32_MAX /\ 0 <= MAX_RECORDED_TRANSITIONS
    BY U32Assumption, RingAssumption
  <2>2. QED
    BY <1>1, <2>1, Zenon DEF Init, LineOK, TextOK, Outputs
<1>3. PhaseOK /\ MemoryOK /\ RestOK
  <2>1. 0 \in Int /\ 0 >= -TICK /\ 0 \in Nat
    BY TickAssumption
  <2>2. QED
    BY <2>1, Zenon DEF Init, PhaseOK, MemoryOK, RestOK, KeyerStates
<1>4. config \in Configs /\ held \in SUBSET Paddles
  BY DEF Init
<1>5. QED
  BY <1>2, <1>3, <1>4
     DEF TypeOK, LineOK, TextOK, PhaseOK, MemoryOK, RestOK

\* The engine's variables keep their types, whatever the host and the
\* operator do between ticks.
THEOREM TypeCorrect == Spec => []TypeOK
<1>1. Init => TypeOK
  BY InitType
<1>2. TypeOK /\ [Next]_vars => TypeOK'
  <2> SUFFICES ASSUME TypeOK, [Next]_vars PROVE TypeOK'
    OBVIOUS
  <2>1. CASE Next
    BY <2>1, TickType, CallType DEF Next
  <2>2. CASE UNCHANGED vars
    BY <2>2 DEF vars, TypeOK, textVars, lineVars, latchVars, phaseVars
  <2>3. QED
    BY <2>1, <2>2
<1>3. QED
  BY <1>1, <1>2, PTL DEF Spec

-----------------------------------------------------------------------------
(* What a tick can do to the line: five cases, from which the safety       *)
(* theorems below follow without looking at the modes again.               *)

StartCase == state \notin Keyed /\ state' \in Keyed /\ EmitPttOrKeyDown
PressCase == state \in Keyed /\ state' = state /\ ~key_active /\ EmitKeyDown
ReleaseCase ==
  /\ state \in Keyed /\ state' \notin Keyed /\ key_active
  /\ EmitKeyUp /\ hang_counter' \in {0, hang_counter}
RestCase == state = "Idle" /\ state' = "Idle" /\ HandleHangTime
StillCase ==
  /\ out' = "none" /\ hang_counter' \in {0, hang_counter}
  /\ UNCHANGED <<ptt_active, key_active, transitions>>
  /\ \/ state \in Keyed /\ state' \in Keyed
     \/ state \notin Keyed /\ state' \notin Keyed
     \/ state = "StraightKey" /\ config.mode \notin {"Straight", "Bug"}

TickCase == StartCase \/ PressCase \/ ReleaseCase \/ RestCase \/ StillCase

LEMMA StateFacts ==
  /\ \A p \in Paddles : Sending[p] \in Keyed /\ DelayAfter[p] \notin Keyed
  /\ {"Idle", "LetterSpace", "DitDelay", "DashDelay"} \intersect Keyed = {}
  /\ {"StraightKey", "SendDit", "SendDash"} \subseteq Keyed
  BY DEF Sending, DelayAfter, Keyed, SendStates, Paddles

LEMMA IambicInnerCase ==
  ASSUME TypeOK, IambicInner
  PROVE  TickCase
<1> USE StateFacts
<1>1. ASSUME NEW p \in Paddles, StartElementKeyed(p), state \notin Keyed
      PROVE  TickCase
  BY <1>1 DEF StartElementKeyed, StartElement, TickCase, StartCase
<1>2. ASSUME EnterIdleFromDelay, state \notin Keyed
      PROVE  TickCase
  BY <1>2 DEF EnterIdleFromDelay, Goto, TickCase, StillCase
<1>3. CASE IambicIdle
  <2>1. CASE IambicStart # "none" /\ StartElementKeyed(IambicStart)
    <3>1. IambicStart \in Paddles
      BY <2>1 DEF IambicStart, Paddles
    <3>2. QED
      BY <1>1, <1>3, <2>1, <3>1 DEF IambicIdle
  <2>2. CASE DispatchText
    <3>1. CASE Head(text_queue) \in Paddles
                 /\ StartElementKeyed(Head(text_queue))
      BY <1>1, <1>3, <3>1 DEF IambicIdle
    <3>2. CASE GotoFor("DitDelay", config.gap[Head(text_queue)]) /\ Silent
      BY <1>3, <3>2 DEF IambicIdle, GotoFor, Silent, TickCase, StillCase
    <3>3. QED
      BY <2>2, <3>1, <3>2 DEF DispatchText
  <2>3. CASE HandleHangTime /\ Wait
    BY <1>3, <2>3 DEF IambicIdle, Wait, TickCase, RestCase
  <2>4. QED
    BY <1>3, <2>1, <2>2, <2>3 DEF IambicIdle
<1>4. ASSUME NEW p \in Paddles, IambicSend(p)
      PROVE  TickCase
  <2>1. CASE ~key_active /\ EmitKeyDown /\ Wait
    BY <1>4, <2>1 DEF IambicSend, Wait, TickCase, PressCase
  <2>2. CASE key_active /\ FinishElement(p)
    BY <1>4, <2>2
       DEF IambicSend, FinishElement, Goto, GotoFor, TickCase, ReleaseCase
  <2>3. CASE Silent /\ Wait
    BY <1>4, <2>3 DEF IambicSend, Silent, Wait, TickCase, StillCase
  <2>4. QED
    BY <1>4, <2>1, <2>2, <2>3 DEF IambicSend
<1>5. ASSUME NEW p \in Paddles, IambicDelay(p)
      PROVE  TickCase
  <2>1. state \notin Keyed
    BY <1>5 DEF IambicDelay
  <2>2. CASE Silent /\ Wait
    BY <2>1, <2>2 DEF Silent, Wait, TickCase, StillCase
  <2>3. CASE NextElement(p) # "none" /\ StartElementKeyed(NextElement(p))
    <3>1. NextElement(p) \in Paddles
      BY <2>3 DEF NextElement, UltimaticNext, IambicNext, Opp, Paddles, TypeOK
    <3>2. QED
      BY <1>1, <2>1, <2>3, <3>1
  <2>4. CASE ResolveDelayTail
    BY <1>2, <2>1, <2>4
       DEF ResolveDelayTail, Goto, GotoFor, Silent, TickCase, StillCase
  <2>5. QED
    BY <1>5, <2>2, <2>3, <2>4 DEF IambicDelay
<1>6. CASE LetterSpaceTick
  BY <1>6 DEF LetterSpaceTick, Silent, TickCase, StillCase
<1>7. QED
  BY <1>3, <1>4, <1>5, <1>6 DEF IambicInner

LEMMA SinglePaddleCase ==
  ASSUME TypeOK, TickSinglePaddle
  PROVE  TickCase
<1> USE StateFacts
<1>1. ASSUME NEW p \in Paddles, StartElementKeyed(p), state \notin Keyed
      PROVE  TickCase
  BY <1>1 DEF StartElementKeyed, StartElement, TickCase, StartCase
<1>d. "dit" \in Paddles
  BY DEF Paddles
<1>2. CASE SingleIdle
  <2>1. CASE StartElementKeyed("dit")
    BY <1>1, <1>2, <1>d, <2>1 DEF SingleIdle
  <2>2. CASE DispatchText
    <3>1. CASE Head(text_queue) \in Paddles
                 /\ StartElementKeyed(Head(text_queue))
      BY <1>1, <1>2, <3>1 DEF SingleIdle
    <3>2. CASE GotoFor("DitDelay", config.gap[Head(text_queue)]) /\ Silent
      BY <1>2, <3>2 DEF SingleIdle, GotoFor, Silent, TickCase, StillCase
    <3>3. QED
      BY <2>2, <3>1, <3>2 DEF DispatchText
  <2>3. CASE HandleHangTime /\ Wait
    BY <1>2, <2>3 DEF SingleIdle, Wait, TickCase, RestCase
  <2>4. QED
    BY <1>2, <2>1, <2>2, <2>3 DEF SingleIdle
<1>3. ASSUME NEW p \in Paddles, SingleSend(p)
      PROVE  TickCase
  <2>0. state \in Keyed
    BY <1>3 DEF SingleSend
  <2>1. CASE ~key_active /\ EmitKeyDown /\ Wait
    BY <2>0, <2>1 DEF Wait, TickCase, PressCase
  <2>2. CASE key_active /\ SingleUndecided
    BY <2>0, <2>2 DEF SingleUndecided, GotoFor, Silent, Wait,
                      TickCase, ReleaseCase, StillCase
  <2>3. CASE key_active /\ FinishElement(p)
    BY <2>0, <2>3 DEF FinishElement, Goto, GotoFor, TickCase, ReleaseCase
  <2>4. CASE Silent /\ Wait
    BY <2>0, <2>4 DEF Silent, Wait, TickCase, StillCase
  <2>5. QED
    BY <1>3, <2>1, <2>2, <2>3, <2>4 DEF SingleSend
<1>4. CASE SingleDelay
  <2>1. state \notin Keyed
    BY <1>4 DEF SingleDelay, DelayStates
  <2>2. CASE Silent /\ (Wait \/ Goto("Idle"))
    BY <2>1, <2>2 DEF Silent, Wait, Goto, TickCase, StillCase
  <2>3. CASE StartElementKeyed("dit")
    BY <1>1, <1>d, <2>1, <2>3
  <2>4. CASE EnterIdleFromDelay
    BY <2>1, <2>4 DEF EnterIdleFromDelay, Goto, TickCase, StillCase
  <2>5. QED
    BY <1>4, <2>2, <2>3, <2>4 DEF SingleDelay
<1>5. CASE LetterSpaceTick
  BY <1>5 DEF LetterSpaceTick, Silent, TickCase, StillCase
<1>6. CASE LeaveStraightKey
  BY <1>6 DEF LeaveStraightKey, TickSinglePaddle, Goto, Silent,
              TickCase, StillCase
<1>7. QED
  BY <1>2, <1>3, <1>4, <1>5, <1>6 DEF TickSinglePaddle

LEMMA TickCases ==
  ASSUME TypeOK, Tick
  PROVE  TickCase
<1> USE StateFacts
<1>1. CASE TickStraight
  <2>1. CASE StraightIdle
    BY <2>1 DEF StraightIdle, Goto, Wait, TickCase, StartCase, RestCase
  <2>2. CASE StraightKeyed
    BY <2>2 DEF StraightKeyed, Goto, Wait, Silent,
                TickCase, PressCase, StillCase, ReleaseCase
  <2>3. CASE StraightOther
    BY <2>3 DEF StraightOther, Wait, Silent, TickCase, StillCase
  <2>4. QED
    BY <1>1, <2>1, <2>2, <2>3 DEF TickStraight
<1>2. CASE TickBug
  <2>1. CASE BugDash
    BY <2>1 DEF BugDash, Goto, TickCase, StartCase
  <2>2. CASE BugKeyed
    BY <2>2 DEF BugKeyed, Goto, Wait, Silent,
                TickCase, PressCase, StillCase, ReleaseCase
  <2>3. QED
    BY <1>2, <2>1, <2>2, IambicInnerCase DEF TickBug
<1>3. CASE TickIambic
  <2>1. CASE LeaveStraightKey
    BY <1>3, <2>1 DEF LeaveStraightKey, TickIambic, Goto, Silent,
                      TickCase, StillCase
  <2>2. QED
    BY <1>3, <2>1, IambicInnerCase DEF TickIambic
<1>4. QED
  BY <1>1, <1>2, <1>3, SinglePaddleCase DEF Tick

-----------------------------------------------------------------------------
(* PTT covers the key, even if the mode changes under a keyed element.     *)

LEMMA TickPtt ==
  ASSUME TypeOK, PttCoversKey, Tick
  PROVE  PttCoversKey'
<1> USE StateFacts DEF PttCoversKey
<1>1. CASE StartCase
  BY <1>1 DEF StartCase, EmitPttOrKeyDown, EmitKeyDown
<1>2. CASE PressCase
  BY <1>2 DEF PressCase, EmitKeyDown
<1>3. CASE ReleaseCase
  BY <1>3 DEF ReleaseCase, EmitKeyUp
<1>4. CASE RestCase
  <2>1. CASE ptt_active /\ ~key_active
    BY <1>4, <2>1 DEF RestCase, HandleHangTime
  <2>2. CASE ~(ptt_active /\ ~key_active)
    BY <1>4, <2>2 DEF RestCase, HandleHangTime, Silent
  <2>3. QED
    BY <2>1, <2>2
<1>5. CASE StillCase
  BY <1>5 DEF StillCase
<1>6. QED
  BY <1>1, <1>2, <1>3, <1>4, <1>5, TickCases DEF TickCase

\* A call between ticks touches neither line nor the state.
LEMMA CallsKeepLines ==
  ASSUME \/ \E raw \in SUBSET Paddles : SetPaddle(raw)
         \/ \E c \in Configs : UpdateConfig(c)
         \/ \E t \in Texts : SendText(t)
         \/ AbortText
         \/ DrainTransitions
  PROVE  /\ out' = "none"
         /\ UNCHANGED <<ptt_active, key_active, hang_counter, state, phase>>
  BY DEF SetPaddle, UpdateConfig, SendText, AbortText, DrainTransitions,
         ReturnsNothing, phaseVars

\* Whatever happens between ticks, mode changes included, the transmitter is
\* never keyed with PTT off.
THEOREM PttCoversKeyAlways == Spec => []PttCoversKey
<1>1. Init => PttCoversKey
  BY StateFacts DEF Init, PttCoversKey
<1>2. TypeOK /\ PttCoversKey /\ [Next]_vars => PttCoversKey'
  <2> SUFFICES ASSUME TypeOK, PttCoversKey, [Next]_vars
               PROVE  PttCoversKey'
    OBVIOUS
  <2>1. CASE Tick
    BY <2>1, TickPtt
  <2>2. CASE Next /\ ~Tick
    BY <2>2, CallsKeepLines DEF Next, PttCoversKey
  <2>3. CASE UNCHANGED vars
    BY <2>3 DEF vars, lineVars, phaseVars, PttCoversKey
  <2>4. QED
    BY <2>1, <2>2, <2>3
<1>3. QED
  BY <1>1, <1>2, TypeCorrect, PTL DEF Spec

-----------------------------------------------------------------------------
(* A queued text is never stranded.                                        *)

LEMMA TickQueue ==
  ASSUME TypeOK, QueueImpliesSending, Tick
  PROVE  QueueImpliesSending'
<1> USE DEF QueueImpliesSending
<1>1. UNCHANGED textVars => QueueImpliesSending'
  BY DEF textVars
<1>2. AbortTextIfHeld => QueueImpliesSending'
  BY <1>1 DEF AbortTextIfHeld
<1>3. DispatchText => QueueImpliesSending'
  BY DEF DispatchText
<1>4. EnterIdleFromDelay /\ ~TextPendingUnheld => QueueImpliesSending'
  BY DEF EnterIdleFromDelay, TextPendingUnheld, TextPending
<1>5. ResolveDelayTail => QueueImpliesSending'
  BY <1>1, <1>2, <1>4 DEF ResolveDelayTail
<1>6. IambicInner => QueueImpliesSending'
  <2>1. IambicIdle => QueueImpliesSending'
    BY <1>1, <1>3 DEF IambicIdle
  <2>2. \A p \in Paddles : IambicSend(p) => QueueImpliesSending'
    BY <1>1 DEF IambicSend
  <2>3. \A p \in Paddles : IambicDelay(p) => QueueImpliesSending'
    BY <1>2, <1>5 DEF IambicDelay
  <2>4. LetterSpaceTick => QueueImpliesSending'
    BY <1>1 DEF LetterSpaceTick
  <2>5. QED
    BY <2>1, <2>2, <2>3, <2>4 DEF IambicInner
<1>7. LeaveStraightKey => QueueImpliesSending'
  BY <1>1 DEF LeaveStraightKey
<1>8. TickStraight => QueueImpliesSending'
  BY <1>1 DEF TickStraight
<1>9. TickBug => QueueImpliesSending'
  BY <1>1, <1>6 DEF TickBug
<1>10. TickSinglePaddle => QueueImpliesSending'
  <2>1. SingleIdle => QueueImpliesSending'
    BY <1>1, <1>3 DEF SingleIdle
  <2>2. \A p \in Paddles : SingleSend(p) => QueueImpliesSending'
    BY <1>1 DEF SingleSend
  <2>3. SingleDelay => QueueImpliesSending'
    BY <1>1, <1>2, <1>4 DEF SingleDelay, TextPendingUnheld
  <2>4. LetterSpaceTick => QueueImpliesSending'
    BY <1>1 DEF LetterSpaceTick
  <2>5. QED
    BY <1>7, <2>1, <2>2, <2>3, <2>4 DEF TickSinglePaddle
<1>11. QED
  BY <1>6, <1>7, <1>8, <1>9, <1>10 DEF Tick, TickIambic

\* Elements are queued only while text_sending is set, for any text, mode
\* change and paddle movement, so no session ends on a queue it forgot.
THEOREM QueueNeverStranded == Spec => []QueueImpliesSending
<1>1. Init => QueueImpliesSending
  BY DEF Init, QueueImpliesSending
<1>2. TypeOK /\ QueueImpliesSending /\ [Next]_vars => QueueImpliesSending'
  <2> SUFFICES ASSUME TypeOK, QueueImpliesSending, [Next]_vars
               PROVE  QueueImpliesSending'
    OBVIOUS
  <2>1. CASE Tick
    BY <2>1, TickQueue
  <2>2. ASSUME NEW raw \in SUBSET Paddles, SetPaddle(raw)
        PROVE  QueueImpliesSending'
    <3>1. \/ UNCHANGED textVars
          \/ text_queue' = <<>>
      BY <2>2, Zenon DEF SetPaddle
    <3>2. QED
      BY <3>1 DEF QueueImpliesSending, textVars
  <2>3. CASE \E c \in Configs : UpdateConfig(c)
    BY <2>3 DEF UpdateConfig, QueueImpliesSending, textVars
  <2>4. CASE \E t \in Texts : SendText(t)
    BY <2>4 DEF SendText, QueueImpliesSending
  <2>5. CASE AbortText \/ DrainTransitions
    BY <2>5 DEF AbortText, DrainTransitions, QueueImpliesSending, textVars
  <2>6. CASE UNCHANGED vars
    BY <2>6 DEF vars, textVars, QueueImpliesSending
  <2>7. QED
    BY <2>1, <2>2, <2>3, <2>4, <2>5, <2>6 DEF Next
<1>3. QED
  BY <1>1, <1>2, TypeCorrect, PTL DEF Spec

-----------------------------------------------------------------------------
(* With the mode changed only at rest, the key follows the state.          *)

LEMMA NoStraightKey ==
  ASSUME TypeOK, IambicInner \/ TickSinglePaddle, state # "StraightKey"
  PROVE  state' # "StraightKey"
<1>1. \A p \in Paddles : Sending[p] # "StraightKey" /\ DelayAfter[p] # "StraightKey"
  BY DEF Sending, DelayAfter, Paddles
<1>2. \A p \in Paddles : StartElementKeyed(p) => state' # "StraightKey"
  BY <1>1 DEF StartElementKeyed, StartElement
<1>3. text_queue # <<>> /\ DispatchText => state' # "StraightKey"
  BY <1>2 DEF DispatchText, GotoFor
<1>4. \A p \in Paddles : FinishElement(p) => state' # "StraightKey"
  BY <1>1 DEF FinishElement, Goto, GotoFor
<1>5. ResolveDelayTail \/ EnterIdleFromDelay => state' # "StraightKey"
  BY DEF ResolveDelayTail, EnterIdleFromDelay, Goto, GotoFor
<1>6. IambicInner => state' # "StraightKey"
  <2>1. IambicIdle => state' # "StraightKey"
    <3>1. IambicStart # "none" => IambicStart \in Paddles
      BY DEF IambicStart, Paddles
    <3>2. QED
      BY <1>2, <1>3, <3>1 DEF IambicIdle, Wait
  <2>2. \A p \in Paddles : IambicSend(p) => state' # "StraightKey"
    BY <1>1, <1>4 DEF IambicSend, Wait
  <2>3. \A p \in Paddles : IambicDelay(p) => state' # "StraightKey"
    <3>1. \A p \in Paddles : NextElement(p) \in Paddles \union {"none"}
      BY DEF NextElement, UltimaticNext, IambicNext, Opp, Paddles, TypeOK
    <3>2. QED
      BY <1>1, <1>2, <1>5, <3>1 DEF IambicDelay, Wait
  <2>4. LetterSpaceTick => state' # "StraightKey"
    BY DEF LetterSpaceTick
  <2>5. QED
    BY <2>1, <2>2, <2>3, <2>4 DEF IambicInner
<1>7. TickSinglePaddle => state' # "StraightKey"
  <2>1. "dit" \in Paddles
    BY DEF Paddles
  <2>2. SingleIdle => state' # "StraightKey"
    BY <1>2, <1>3, <2>1 DEF SingleIdle, Wait
  <2>3. \A p \in Paddles : SingleSend(p) => state' # "StraightKey"
    BY <1>1, <1>4 DEF SingleSend, SingleUndecided, Wait, GotoFor
  <2>4. SingleDelay => state' # "StraightKey"
    BY <1>2, <1>5, <2>1 DEF SingleDelay, Wait, Goto, DelayStates
  <2>5. LetterSpaceTick \/ LeaveStraightKey => state' # "StraightKey"
    BY DEF LetterSpaceTick, LeaveStraightKey
  <2>6. QED
    BY <2>2, <2>3, <2>4, <2>5 DEF TickSinglePaddle
<1>8. QED
  BY <1>6, <1>7

LEMMA TickKey ==
  ASSUME TypeOK, KeyFollowsState, Tick
  PROVE  KeyFollowsState'
<1> USE StateFacts
<1>1. (key_active => state \in Keyed)'
  <2>1. CASE StartCase
    BY <2>1 DEF StartCase
  <2>2. CASE PressCase
    BY <2>2 DEF PressCase
  <2>3. CASE ReleaseCase
    BY <2>3 DEF ReleaseCase, EmitKeyUp
  <2>4. CASE RestCase
    BY <2>4 DEF RestCase, HandleHangTime, Silent, KeyFollowsState
  <2>5. CASE StillCase
    BY <2>5 DEF StillCase, KeyFollowsState
  <2>6. QED
    BY <2>1, <2>2, <2>3, <2>4, <2>5, TickCases DEF TickCase
<1>2. UNCHANGED config
  BY DEF Tick, TickStraight, TickBug, TickIambic, TickSinglePaddle
<1>3. config.mode = "Straight" => state' \in {"Idle", "StraightKey"}
  BY DEF Tick, TickStraight, TickBug, Bug, TickIambic, TickSinglePaddle,
         StraightIdle, StraightKeyed, StraightOther, Goto, Wait, KeyFollowsState
<1>4. state' = "StraightKey" => config.mode \in {"Straight", "Bug"}
  <2>1. CASE TickIambic
    BY <2>1, NoStraightKey DEF TickIambic, LeaveStraightKey, Goto, KeyFollowsState
  <2>2. CASE TickSinglePaddle
    BY <2>2, NoStraightKey DEF TickSinglePaddle, KeyFollowsState
  <2>3. CASE TickStraight \/ TickBug
    BY <2>3 DEF TickStraight, TickBug, Bug
  <2>4. QED
    BY <2>1, <2>2, <2>3 DEF Tick
<1>5. QED
  BY <1>1, <1>2, <1>3, <1>4 DEF KeyFollowsState

\* A key that is down is in a state that will lift it, provided the host
\* changes the keyer mode only while the engine is idle.
THEOREM KeyFollowsStateAlways ==
  ASSUME LiveModeChange = FALSE
  PROVE  Spec => []KeyFollowsState
<1>1. Init => KeyFollowsState
  BY StateFacts DEF Init, KeyFollowsState
<1>2. TypeOK /\ KeyFollowsState /\ [Next]_vars => KeyFollowsState'
  <2> SUFFICES ASSUME TypeOK, KeyFollowsState, [Next]_vars
               PROVE  KeyFollowsState'
    OBVIOUS
  <2>1. CASE Tick
    BY <2>1, TickKey
  <2>2. ASSUME NEW c \in Configs, UpdateConfig(c)
        PROVE  KeyFollowsState'
    <3>1. UNCHANGED <<key_active, state>> /\ config' = c
      BY <2>2 DEF UpdateConfig, ReturnsNothing, phaseVars
    <3>2. c.mode = config.mode \/ state = "Idle"
      BY <2>2 DEF UpdateConfig
    <3>3. QED
      BY <3>1, <3>2 DEF KeyFollowsState
  <2>3. CASE \/ \E raw \in SUBSET Paddles : SetPaddle(raw)
             \/ \E t \in Texts : SendText(t)
             \/ AbortText
             \/ DrainTransitions
    <3>1. UNCHANGED <<config, key_active, state>>
      BY <2>3 DEF SetPaddle, SendText, AbortText, DrainTransitions,
                  ReturnsNothing, phaseVars
    <3>2. QED
      BY <3>1 DEF KeyFollowsState
  <2>4. CASE UNCHANGED vars
    BY <2>4 DEF vars, lineVars, phaseVars, KeyFollowsState
  <2>5. QED
    BY <2>1, <2>2, <2>3, <2>4 DEF Next
<1>3. QED
  BY <1>1, <1>2, TypeCorrect, PTL DEF Spec

\* Events report exactly the changes of the two lines, under the same proviso.
THEOREM EventsTrackLinesAlways ==
  ASSUME LiveModeChange = FALSE
  PROVE  Spec => EventsTrackLines
<1> DEFINE Tracks ==
      /\ out' = "KeyDown" <=> ~key_active /\ key_active'
      /\ out' = "KeyUp"   <=> key_active /\ ~key_active'
      /\ out' = "PttOn"   <=> ~ptt_active /\ ptt_active'
      /\ out' = "PttOff"  <=> ptt_active /\ ~ptt_active'
<1>1. TypeOK /\ KeyFollowsState /\ Next => Tracks
  <2> SUFFICES ASSUME TypeOK, KeyFollowsState, Next PROVE Tracks
    OBVIOUS
  <2> USE StateFacts DEF KeyFollowsState
  <2>1. CASE Next /\ ~Tick
    BY <2>1, CallsKeepLines DEF Next
  <2>2. CASE StartCase
    BY <2>2 DEF StartCase, EmitPttOrKeyDown, EmitKeyDown
  <2>3. CASE PressCase
    BY <2>3 DEF PressCase, EmitKeyDown
  <2>4. CASE ReleaseCase
    BY <2>4 DEF ReleaseCase, EmitKeyUp
  <2>5. CASE RestCase
    <3>1. CASE ptt_active /\ ~key_active
      BY <2>5, <3>1 DEF RestCase, HandleHangTime
    <3>2. CASE ~(ptt_active /\ ~key_active)
      BY <2>5, <3>2 DEF RestCase, HandleHangTime, Silent
    <3>3. QED
      BY <3>1, <3>2
  <2>6. CASE StillCase
    BY <2>6 DEF StillCase
  <2>7. QED
    BY <2>1, <2>2, <2>3, <2>4, <2>5, <2>6, TickCases DEF TickCase
<1>2. TypeOK /\ KeyFollowsState /\ [Next]_vars => [Tracks]_vars
  BY <1>1
<1>3. Spec => [][Tracks]_vars
  BY <1>2, TypeCorrect, KeyFollowsStateAlways, PTL DEF Spec
<1>4. QED
  BY <1>3 DEF EventsTrackLines

-----------------------------------------------------------------------------
(* The recorded transitions alternate.                                     *)

\* Appending an edge to an alternating ring that ends with the other level,
\* with or without evicting its oldest entry, keeps it alternating.
LEMMA RecordedAlternates ==
  ASSUME TypeOK, RingAlternates, NEW b \in BOOLEAN, key_active # b,
         transitions' = Recorded(b), key_active' = b
  PROVE  RingAlternates'
<1> DEFINE N == Len(transitions)
           kept == IF N = MAX_RECORDED_TRANSITIONS
                   THEN Tail(transitions) ELSE transitions
<1>1. transitions \in Seq(BOOLEAN) /\ N \in Nat
  BY DEF TypeOK
<1>2. /\ kept \in Seq(BOOLEAN)
      /\ \A i \in 1 .. Len(kept) - 1 : kept[i] # kept[i + 1]
      /\ kept # <<>> => kept[Len(kept)] # b
  <2>1. CASE N = MAX_RECORDED_TRANSITIONS
    <3>1. transitions # <<>>
      BY <1>1, <2>1, RingAssumption
    <3>2. /\ kept \in Seq(BOOLEAN) /\ Len(kept) = N - 1
          /\ \A i \in 1 .. N - 1 : kept[i] = transitions[i + 1]
      BY <1>1, <2>1, <3>1
    <3>3. \A i \in 1 .. Len(kept) - 1 : kept[i] # kept[i + 1]
      BY <1>1, <3>2 DEF RingAlternates
    <3>4. kept # <<>> => kept[Len(kept)] = transitions[N]
      <4> HIDE DEF kept, N
      <4>1. kept # <<>> => N - 1 >= 1
        BY <1>1, <3>2
      <4>2. N - 1 >= 1 => N - 1 \in 1 .. N - 1 /\ (N - 1) + 1 = N
        BY <1>1
      <4>3. QED
        BY <3>2, <4>1, <4>2
    <3>5. transitions[N] = key_active
      BY <3>1 DEF RingAlternates
    <3>6. QED
      BY <3>2, <3>3, <3>4, <3>5
  <2>2. CASE N # MAX_RECORDED_TRANSITIONS
    BY <1>1, <2>2 DEF RingAlternates
  <2>3. QED
    BY <2>1, <2>2
<1>3. transitions' = Append(kept, b)
  BY DEF Recorded
<1> HIDE DEF kept
<1>4. /\ Len(transitions') = Len(kept) + 1 /\ Len(kept) \in Nat
      /\ transitions'[Len(kept) + 1] = b
      /\ \A i \in 1 .. Len(kept) : transitions'[i] = kept[i]
  BY <1>2, <1>3
<1>5. kept # <<>> <=> Len(kept) > 0
  BY <1>2
<1>6. \A i \in 1 .. Len(transitions') - 1 : transitions'[i] # transitions'[i + 1]
  <2> SUFFICES ASSUME NEW i \in 1 .. Len(kept)
               PROVE  transitions'[i] # transitions'[i + 1]
    BY <1>4
  <2>1. CASE i = Len(kept)
    BY <1>2, <1>4, <1>5, <2>1
  <2>2. CASE i # Len(kept)
    <3>1. i \in 1 .. Len(kept) - 1 /\ i + 1 \in 1 .. Len(kept)
      BY <1>4, <2>2
    <3>2. QED
      BY <1>2, <1>4, <3>1
  <2>3. QED
    BY <2>1, <2>2
<1>7. transitions'[Len(transitions')] = key_active'
  BY <1>4
<1>8. QED
  BY <1>6, <1>7 DEF RingAlternates

\* Whatever the ring evicted or the host drained, what it holds alternates
\* and ends with the present level of the key line.
THEOREM RingAlternatesAlways ==
  ASSUME LiveModeChange = FALSE
  PROVE  Spec => []RingAlternates
<1>1. Init => RingAlternates
  BY DEF Init, RingAlternates
<1>2. /\ TypeOK /\ KeyFollowsState /\ RingAlternates /\ [Next]_vars
      => RingAlternates'
  <2> SUFFICES ASSUME TypeOK, KeyFollowsState, RingAlternates, [Next]_vars
               PROVE  RingAlternates'
    OBVIOUS
  <2> USE StateFacts DEF KeyFollowsState
  <2>0. UNCHANGED <<transitions, key_active>> => RingAlternates'
    BY DEF RingAlternates
  <2>1. EmitKeyDown /\ ~key_active => RingAlternates'
    <3> SUFFICES ASSUME EmitKeyDown, ~key_active PROVE RingAlternates'
      OBVIOUS
    <3>1. key_active # TRUE /\ key_active' = TRUE /\ transitions' = Recorded(TRUE)
      BY DEF EmitKeyDown
    <3>2. QED
      BY <3>1, RecordedAlternates
  <2>2. EmitKeyUp /\ key_active => RingAlternates'
    <3> SUFFICES ASSUME EmitKeyUp, key_active PROVE RingAlternates'
      OBVIOUS
    <3>1. key_active # FALSE /\ key_active' = FALSE
          /\ transitions' = Recorded(FALSE)
      BY DEF EmitKeyUp
    <3>2. QED
      BY <3>1, RecordedAlternates
  <2>3. Tick => RingAlternates'
    <3>1. StartCase => RingAlternates'
      BY <2>0, <2>1 DEF StartCase, EmitPttOrKeyDown
    <3>2. PressCase \/ ReleaseCase => RingAlternates'
      BY <2>1, <2>2 DEF PressCase, ReleaseCase
    <3>3. RestCase => RingAlternates'
      BY <2>0 DEF RestCase, HandleHangTime, Silent
    <3>4. StillCase => RingAlternates'
      BY <2>0 DEF StillCase
    <3>5. QED
      BY <3>1, <3>2, <3>3, <3>4, TickCases DEF TickCase
  <2>4. CASE DrainTransitions
    BY <2>4 DEF DrainTransitions, RingAlternates
  <2>5. CASE Next /\ ~Tick /\ ~DrainTransitions
    <3>1. UNCHANGED <<transitions, key_active>>
      BY <2>5 DEF Next, SetPaddle, UpdateConfig, SendText, AbortText,
                  ReturnsNothing
    <3>2. QED
      BY <2>0, <3>1
  <2>6. CASE UNCHANGED vars
    BY <2>0, <2>6 DEF vars, lineVars
  <2>7. QED
    BY <2>3, <2>4, <2>5, <2>6
<1>3. QED
  BY <1>1, <1>2, TypeCorrect, KeyFollowsStateAlways, PTL DEF Spec

\* The state of the engine, the key line and the recorded transitions agree
\* (tick, emit_key_down, emit_key_up, record_transition).
THEOREM LinesAgreeAlways ==
  ASSUME LiveModeChange = FALSE
  PROVE  Spec => []LinesAgree
<1>1. KeyFollowsState /\ RingAlternates => LinesAgree
  BY DEF LinesAgree
<1> QED BY <1>1, KeyFollowsStateAlways, RingAlternatesAlways, PTL
=============================================================================
