-------------------------- MODULE KeyerTimedProofs --------------------------
(***************************************************************************)
(* The timing of the key line, proved for every configuration: the hang    *)
(* time under any mode change, the refinement of KeyLine while the mode    *)
(* only changes at rest, gaps and the beginnings of sessions of paddles    *)
(* alone, and the lengths of elements.                                     *)
(***************************************************************************)
EXTENDS KeyerTimed, KeyerEngineProofs

\* The stopwatch only observes.
LEMMA TimedIsEngine == TimedSpec => Spec
<1>1. TimedInit => Init
  BY DEF TimedInit
<1>2. [TimedNext]_timedVars => [Next]_vars
  BY DEF TimedNext, TimedTick, TimedCall, Next, timedVars
<1>3. QED
  BY <1>1, <1>2, PTL DEF TimedSpec, Spec

SinceOK == since \in 0 .. TIME_CAP

\* The hang counter never runs ahead of the stopwatch: it counts a subset of
\* the ticks since the key went up, whichever session they belong to.
HangInv ==
  /\ SinceOK
  /\ key_active => hang_counter = 0
  /\ ~key_active => Lesser(hang_counter, TIME_CAP) <= since

LEMMA TickHang ==
  ASSUME TypeOK, HangInv, TimedTick
  PROVE  HangInv'
<1> DEFINE older == Lesser(since + TICK, TIME_CAP)
<1>1. since' = IF key_active' # key_active THEN 0 ELSE older
  BY DEF TimedTick
<1>2. /\ TIME_CAP \in Nat /\ since \in Nat /\ since <= TIME_CAP
      /\ hang_counter \in Nat /\ TICK \in Nat \ {0} /\ U32_MAX \in Nat
  BY TimeCapAssumption, TickAssumption, U32Assumption
     DEF HangInv, SinceOK, TypeOK
<1>3. older \in 0 .. TIME_CAP /\ since <= older
      /\ (older = TIME_CAP \/ older = since + TICK)
  BY <1>2 DEF Lesser
<1>4. SinceOK'
  BY <1>1, <1>2, <1>3 DEF SinceOK
<1>5. Lesser(0, TIME_CAP) = 0
  BY <1>2 DEF Lesser
<1> HIDE DEF older
<1>6. EmitKeyDown => HangInv'
  BY <1>4 DEF EmitKeyDown, HangInv
<1>7. CASE StartCase
  <2>1. CASE ptt_active
    BY <1>6, <1>7, <2>1 DEF StartCase, EmitPttOrKeyDown
  <2>2. CASE ~ptt_active
    <3>1. UNCHANGED <<key_active, hang_counter>>
      BY <1>7, <2>2 DEF StartCase, EmitPttOrKeyDown
    <3>2. QED
      BY <1>1, <1>2, <1>3, <1>4, <3>1 DEF HangInv, Lesser
  <2>3. QED
    BY <2>1, <2>2
<1>8. CASE PressCase
  BY <1>6, <1>8 DEF PressCase
<1>9. CASE ReleaseCase
  <2>1. key_active /\ ~key_active' /\ hang_counter' = 0
    BY <1>9 DEF ReleaseCase, EmitKeyUp, HangInv
  <2>2. since' = 0
    BY <1>1, <2>1
  <2>3. QED
    BY <1>4, <1>5, <2>1, <2>2 DEF HangInv
<1>10. CASE RestCase
  <2>1. CASE ptt_active /\ ~key_active
    <3>1. /\ UNCHANGED key_active
          /\ hang_counter' = Lesser(hang_counter + TICK, U32_MAX)
      BY <1>10, <2>1 DEF RestCase, HandleHangTime
    <3>2. since' = older
      BY <1>1, <3>1
    <3>3. Lesser(hang_counter, TIME_CAP) <= since
      BY <2>1 DEF HangInv
    <3>4. Lesser(hang_counter', TIME_CAP) <= since'
      BY <1>2, <1>3, <3>1, <3>2, <3>3 DEF Lesser
    <3>5. QED
      BY <1>4, <2>1, <3>1, <3>4 DEF HangInv
  <2>2. CASE ~(ptt_active /\ ~key_active)
    <3>1. UNCHANGED <<key_active, hang_counter>>
      BY <1>10, <2>2 DEF RestCase, HandleHangTime, Silent
    <3>2. QED
      BY <1>1, <1>2, <1>3, <1>4, <3>1 DEF HangInv, Lesser
  <2>3. QED
    BY <2>1, <2>2
<1>11. CASE StillCase
  <2>1. UNCHANGED key_active /\ hang_counter' \in {0, hang_counter}
    BY <1>11 DEF StillCase
  <2>2. QED
    BY <1>1, <1>2, <1>3, <1>4, <1>5, <2>1 DEF HangInv, Lesser
<1>12. QED
  BY <1>7, <1>8, <1>9, <1>10, <1>11, TickCases DEF TickCase, TimedTick

LEMMA CallsKeepTime ==
  ASSUME TimedCall
  PROVE  /\ out' = "none"
         /\ UNCHANGED <<ptt_active, key_active, hang_counter, state, since>>
  BY CallsKeepLines DEF TimedCall, Touched

LEMMA HangInvAlways == TimedSpec => []HangInv
<1>1. TimedInit => HangInv
  BY TimeCapAssumption DEF TimedInit, Init, HangInv, SinceOK, Lesser
<1>2. TypeOK /\ HangInv /\ [TimedNext]_timedVars => HangInv'
  <2> SUFFICES ASSUME TypeOK, HangInv, [TimedNext]_timedVars PROVE HangInv'
    OBVIOUS
  <2>1. CASE TimedTick
    BY <2>1, TickHang
  <2>2. CASE TimedCall
    BY <2>2, CallsKeepTime DEF HangInv, SinceOK
  <2>3. CASE UNCHANGED timedVars
    BY <2>3 DEF timedVars, vars, lineVars, HangInv, SinceOK
  <2>4. QED
    BY <2>1, <2>2, <2>3 DEF TimedNext
<1>3. QED
  BY <1>1, <1>2, TimedIsEngine, TypeCorrect, PTL DEF TimedSpec

\* The step behind HangRespected.
LEMMA PttOffStep ==
  ASSUME TypeOK, HangInv, HangInv', TimedNext, ptt_active, ~ptt_active'
  PROVE  ~key_active /\ since' >= config.hang
<1>1. TimedTick
  BY CallsKeepTime DEF TimedNext
<1>2. RestCase
  BY <1>1, TickCases
     DEF TimedTick, TickCase, StartCase, PressCase, ReleaseCase, StillCase,
         EmitPttOrKeyDown, EmitKeyDown, EmitKeyUp
<1>3. ~key_active /\ ~key_active' /\ hang_counter' >= config.hang
  BY <1>2 DEF RestCase, HandleHangTime, Silent
<1>4. Lesser(hang_counter', TIME_CAP) <= since' /\ since' \in Nat
  BY <1>3, TimeCapAssumption DEF HangInv, SinceOK
<1>5. config.hang \in Nat /\ config.hang <= TIME_CAP /\ hang_counter' \in Nat
  <2>1. config.hang \in 0 .. U32_MAX /\ config.hang <= TIME_CAP
    BY ConfigFacts, TimeCapAssumption DEF TypeOK
  <2>2. TypeOK'
    BY <1>1, TickType DEF TimedTick
  <2>3. QED
    BY <2>1, <2>2, U32Assumption DEF TypeOK
<1>6. since' >= config.hang
  BY <1>3, <1>4, <1>5, TimeCapAssumption DEF Lesser
<1>7. QED
  BY <1>3, <1>6

\* PTT is dropped only with the key up for the hang time in force, for every
\* hang time and however the mode changes.
THEOREM HangRespectedAlways == TimedSpec => HangRespected
<1> DEFINE Respects == ptt_active /\ ~ptt_active' =>
                         ~key_active /\ since' >= config.hang
<1>1. TypeOK /\ HangInv /\ HangInv' /\ [TimedNext]_timedVars
        => [Respects]_timedVars
  BY PttOffStep
<1>2. TimedSpec => [][Respects]_timedVars
  BY <1>1, TimedIsEngine, TypeCorrect, HangInvAlways, PTL DEF TimedSpec
<1>3. QED
  BY <1>2 DEF HangRespected

-----------------------------------------------------------------------------
(* The refinement: each of the five cases of a tick is a step of KeyLine.  *)

LEMMA StepIsLineStep ==
  ASSUME TypeOK, PttCoversKey, KeyFollowsState, HangInv, HangInv', TimedNext
  PROVE  Line!Next
<1> USE StateFacts DEF Line!Next
<1>a. Line!Older = Lesser(since + TICK, TIME_CAP)
  BY DEF Line!Older, Line!Min2, Lesser
<1>1. CASE TimedCall
  BY <1>1, CallsKeepTime DEF Line!NoEvent
<1>2. CASE TimedTick
  <2>1. since' = IF key_active' # key_active THEN 0 ELSE Line!Older
    BY <1>2, <1>a DEF TimedTick
  <2>2. EmitKeyDown /\ ~key_active /\ ptt_active => Line!KeyDown
    BY <2>1 DEF EmitKeyDown, Line!KeyDown
  <2>3. CASE StartCase
    <3>1. ~key_active
      BY <2>3 DEF StartCase, KeyFollowsState
    <3>2. CASE ptt_active
      BY <2>2, <2>3, <3>1, <3>2 DEF StartCase, EmitPttOrKeyDown
    <3>3. CASE ~ptt_active
      BY <2>1, <2>3, <3>1, <3>3 DEF StartCase, EmitPttOrKeyDown, Line!PttOn
    <3>4. QED
      BY <3>2, <3>3
  <2>4. CASE PressCase
    BY <2>2, <2>4 DEF PressCase, PttCoversKey
  <2>5. CASE ReleaseCase
    <3>1. since' = 0
      BY <2>1, <2>5 DEF ReleaseCase, EmitKeyUp
    <3>2. QED
      BY <2>5, <3>1 DEF ReleaseCase, EmitKeyUp, PttCoversKey, Line!KeyUp
  <2>6. CASE RestCase
    <3>1. ~key_active
      BY <2>6 DEF RestCase, KeyFollowsState
    <3>2. UNCHANGED key_active
      BY <2>6 DEF RestCase, HandleHangTime, Silent
    <3>3. since' = Line!Older
      BY <2>1, <3>2
    <3>4. CASE ptt_active /\ ~ptt_active'
      <4>1. since' >= config.hang
        BY <3>4, PttOffStep
      <4>2. since' >= HANG
        <5>1. HANG \in Nat /\ config.hang \in Nat /\ HANG <= config.hang
          BY ConfigFacts, TimeCapAssumption, U32Assumption DEF TypeOK
        <5>2. since' \in Nat
          BY TimeCapAssumption DEF HangInv, SinceOK
        <5>3. QED
          BY <4>1, <5>1, <5>2
      <4>3. out' = "PttOff"
        BY <2>6, <3>4 DEF RestCase, HandleHangTime, Silent
      <4>4. QED
        BY <3>1, <3>2, <3>3, <3>4, <4>2, <4>3 DEF Line!PttOff
    <3>5. CASE ~(ptt_active /\ ~ptt_active')
      <4>1. out' = "none" /\ UNCHANGED ptt_active
        BY <2>6, <3>5 DEF RestCase, HandleHangTime, Silent
      <4>2. QED
        BY <3>2, <3>3, <4>1 DEF Line!NoEvent
    <3>6. QED
      BY <3>4, <3>5
  <2>7. CASE StillCase
    BY <2>1, <2>7 DEF StillCase, Line!NoEvent
  <2>8. QED
    BY <1>2, <2>3, <2>4, <2>5, <2>6, <2>7, TickCases DEF TimedTick, TickCase
<1>3. QED
  BY <1>1, <1>2 DEF TimedNext

\* While the mode only changes at rest, the keyer is a well-behaved key line
\* for whoever follows its events: every step is a step of KeyLine.
THEOREM RefinesKeyLine ==
  ASSUME LiveModeChange = FALSE
  PROVE  TimedSpec => ImplementsKeyLine
<1>1. TimedInit => Line!Init
  BY DEF TimedInit, Init, Line!Init
<1>2. /\ TypeOK /\ PttCoversKey /\ KeyFollowsState /\ HangInv /\ HangInv'
      /\ [TimedNext]_timedVars
      => [Line!Next]_(Line!vars)
  BY StepIsLineStep DEF timedVars, vars, lineVars, Line!vars
<1>3. TimedSpec => Line!Spec
  BY <1>1, <1>2, TimedIsEngine, TypeCorrect, PttCoversKeyAlways,
     KeyFollowsStateAlways, HangInvAlways, PTL DEF TimedSpec, Line!Spec
<1>4. QED
  BY <1>3 DEF ImplementsKeyLine
-----------------------------------------------------------------------------
(* What a tick can do to the phase: ten cases, from which the lengths of   *)
(* elements and gaps follow without looking at the modes again.            *)

Undecided ==
  config.mode = "SinglePaddle" /\ state = "SendDit" /\ ~single_paddle_decided

BeginStep ==
  /\ state = "Idle" \/ (state \in DelayStates /\ Expired)
  /\ \E p \in Paddles : StartElementKeyed(p)
PressStep ==
  /\ state \in SendStates /\ ~key_active
  /\ EmitKeyDown /\ Wait /\ UNCHANGED single_paddle_decided
HoldStep ==
  /\ state \in SendStates /\ key_active /\ ~Expired
  /\ Silent /\ Wait /\ UNCHANGED single_paddle_decided
ExtendStep ==
  /\ Undecided /\ key_active /\ Expired /\ Silent
  /\ state' = "SendDash"
  /\ Schedule(Monus(config.dur["dash"], config.dur["dit"]))
ReleaseStep ==
  /\ state \in SendStates /\ key_active /\ EmitKeyUp
  /\ Expired \/ Undecided
  /\ \/ text_sending /\ Expired /\ Goto("Idle")
     \/ \E s \in DelayStates : GotoFor(s, config.gap["ElementGap"])
GapStep == state \in DelayStates /\ ~Expired /\ Silent /\ Wait
GapEndStep ==
  /\ state \in DelayStates /\ Expired
  /\ out' = "none" /\ UNCHANGED <<ptt_active, key_active>>
  /\ Goto("Idle") \/ GotoFor("LetterSpace", LetterRest)
TextGapStep ==
  /\ state = "Idle" /\ text_queue # <<>> /\ Head(text_queue) \in TextGaps
  /\ Silent /\ GotoFor("DitDelay", config.gap[Head(text_queue)])
RestStep ==
  /\ state \in {"Idle", "LetterSpace"}
  /\ out' \notin {"KeyDown", "KeyUp"} /\ UNCHANGED key_active
  /\ Wait \/ (state' = "Idle" /\ (phase' = 0 \/ (phase' = Rem /\ Expired)))
StraightStep ==
  /\ config.mode \in {"Straight", "Bug"}
  /\ state \in {"Idle", "StraightKey"} /\ state' \in {"Idle", "StraightKey"}
  /\ phase' = Rem

TimeCase ==
  \/ BeginStep \/ PressStep \/ HoldStep \/ ExtendStep \/ ReleaseStep
  \/ GapStep \/ GapEndStep \/ TextGapStep \/ RestStep \/ StraightStep

LEMMA PhaseStates ==
  /\ \A p \in Paddles : Sending[p] \in SendStates /\ DelayAfter[p] \in DelayStates
  /\ \A s \in DelayStates : \E p \in Paddles : s = DelayAfter[p]
  /\ "dit" \in Paddles /\ "dash" \in Paddles
  BY DEF Sending, DelayAfter, SendStates, DelayStates, Paddles

\* A text's next element.
LEMMA DispatchTimes ==
  ASSUME state = "Idle", text_queue # <<>>, DispatchText
  PROVE  TimeCase
<1>1. CASE Head(text_queue) \in Paddles /\ StartElementKeyed(Head(text_queue))
  BY <1>1 DEF TimeCase, BeginStep
<1>2. CASE /\ Head(text_queue) \in TextGaps
           /\ GotoFor("DitDelay", config.gap[Head(text_queue)]) /\ Silent
  BY <1>2 DEF TimeCase, TextGapStep
<1> QED BY <1>1, <1>2 DEF DispatchText

LEMMA FinishTimes ==
  ASSUME NEW p \in Paddles, state = Sending[p], key_active, Expired, FinishElement(p)
  PROVE  TimeCase
  BY PhaseStates DEF FinishElement, TimeCase, ReleaseStep

LEMMA RestTimes ==
  ASSUME state = "Idle", HandleHangTime, Wait
  PROVE  TimeCase
  BY DEF HandleHangTime, Silent, TimeCase, RestStep

LEMMA LetterTimes ==
  ASSUME LetterSpaceTick
  PROVE  TimeCase
<1>1. UNCHANGED <<element_duration, key_active>> /\ out' = "none"
  BY DEF LetterSpaceTick, Silent
<1>2. state = "LetterSpace" BY DEF LetterSpaceTick
<1>3. Wait \/ (state' = "Idle" /\ (phase' = 0 \/ (phase' = Rem /\ Expired)))
  BY <1>1 DEF LetterSpaceTick, Wait
<1> QED BY <1>1, <1>2, <1>3 DEF TimeCase, RestStep

LEMMA IambicTimes ==
  ASSUME TypeOK, IambicInner
  PROVE  TimeCase
<1>1. CASE IambicIdle
  <2>1. CASE IambicStart # "none" /\ StartElementKeyed(IambicStart)
    <3>1. IambicStart \in Paddles BY <2>1 DEF IambicStart, Paddles
    <3> QED BY <1>1, <2>1, <3>1 DEF IambicIdle, TimeCase, BeginStep
  <2>2. CASE text_queue # <<>> /\ DispatchText
    BY <1>1, <2>2, DispatchTimes DEF IambicIdle
  <2>3. CASE HandleHangTime /\ Wait BY <1>1, <2>3, RestTimes DEF IambicIdle
  <2> QED BY <1>1, <2>1, <2>2, <2>3 DEF IambicIdle
<1>2. ASSUME NEW p \in Paddles, IambicSend(p) PROVE TimeCase
  <2>1. state = Sending[p] /\ state \in SendStates /\ UNCHANGED single_paddle_decided
    BY <1>2, PhaseStates DEF IambicSend
  <2>2. CASE ~key_active /\ EmitKeyDown /\ Wait
    BY <2>1, <2>2 DEF TimeCase, PressStep
  <2>3. CASE key_active /\ Expired /\ FinishElement(p) BY <2>1, <2>3, FinishTimes
  <2>4. CASE key_active /\ ~Expired /\ Silent /\ Wait
    BY <2>1, <2>4 DEF TimeCase, HoldStep
  <2> QED BY <1>2, <2>2, <2>3, <2>4 DEF IambicSend
<1>3. ASSUME NEW p \in Paddles, IambicDelay(p) PROVE TimeCase
  <2>1. state \in DelayStates BY <1>3, PhaseStates DEF IambicDelay
  <2>2. CASE ~Expired /\ Silent /\ Wait BY <2>1, <2>2 DEF TimeCase, GapStep
  <2>3. CASE /\ Expired /\ NextElement(p) # "none"
             /\ StartElementKeyed(NextElement(p))
    <3>1. NextElement(p) \in Paddles
      BY <2>3 DEF NextElement, UltimaticNext, IambicNext, Opp, Paddles, TypeOK
    <3> QED BY <2>1, <2>3, <3>1 DEF TimeCase, BeginStep
  <2>4. CASE Expired /\ ResolveDelayTail
    <3>1. /\ out' = "none" /\ UNCHANGED <<ptt_active, key_active>>
          /\ Goto("Idle") \/ GotoFor("LetterSpace", LetterRest)
      BY <2>4 DEF ResolveDelayTail, EnterIdleFromDelay, Silent
    <3> QED BY <2>1, <2>4, <3>1 DEF TimeCase, GapEndStep
  <2> QED BY <1>3, <2>2, <2>3, <2>4 DEF IambicDelay
<1> QED BY <1>1, <1>2, <1>3, LetterTimes DEF IambicInner

LEMMA SingleTimes ==
  ASSUME TypeOK, TickSinglePaddle, state # "StraightKey"
  PROVE  TimeCase
<1>1. CASE SingleIdle
  <2>1. CASE StartElementKeyed("dit")
    BY <1>1, <2>1, PhaseStates DEF SingleIdle, TimeCase, BeginStep
  <2>2. CASE text_queue # <<>> /\ DispatchText
    BY <1>1, <2>2, DispatchTimes DEF SingleIdle
  <2>3. CASE HandleHangTime /\ Wait BY <1>1, <2>3, RestTimes DEF SingleIdle
  <2> QED BY <1>1, <2>1, <2>2, <2>3 DEF SingleIdle
<1>2. ASSUME NEW p \in Paddles, SingleSend(p) PROVE TimeCase
  <2>1. state = Sending[p] /\ state \in SendStates BY <1>2, PhaseStates DEF SingleSend
  <2>2. CASE ~key_active /\ EmitKeyDown /\ Wait /\ UNCHANGED single_paddle_decided
    BY <2>1, <2>2 DEF TimeCase, PressStep
  <2>3. CASE key_active /\ p = "dit" /\ ~single_paddle_decided /\ SingleUndecided
    <3>1. Undecided BY <2>1, <2>3 DEF Undecided, Sending, TickSinglePaddle
    <3>2. CASE /\ GotoFor("DitDelay", config.gap["ElementGap"])
               /\ EmitKeyUp
      BY <2>1, <2>3, <3>1, <3>2 DEF TimeCase, ReleaseStep, DelayStates
    <3>3. CASE /\ Expired /\ state' = "SendDash" /\ Silent
               /\ Schedule(Monus(config.dur["dash"], config.dur["dit"]))
      BY <2>3, <3>1, <3>3 DEF TimeCase, ExtendStep
    <3>4. CASE ~Expired /\ Silent /\ Wait /\ UNCHANGED single_paddle_decided
      BY <2>1, <2>3, <3>4 DEF TimeCase, HoldStep
    <3> QED BY <2>3, <3>2, <3>3, <3>4 DEF SingleUndecided
  <2>4. CASE key_active /\ Expired /\ FinishElement(p) BY <2>1, <2>4, FinishTimes
  <2>5. CASE key_active /\ ~Expired /\ Silent /\ Wait /\ UNCHANGED single_paddle_decided
    BY <2>1, <2>5 DEF TimeCase, HoldStep
  <2> QED BY <1>2, <2>2, <2>3, <2>4, <2>5 DEF SingleSend
<1>3. CASE SingleDelay
  <2>1. state \in DelayStates BY <1>3 DEF SingleDelay
  <2>2. CASE ~Expired /\ Silent /\ Wait BY <2>1, <2>2 DEF TimeCase, GapStep
  <2>3. CASE Expired /\ StartElementKeyed("dit")
    BY <2>1, <2>3, PhaseStates DEF TimeCase, BeginStep
  <2>4. CASE Expired /\ ((Goto("Idle") /\ Silent) \/ EnterIdleFromDelay)
    <3>1. out' = "none" /\ UNCHANGED <<ptt_active, key_active>> /\ Goto("Idle")
      BY <2>4 DEF EnterIdleFromDelay, Silent
    <3> QED BY <2>1, <2>4, <3>1 DEF TimeCase, GapEndStep
  <2> QED BY <1>3, <2>2, <2>3, <2>4 DEF SingleDelay
<1> QED
  BY <1>1, <1>2, <1>3, LetterTimes DEF TickSinglePaddle, LeaveStraightKey

LEMMA StraightTimes ==
  ASSUME TypeOK, KeyFollowsState, TickStraight \/ (Bug /\ (BugDash \/ BugKeyed))
  PROVE  TimeCase
<1>1. CASE TickStraight
  <2>1. state \in {"Idle", "StraightKey"} BY <1>1 DEF TickStraight, KeyFollowsState
  <2>2. state' \in {"Idle", "StraightKey"} /\ phase' = Rem
    BY <1>1, <2>1
       DEF TickStraight, StraightIdle, StraightKeyed, StraightOther, Goto, Wait
  <2> QED BY <1>1, <2>1, <2>2 DEF TickStraight, TimeCase, StraightStep
<1>2. CASE Bug /\ (BugDash \/ BugKeyed)
  BY <1>2 DEF Bug, BugDash, BugKeyed, Goto, Wait, TimeCase, StraightStep
<1> QED BY <1>1, <1>2

LEMMA TickTimes ==
  ASSUME TypeOK, KeyFollowsState, Tick
  PROVE  TimeCase
<1>1. CASE TickStraight BY <1>1, StraightTimes
<1>2. CASE TickBug BY <1>2, StraightTimes, IambicTimes DEF TickBug
<1>3. CASE TickIambic
  BY <1>3, IambicTimes DEF TickIambic, LeaveStraightKey, KeyFollowsState
<1>4. CASE TickSinglePaddle
  BY <1>4, SingleTimes DEF TickSinglePaddle, KeyFollowsState
<1> QED BY <1>1, <1>2, <1>3, <1>4 DEF Tick

\* Before a deadline what is scheduled goes on from it, after one it starts
\* anew.
LEMMA PhaseIs ==
  ASSUME TypeOK
  PROVE  /\ Rem = IF phase > 0 THEN phase - TICK ELSE 0 - TICK
         /\ Expired <=> phase <= TICK
         /\ \A d \in Nat : Schedule(d) =>
              phase' = IF phase > 0 THEN phase - TICK + d ELSE d
<1>1. phase \in Int /\ phase >= -TICK /\ TICK \in Nat \ {0}
  BY TickAssumption DEF TypeOK
<1>2. Rem = IF phase > 0 THEN phase - TICK ELSE 0 - TICK
  BY <1>1 DEF Rem, Greater
<1>3. Expired <=> phase <= TICK BY <1>1, <1>2 DEF Expired
<1>4. ASSUME NEW d \in Nat, Schedule(d)
      PROVE  phase' = IF phase > 0 THEN phase - TICK + d ELSE d
  BY <1>1, <1>2, <1>4 DEF Schedule
<1> QED BY <1>2, <1>3, <1>4

LEMMA CallsKeepPhases ==
  ASSUME TimedCall
  PROVE  /\ out' = "none"
         /\ UNCHANGED <<ptt_active, key_active, state, phase, element_duration,
                        single_paddle_decided, since, owed, due>>
  BY DEF TimedCall, Touched, SetPaddle, UpdateConfig, SendText, AbortText,
         DrainTransitions, ReturnsNothing, phaseVars

LEMMA TickFrame ==
  ASSUME Tick
  PROVE  UNCHANGED <<config, held>>
  BY DEF Tick, TickStraight, TickBug, TickIambic, TickSinglePaddle

-----------------------------------------------------------------------------
(* Paddles only, the dash paddle never a straight key: nothing shortens a  *)
(* gap, however the modes change among those that are left.                *)

NoText == text_queue = <<>> /\ ~text_sending

\* In a gap the deadline and the stopwatch add up to the gap that is owed;
\* out of it the key has been up for so long.
GapInv ==
  /\ owed \in 0 .. TIME_CAP
  /\ state \in DelayStates => phase + since > owed - TICK \/ since >= owed
  /\ ~key_active /\ state \notin DelayStates => since + TICK > owed - TICK

LEMMA NoStraightStep ==
  ASSUME PaddlesOnly, TypeOK, KeyFollowsState, [TimedNext]_timedVars
  PROVE  KeyFollowsState'
<1>1. CASE TimedTick BY <1>1, TickKey DEF TimedTick
<1>2. CASE TimedCall \/ UNCHANGED timedVars
  <2>1. UNCHANGED <<key_active, state>>
    BY <1>2, CallsKeepPhases DEF timedVars, vars, lineVars, phaseVars
  <2>2. config \in Configs /\ config' \in Configs
    BY <1>2 DEF TypeOK, TimedCall, SetPaddle, UpdateConfig, SendText, AbortText,
                DrainTransitions, timedVars, vars
  <2> QED BY <2>1, <2>2 DEF KeyFollowsState, PaddlesOnly
<1> QED BY <1>1, <1>2 DEF TimedNext

LEMMA NoTextStep ==
  ASSUME PaddlesOnly, TypeOK, KeyFollowsState, NoText, [TimedNext]_timedVars
  PROVE  NoText'
<1>1. CASE TimedTick
  <2>1. UNCHANGED textVars \/ (text_queue' = <<>> /\ ~text_sending')
    <3>1. CASE TickStraight BY <3>1 DEF TickStraight
    <3>2. CASE TickBug BY <3>2 DEF TickBug, Bug, PaddlesOnly, TypeOK
    <3>3. CASE TickIambic
      <4>1. CASE LeaveStraightKey BY <4>1 DEF LeaveStraightKey
      <4>2. CASE IambicIdle BY <4>2 DEF IambicIdle, NoText
      <4>3. CASE \E p \in Paddles : IambicSend(p) BY <4>3 DEF IambicSend
      <4>4. CASE \E p \in Paddles : IambicDelay(p)
        BY <4>4 DEF IambicDelay, AbortTextIfHeld, ResolveDelayTail,
                    EnterIdleFromDelay, NoText
      <4>5. CASE LetterSpaceTick BY <4>5 DEF LetterSpaceTick
      <4> QED BY <3>3, <4>1, <4>2, <4>3, <4>4, <4>5 DEF TickIambic, IambicInner
    <3>4. CASE TickSinglePaddle
      <4>1. CASE LetterSpaceTick \/ LeaveStraightKey
        BY <4>1 DEF LeaveStraightKey, LetterSpaceTick
      <4>2. CASE SingleIdle BY <4>2 DEF SingleIdle, NoText
      <4>3. CASE \E p \in Paddles : SingleSend(p) BY <4>3 DEF SingleSend
      <4>4. CASE SingleDelay
        BY <4>4 DEF SingleDelay, AbortTextIfHeld, EnterIdleFromDelay, NoText
      <4> QED BY <3>4, <4>1, <4>2, <4>3, <4>4 DEF TickSinglePaddle
    <3> QED BY <1>1, <3>1, <3>2, <3>3, <3>4 DEF TimedTick, Tick
  <2> QED BY <2>1 DEF NoText, textVars
<1>2. CASE TimedCall
  BY <1>2 DEF TimedCall, Touched, SetPaddle, UpdateConfig, SendText, AbortText,
              DrainTransitions, PaddlesOnly, NoText, textVars
<1>3. CASE UNCHANGED timedVars BY <1>3 DEF timedVars, vars, textVars, NoText
<1> QED BY <1>1, <1>2, <1>3 DEF TimedNext

LEMMA GapTick ==
  ASSUME PaddlesOnly, TypeOK, KeyFollowsState, NoText, SinceOK, GapInv, TimedTick
  PROVE  GapInv'
<1> USE StateFacts, PhaseStates
<1> DEFINE older == Lesser(since + TICK, TIME_CAP)
           gap == config.gap["ElementGap"]
<1>1. /\ since' = IF key_active' # key_active THEN 0 ELSE older
      /\ owed' = IF out' = "KeyUp" THEN gap ELSE owed
  BY DEF TimedTick
<1>2. /\ TIME_CAP \in Nat /\ since \in Nat /\ since <= TIME_CAP /\ TICK \in Nat \ {0}
      /\ owed \in Nat /\ owed <= TIME_CAP /\ phase \in Int
      /\ gap \in Nat /\ gap <= TIME_CAP
  <2>1. gap \in Nat /\ gap <= TIME_CAP
    BY ConfigFacts, TimeCapAssumption DEF TypeOK, TextGaps
  <2> HIDE DEF gap
  <2> QED BY <2>1, TimeCapAssumption, TickAssumption DEF SinceOK, TypeOK, GapInv
<1>3. older \in Nat /\ older <= TIME_CAP /\ since <= older
      /\ (older = TIME_CAP \/ older = since + TICK)
  BY <1>2 DEF Lesser
<1>4. /\ Rem = IF phase > 0 THEN phase - TICK ELSE 0 - TICK
      /\ Expired <=> phase <= TICK
      /\ Schedule(gap) => phase' = IF phase > 0 THEN phase - TICK + gap ELSE gap
  BY <1>2, PhaseIs
<1>5. state \in Keyed \/ ~key_active BY DEF KeyFollowsState
<1>6. DelayStates \intersect (SendStates \union {"Idle", "LetterSpace", "StraightKey"}) = {}
  BY DEF DelayStates, SendStates
<1> HIDE DEF older, gap
<1>7. owed' \in 0 .. TIME_CAP BY <1>1, <1>2
<1>8. CASE BeginStep
  <2>1. /\ state' \notin DelayStates /\ ~key_active /\ out' # "KeyUp"
        /\ key_active' \/ UNCHANGED key_active
    BY <1>5, <1>6, <1>8 DEF BeginStep, StartElementKeyed, StartElement,
                            EmitPttOrKeyDown, EmitKeyDown, DelayStates
  <2>2. ~key_active' => since' + TICK > owed' - TICK
    <3>1. CASE state \in DelayStates
      <4>1. Expired BY <1>6, <1>8, <3>1 DEF BeginStep
      <4> QED BY <1>1, <1>2, <1>3, <1>4, <2>1, <3>1, <4>1 DEF GapInv
    <3>2. CASE state \notin DelayStates
      BY <1>1, <1>2, <1>3, <2>1, <3>2 DEF GapInv
    <3> QED BY <3>1, <3>2
  <2> QED BY <1>7, <2>1, <2>2 DEF GapInv
<1>9. CASE PressStep \/ HoldStep \/ ExtendStep
  <2>1. key_active'
    <3>1. CASE PressStep BY <3>1 DEF PressStep, EmitKeyDown
    <3>2. CASE HoldStep \/ ExtendStep
      <4>1. key_active /\ UNCHANGED key_active BY <3>2 DEF HoldStep, ExtendStep, Silent
      <4> QED BY <4>1
    <3> QED BY <1>9, <3>1, <3>2
  <2>2. state' \in SendStates
    BY <1>9 DEF PressStep, HoldStep, ExtendStep, Wait, SendStates
  <2> QED BY <1>6, <1>7, <2>1, <2>2 DEF GapInv
<1>10. CASE ReleaseStep
  <2>1. /\ since' = 0 /\ owed' = gap
        /\ \E s \in DelayStates : state' = s /\ Schedule(gap)
    BY <1>1, <1>10 DEF ReleaseStep, EmitKeyUp, GotoFor, NoText, gap
  <2>2. state' \in DelayStates /\ phase' + since' > owed' - TICK
    BY <1>2, <1>4, <2>1
  <2> QED BY <1>7, <2>2 DEF GapInv
<1>11. CASE GapStep
  <2>1. /\ state' = state /\ state \in DelayStates /\ phase' = Rem /\ ~Expired
        /\ UNCHANGED key_active /\ out' # "KeyUp"
    BY <1>11 DEF GapStep, Wait, Silent
  <2>2. phase' = phase - TICK /\ since' = older /\ owed' = owed
    BY <1>1, <1>2, <1>4, <2>1
  <2>3. phase' + since' > owed' - TICK \/ since' >= owed'
    BY <1>2, <1>3, <2>1, <2>2 DEF GapInv
  <2> QED BY <1>7, <2>1, <2>3 DEF GapInv
<1>12. CASE GapEndStep
  <2>1. /\ state \in DelayStates /\ state' \notin DelayStates /\ phase <= TICK
        /\ since' = older /\ owed' = owed
    BY <1>1, <1>4, <1>6, <1>12 DEF GapEndStep, Goto, GotoFor, DelayStates
  <2>2. since' + TICK > owed' - TICK
    BY <1>2, <1>3, <2>1 DEF GapInv
  <2> QED BY <1>7, <2>1, <2>2 DEF GapInv
<1>13. CASE TextGapStep BY <1>13 DEF TextGapStep, NoText
<1>14. CASE RestStep
  <2>1. /\ state \notin DelayStates /\ state' \notin DelayStates /\ ~key_active
        /\ since' = older /\ owed' = owed
    BY <1>1, <1>5, <1>14 DEF RestStep, Wait, DelayStates
  <2>2. since' + TICK > owed' - TICK
    BY <1>2, <1>3, <2>1 DEF GapInv
  <2> QED BY <1>7, <2>1, <2>2 DEF GapInv
<1>15. CASE StraightStep BY <1>15 DEF StraightStep, PaddlesOnly, TypeOK
<1> QED
  BY <1>8, <1>9, <1>10, <1>11, <1>12, <1>13, <1>14, <1>15, TickTimes
     DEF TimedTick, TimeCase

\* The step behind GapKept.
LEMMA KeyDownStep ==
  ASSUME PaddlesOnly, TypeOK, KeyFollowsState, SinceOK, GapInv, TimedNext,
         out' = "KeyDown"
  PROVE  since + TICK > owed - TICK
<1>1. TimedTick BY CallsKeepPhases DEF TimedNext
<1>2. /\ since \in Nat /\ TICK \in Nat \ {0} /\ owed \in Nat /\ phase \in Int
      /\ Expired <=> phase <= TICK
  BY TimeCapAssumption, TickAssumption, PhaseIs DEF SinceOK, TypeOK, GapInv
<1>3. BeginStep \/ PressStep
  BY <1>1, TickTimes
     DEF TimedTick, TimeCase, HoldStep, ExtendStep, ReleaseStep, GapStep, GapEndStep,
         TextGapStep, RestStep, StraightStep, Silent, EmitKeyUp, PaddlesOnly, TypeOK
<1>4. ~key_active /\ (state \in DelayStates => Expired)
  <2>1. CASE BeginStep
    BY <2>1, StateFacts, PhaseStates DEF BeginStep, KeyFollowsState, DelayStates
  <2>2. CASE PressStep BY <2>2 DEF PressStep, DelayStates, SendStates
  <2> QED BY <1>3, <2>1, <2>2
<1> QED BY <1>2, <1>4 DEF GapInv

LEMMA GapInvAlways ==
  ASSUME PaddlesOnly
  PROVE  TimedSpec => [](KeyFollowsState /\ NoText /\ GapInv)
<1> DEFINE Inv == KeyFollowsState /\ NoText /\ GapInv
<1>1. TimedInit => Inv
  BY StateFacts, TimeCapAssumption, TickAssumption
     DEF TimedInit, Init, KeyFollowsState, NoText, GapInv, DelayStates, PaddlesOnly
<1>2. TypeOK /\ HangInv /\ Inv /\ [TimedNext]_timedVars => Inv'
  <2> SUFFICES ASSUME TypeOK, HangInv, Inv, [TimedNext]_timedVars PROVE Inv'
    OBVIOUS
  <2>1. KeyFollowsState' BY NoStraightStep
  <2>2. NoText' BY NoTextStep
  <2>3. GapInv'
    <3>1. CASE TimedTick BY <3>1, GapTick DEF HangInv
    <3>2. CASE TimedCall \/ UNCHANGED timedVars
      BY <3>2, CallsKeepPhases DEF timedVars, vars, lineVars, phaseVars, GapInv
    <3> QED BY <3>1, <3>2 DEF TimedNext
  <2> QED BY <2>1, <2>2, <2>3
<1> QED
  BY <1>1, <1>2, TimedIsEngine, TypeCorrect, HangInvAlways, PTL DEF TimedSpec

\* With the paddles alone, elements never fuse: the key stays up for the gap
\* in force, to within a tick, for all durations, ticks and settings, which
\* may change at any moment (schedule_phase, finish of an element).
THEOREM GapKeptAlways ==
  ASSUME PaddlesOnly
  PROVE  TimedSpec => GapKept
<1> DEFINE Keeps == out' = "KeyDown" /\ config.mode \in IambicModes =>
                      since + TICK > owed - TICK
<1>1. TypeOK /\ HangInv /\ KeyFollowsState /\ GapInv /\ [TimedNext]_timedVars
        => [Keeps]_timedVars
  BY KeyDownStep DEF HangInv
<1>2. TimedSpec => [][Keeps]_timedVars
  BY <1>1, TimedIsEngine, TypeCorrect, HangInvAlways, GapInvAlways, PTL DEF TimedSpec
<1> QED BY <1>2 DEF GapKept

-----------------------------------------------------------------------------
(* No phantom: a latch of the session before is never keyed.               *)

LatchInv == AtRest(state) => held \subseteq tapped /\ memory \subseteq tapped

LEMMA LatchTick ==
  ASSUME NoLatchKept, TypeOK, KeyFollowsState, NoText, LatchInv, TimedTick
  PROVE  LatchInv'
<1>1. /\ config \in Configs /\ held' = held
      /\ TickIambic /\ state # "StraightKey"
      /\ tapped' = IF ~AtRest(state') THEN {}
                   ELSE IF AtRest(state) THEN tapped \union held ELSE held
  <2>1. config.mode \in IambicModes /\ state # "StraightKey"
    BY DEF NoLatchKept, TypeOK, KeyFollowsState, IambicModes
  <2> QED
    BY <2>1, TickFrame
       DEF TimedTick, Tick, TypeOK, TickStraight, TickBug, Bug, TickSinglePaddle,
           IambicModes
<1>2. \A p \in Paddles : ~AtRest(Sending[p]) /\ ~AtRest(DelayAfter[p])
  BY DEF AtRest, Sending, DelayAfter, Paddles
<1>3. CASE AtRest(state)
  <2>1. ~AtRest(state') \/ UNCHANGED memory
    <3>1. CASE IambicIdle
      <4>1. CASE IambicStart # "none" /\ StartElementKeyed(IambicStart)
        <5>1. IambicStart \in Paddles BY <4>1 DEF IambicStart, Paddles
        <5> QED BY <1>2, <4>1, <5>1 DEF StartElementKeyed, StartElement
      <4>2. CASE UNCHANGED latchVars BY <4>2 DEF latchVars
      <4> QED BY <3>1, <4>1, <4>2 DEF IambicIdle, NoText
    <3>2. CASE LetterSpaceTick BY <3>2 DEF LetterSpaceTick, latchVars
    <3>3. ASSUME NEW p \in Paddles PROVE ~IambicSend(p) /\ ~IambicDelay(p)
      BY <1>2, <1>3 DEF IambicSend, IambicDelay
    <3> QED
      BY <1>1, <3>1, <3>2, <3>3 DEF TickIambic, IambicInner, LeaveStraightKey
  <2> QED BY <1>1, <1>3, <2>1 DEF LatchInv
<1>4. CASE ~AtRest(state)
  <2>1. PICK p \in Paddles : IambicSend(p) \/ IambicDelay(p)
    BY <1>1, <1>4
       DEF TickIambic, IambicInner, LeaveStraightKey, AtRest, IambicIdle, LetterSpaceTick
  <2>a. AtRest(state') => held' \subseteq tapped' BY <1>1, <1>4
  <2>2. CASE IambicSend(p)
    BY <1>2, <1>4, <2>2 DEF IambicSend, FinishElement, GotoFor, Wait, NoText, LatchInv
  <2>3. CASE IambicDelay(p)
    <3>1. CASE Wait BY <1>4, <3>1 DEF Wait, LatchInv
    <3>2. CASE NextElement(p) # "none" /\ StartElementKeyed(NextElement(p))
      <4>1. NextElement(p) \in Paddles
        BY <3>2 DEF NextElement, UltimaticNext, IambicNext, Opp, Paddles, TypeOK
      <4> QED BY <1>2, <3>2, <4>1 DEF StartElementKeyed, StartElement, LatchInv
    <3>3. CASE EnterIdleFromDelay
      BY <2>a, <3>3 DEF EnterIdleFromDelay, ForgetSession, LatchInv
    <3>4. CASE /\ NextElement(p) = "none" /\ config.auto_spacing
               /\ UNCHANGED latchVars
      <4>1. config.mode = "IambicB" BY <1>1, <3>4 DEF NoLatchKept
      <4>2. IambicNext(p) = "none" BY <3>4, <4>1 DEF NextElement
      <4>3. p \notin memory /\ Opp(p) \notin memory
        BY <4>1, <4>2 DEF IambicNext, IsModeB, Bug, Opp, Paddles
      <4>4. memory = {} BY <4>3 DEF Opp, Paddles, TypeOK
      <4> QED BY <2>a, <3>4, <4>4 DEF latchVars, LatchInv
    <3>5. ~TextPendingUnheld BY DEF TextPendingUnheld, TextPending, NoText
    <3> QED BY <2>3, <3>1, <3>2, <3>3, <3>4, <3>5 DEF IambicDelay, ResolveDelayTail
  <2> QED BY <2>1, <2>2, <2>3
<1> QED BY <1>3, <1>4

LEMMA LatchCall ==
  ASSUME LatchInv, TimedCall
  PROVE  LatchInv'
<1>1. UNCHANGED state /\ tapped' = IF AtRest(state) THEN tapped \union held' ELSE tapped
  BY CallsKeepPhases DEF TimedCall, Touched
<1>2. memory' \subseteq memory \union held'
  BY DEF TimedCall, SetPaddle, UpdateConfig, SendText, AbortText, DrainTransitions
<1> QED BY <1>1, <1>2 DEF LatchInv

LEMMA LatchInvAlways ==
  ASSUME NoLatchKept
  PROVE  TimedSpec => []LatchInv
<1>1. PaddlesOnly BY DEF PaddlesOnly, NoLatchKept, IambicModes
<1>2. TimedInit => LatchInv BY DEF TimedInit, Init, LatchInv
<1>3. TypeOK /\ KeyFollowsState /\ NoText /\ LatchInv /\ [TimedNext]_timedVars
        => LatchInv'
  BY LatchTick, LatchCall DEF TimedNext, timedVars, vars, latchVars, phaseVars, LatchInv
<1> QED
  BY <1>1, <1>2, <1>3, TimedIsEngine, TypeCorrect, GapInvAlways, PTL DEF TimedSpec

\* The step behind NoPhantom.
LEMMA SessionStep ==
  ASSUME TypeOK, KeyFollowsState, LatchInv, TimedNext,
         state = "Idle", state' \in SendStates, text_queue' = text_queue,
         config.mode \in IambicModes
  PROVE  \E p \in held \union tapped : state' = Sending[p]
<1>1. TickIambic
  BY CallsKeepPhases
     DEF TimedNext, TimedTick, Tick, TickStraight, TickBug, Bug, TickSinglePaddle,
         IambicModes, SendStates
<1>2. IambicIdle
  BY <1>1, PhaseStates
     DEF TickIambic, IambicInner, LeaveStraightKey, IambicSend, IambicDelay,
         LetterSpaceTick, SendStates, DelayStates
<1>3. ~(text_queue # <<>> /\ DispatchText)
  <2>1. text_queue # <<>> => text_queue # Tail(text_queue) BY DEF TypeOK
  <2> QED BY <2>1 DEF DispatchText
<1>4. IambicStart # "none" /\ StartElementKeyed(IambicStart)
  BY <1>2, <1>3 DEF IambicIdle, Wait, SendStates
<1>5. IambicStart \in held \union memory /\ state' = Sending[IambicStart]
  BY <1>4 DEF IambicStart, StartElementKeyed, StartElement
<1> QED BY <1>5 DEF LatchInv, AtRest

\* With the paddles alone an iambic session begins with a paddle that was
\* touched since the last one (enter_idle_from_delay), however the modes
\* change among the iambic ones.
THEOREM NoPhantomAlways ==
  ASSUME NoLatchKept
  PROVE  TimedSpec => NoPhantom
<1> DEFINE Asked ==
      state = "Idle" /\ state' \in SendStates /\ text_queue' = text_queue
        /\ config.mode \in IambicModes
      => \E p \in held \union tapped : state' = Sending[p]
<1>1. PaddlesOnly BY DEF PaddlesOnly, NoLatchKept, IambicModes
<1>2. TypeOK /\ KeyFollowsState /\ LatchInv /\ [TimedNext]_timedVars
        => [Asked]_timedVars
  BY SessionStep
<1>3. TimedSpec => [][Asked]_timedVars
  BY <1>1, <1>2, TimedIsEngine, TypeCorrect, GapInvAlways, LatchInvAlways, PTL
     DEF TimedSpec
<1> QED BY <1>3 DEF NoPhantom

-----------------------------------------------------------------------------
(* Lengths, while the host keeps to SteadyTiming.                         *)

\* Once the key is down, deadline and stopwatch add up to what is due, less
\* a tick at most; before that, the tick that goes to PTT is still to come.
LengthInv ==
  /\ state \in {"Idle", "StraightKey"} => phase <= 0
  /\ state \in Timed => phase > 0
  /\ state \in SendStates =>
       /\ due \in Nat /\ due >= TICK /\ due + TICK <= TIME_CAP
       /\ key_active => phase + since > due - TICK /\ phase + since <= due
       /\ ~key_active => phase > due /\ phase <= due + TICK
  /\ Undecided => \E c \in Configs : due <= c.dur["dit"]

LEMMA LengthTick ==
  ASSUME SteadyTiming, TypeOK, KeyFollowsState, SinceOK, LengthInv, TimedTick
  PROVE  LengthInv'
<1> USE StateFacts, PhaseStates
<1> DEFINE older == Lesser(since + TICK, TIME_CAP)
           gap == config.gap["ElementGap"]
           dur == config.dur
<1>1. /\ since' = IF key_active' # key_active THEN 0 ELSE older
      /\ config' = config /\ due' = NewDue
  BY TickFrame DEF TimedTick
<1>2. /\ TIME_CAP \in Nat /\ since \in Nat /\ since <= TIME_CAP /\ TICK \in Nat \ {0}
      /\ phase \in Int /\ key_active \in BOOLEAN
  BY TimeCapAssumption, TickAssumption DEF SinceOK, TypeOK
<1>3. older \in Nat /\ older <= TIME_CAP /\ since <= older
      /\ (since + TICK <= TIME_CAP => older = since + TICK)
  BY <1>2 DEF Lesser
<1>4. /\ Rem = IF phase > 0 THEN phase - TICK ELSE 0 - TICK
      /\ Expired <=> phase <= TICK
      /\ \A d \in Nat : Schedule(d) => phase' = IF phase > 0 THEN phase - TICK + d ELSE d
  BY PhaseIs
<1>5. /\ \A p \in Paddles : dur[p] \in Nat /\ dur[p] >= 2 * TICK /\ dur[p] + TICK <= TIME_CAP
      /\ \A g \in TextGaps : config.gap[g] \in Nat /\ config.gap[g] >= TICK
      /\ config.mode = "SinglePaddle" => dur["dash"] - dur["dit"] >= TICK
  BY ConfigFacts, TimeCapAssumption DEF TypeOK, SteadyTiming
<1>6. gap \in Nat /\ gap >= TICK BY <1>5 DEF TextGaps
<1>7. /\ DelayStates = {"DitDelay", "DashDelay"} /\ SendStates = {"SendDit", "SendDash"}
      /\ Timed = {"DitDelay", "DashDelay", "SendDit", "SendDash"}
      /\ (key_active => state \in Keyed)
  BY DEF DelayStates, SendStates, Timed, KeyFollowsState
<1>a. \A c, d \in Configs :
        /\ c.dur["dit"] \in Nat /\ d.dur["dit"] \in Nat /\ d.dur["dash"] \in Nat
        /\ c.dur["dit"] + d.dur["dash"] - d.dur["dit"] + TICK <= TIME_CAP
  BY ConfigFacts, TimeCapAssumption DEF Paddles
<1> HIDE DEF older, gap, dur
<1>8. CASE BeginStep
  <2>1. PICK p \in Paddles : StartElementKeyed(p) BY <1>8 DEF BeginStep
  <2>2. state' = Sending[p] /\ Schedule(dur[p]) /\ EmitPttOrKeyDown
    BY <2>1 DEF StartElementKeyed, StartElement, dur
  <2>3. ~key_active BY <1>7, <1>8 DEF BeginStep
  <2>4. state' \in SendStates /\ state' \notin {"Idle", "StraightKey"}
        /\ state \notin SendStates /\ (state' = "SendDit" => p = "dit")
    BY <1>7, <1>8, <2>2 DEF BeginStep, Sending, Paddles
  <2>5. dur[p] \in Nat /\ dur[p] >= 2 * TICK /\ dur[p] + TICK <= TIME_CAP BY <1>5
  <2>6. Nominal(state, state') = dur[p]
    <3>1. CASE p = "dit" BY <2>2, <3>1 DEF Nominal, Sending, dur
    <3>2. CASE p = "dash"
      <4>1. state' = "SendDash" /\ state # "SendDit"
        BY <1>7, <2>2, <2>4, <3>2 DEF Sending, Paddles
      <4> QED BY <2>5, <3>2, <4>1 DEF Nominal, dur
    <3> QED BY <3>1, <3>2 DEF Paddles
  <2>7. due' = IF ptt_active THEN dur[p] ELSE dur[p] - TICK
    <3>1. due' = dur[p] + (IF ptt_active THEN 0 ELSE -TICK)
      BY <1>1, <2>4, <2>6 DEF NewDue
    <3> QED BY <1>2, <2>5, <3>1
  <2>8. phase' > dur[p] - TICK /\ phase' <= dur[p] /\ phase' \in Int
    <3>1. phase' = IF phase > 0 THEN phase - TICK + dur[p] ELSE dur[p]
      BY <1>4, <2>2, <2>5
    <3>2. phase <= TICK
      BY <1>2, <1>4, <1>7, <1>8 DEF BeginStep, LengthInv
    <3> QED BY <1>2, <2>5, <3>1, <3>2
  <2>9. IF ptt_active THEN key_active' /\ since' = 0 ELSE ~key_active'
    <3>1. CASE ptt_active
      <4>1. key_active' = TRUE /\ key_active = FALSE
        BY <1>2, <2>2, <2>3, <3>1 DEF EmitPttOrKeyDown, EmitKeyDown
      <4> QED BY <1>1, <3>1, <4>1
    <3>2. CASE ~ptt_active
      <4>1. key_active' = key_active BY <2>2, <3>2 DEF EmitPttOrKeyDown
      <4> QED BY <2>3, <3>2, <4>1
    <3> QED BY <3>1, <3>2
  <2>10. /\ due' \in Nat /\ due' >= TICK /\ due' + TICK <= TIME_CAP /\ phase' > 0
         /\ key_active' => phase' + since' > due' - TICK /\ phase' + since' <= due'
         /\ ~key_active' => phase' > due' /\ phase' <= due' + TICK
    <3>1. CASE ptt_active BY <1>2, <2>5, <2>7, <2>8, <2>9, <3>1
    <3>2. CASE ~ptt_active BY <1>2, <2>5, <2>7, <2>8, <2>9, <3>2
    <3> QED BY <3>1, <3>2
  <2>11. Undecided' => \E c \in Configs : due' <= c.dur["dit"]
    <3> SUFFICES ASSUME Undecided' PROVE due' <= config.dur["dit"] BY DEF TypeOK
    <3>1. p = "dit" BY <2>4 DEF Undecided
    <3> QED BY <1>2, <2>5, <2>7, <3>1 DEF dur
  <2> QED BY <2>4, <2>10, <2>11 DEF LengthInv
<1>9. CASE PressStep
  <2>1. /\ state' = state /\ state \in SendStates /\ ~key_active /\ key_active'
        /\ phase' = Rem /\ single_paddle_decided' = single_paddle_decided
    BY <1>9 DEF PressStep, EmitKeyDown, Wait
  <2>2. /\ phase > due /\ phase <= due + TICK /\ since' = 0 /\ due' = due
        /\ due \in Nat /\ due >= TICK /\ due + TICK <= TIME_CAP
    BY <1>1, <2>1 DEF LengthInv, NewDue
  <2>3. phase' = phase - TICK BY <1>2, <1>4, <2>1, <2>2
  <2>4. state' \notin {"Idle", "StraightKey"} BY <1>7, <2>1
  <2>5. Undecided' => \E c \in Configs : due' <= c.dur["dit"]
    BY <1>1, <2>1, <2>2 DEF Undecided, LengthInv
  <2>6. phase' > 0 /\ phase' + since' > due' - TICK /\ phase' + since' <= due'
    BY <1>2, <2>1, <2>2, <2>3
  <2> QED BY <2>1, <2>2, <2>4, <2>5, <2>6 DEF LengthInv
<1>10. CASE HoldStep
  <2>1. /\ state' = state /\ state \in SendStates /\ key_active /\ key_active' = key_active
        /\ phase' = Rem /\ ~Expired
        /\ single_paddle_decided' = single_paddle_decided
    BY <1>10 DEF HoldStep, Silent, Wait
  <2>2. /\ phase + since > due - TICK /\ phase + since <= due /\ due' = due
        /\ due \in Nat /\ due >= TICK /\ due + TICK <= TIME_CAP
    BY <1>1, <2>1 DEF LengthInv, NewDue
  <2>3. phase' = phase - TICK /\ phase > TICK /\ since' = since + TICK
    <3>1. phase > TICK /\ phase' = phase - TICK BY <1>2, <1>4, <2>1
    <3>2. since + TICK <= TIME_CAP BY <1>2, <2>2, <3>1
    <3> QED BY <1>1, <1>3, <2>1, <3>1, <3>2
  <2>4. state' \notin {"Idle", "StraightKey"} BY <1>7, <2>1
  <2>5. Undecided' => \E c \in Configs : due' <= c.dur["dit"]
    BY <1>1, <2>1, <2>2 DEF Undecided, LengthInv
  <2>6. phase' > 0 /\ phase' + since' > due' - TICK /\ phase' + since' <= due'
    BY <1>2, <2>1, <2>2, <2>3
  <2> QED BY <2>1, <2>2, <2>4, <2>5, <2>6 DEF LengthInv
<1>11. CASE ExtendStep
  <2> DEFINE more == Monus(dur["dash"], dur["dit"])
  <2>1. /\ state' = "SendDash" /\ state = "SendDit" /\ key_active /\ key_active' = key_active
        /\ Schedule(more) /\ Expired
        /\ config.mode = "SinglePaddle" /\ Undecided
    BY <1>11 DEF ExtendStep, Silent, Undecided, dur
  <2>2. /\ phase + since > due - TICK /\ phase + since <= due
        /\ phase > 0 /\ due \in Nat /\ due >= TICK /\ due + TICK <= TIME_CAP
    BY <1>7, <2>1 DEF LengthInv
  <2>3. more = dur["dash"] - dur["dit"] /\ more \in Nat /\ more >= TICK
    BY <1>2, <1>5, <2>1 DEF Monus, Greater
  <2>4. due' = due + more
    <3>1. Nominal(state, state') = dur["dash"] - dur["dit"] BY <2>1 DEF Nominal, dur
    <3>2. due' = Nominal(state, state') + due
      BY <1>1, <1>7, <2>1 DEF NewDue
    <3> HIDE DEF more
    <3> QED BY <2>2, <2>3, <3>1, <3>2
  <2>5. due' + TICK <= TIME_CAP
    <3>1. PICK c \in Configs : due <= c.dur["dit"] BY <2>1 DEF LengthInv
    <3>2. /\ c.dur["dit"] \in Nat /\ dur["dit"] \in Nat /\ dur["dash"] \in Nat
          /\ c.dur["dit"] + dur["dash"] - dur["dit"] + TICK <= TIME_CAP
      BY <1>a DEF TypeOK, dur
    <3> HIDE DEF more
    <3> QED BY <1>2, <2>2, <2>3, <2>4, <3>1, <3>2
  <2> HIDE DEF more
  <2>6. phase' = phase - TICK + more /\ phase <= TICK BY <1>4, <2>1, <2>2, <2>3
  <2>7. since' = since + TICK
    <3>1. since + TICK <= TIME_CAP BY <1>2, <2>2
    <3> QED BY <1>1, <1>3, <2>1, <3>1
  <2>8. /\ phase' > 0 /\ phase' + since' > due' - TICK /\ phase' + since' <= due'
        /\ due' \in Nat /\ due' >= TICK
    BY <1>2, <2>2, <2>3, <2>4, <2>6, <2>7
  <2>9. ~Undecided' BY <2>1 DEF Undecided
  <2> QED BY <1>7, <2>1, <2>5, <2>8, <2>9 DEF LengthInv
<1>12. CASE ReleaseStep
  <2>1. state \in SendStates /\ phase > 0 BY <1>7, <1>12 DEF ReleaseStep, LengthInv
  <2>2. CASE Expired /\ Goto("Idle")
    <3>1. state' = "Idle" /\ phase' <= 0
      BY <1>2, <1>4, <2>1, <2>2 DEF Goto
    <3> QED BY <1>7, <3>1 DEF LengthInv, Undecided
  <2>3. CASE \E s \in DelayStates : GotoFor(s, gap)
    <3>1. state' \in DelayStates /\ Schedule(gap) BY <2>3 DEF GotoFor
    <3>2. phase' > 0 BY <1>2, <1>4, <1>6, <2>1, <3>1
    <3> QED BY <1>7, <3>1, <3>2 DEF LengthInv, Undecided
  <2> QED BY <1>12, <2>2, <2>3 DEF ReleaseStep, gap
<1>13. CASE GapStep
  <2>1. state' \in DelayStates /\ phase' = Rem /\ ~Expired BY <1>13 DEF GapStep, Wait
  <2>2. phase' > 0 BY <1>2, <1>4, <2>1
  <2> QED BY <1>7, <2>1, <2>2 DEF LengthInv, Undecided
<1>14. CASE GapEndStep
  <2>1. CASE Goto("Idle")
    <3>1. state' = "Idle" /\ phase' <= 0
      BY <1>2, <1>4, <1>14, <2>1 DEF Goto, GapEndStep
    <3> QED BY <1>7, <3>1 DEF LengthInv, Undecided
  <2>2. CASE GotoFor("LetterSpace", LetterRest)
    BY <1>7, <2>2 DEF GotoFor, LengthInv, Undecided
  <2> QED BY <1>14, <2>1, <2>2 DEF GapEndStep
<1>15. CASE TextGapStep
  <2> DEFINE d == config.gap[Head(text_queue)]
  <2>1. state = "Idle" /\ state' = "DitDelay" /\ Schedule(d) /\ d \in Nat /\ d >= TICK
    BY <1>5, <1>15 DEF TextGapStep, GotoFor
  <2> HIDE DEF d
  <2>2. phase' > 0
    <3>1. phase <= 0 BY <2>1 DEF LengthInv
    <3> QED BY <1>2, <1>4, <2>1, <3>1
  <2> QED BY <1>7, <2>1, <2>2 DEF LengthInv, Undecided
<1>16. CASE RestStep
  <2>1. state \in {"Idle", "LetterSpace"} /\ state' \in {"Idle", state}
    BY <1>16 DEF RestStep, Wait
  <2>2. state' = "Idle" => phase' <= 0
    <3>1. state = "Idle" => phase <= 0 BY DEF LengthInv
    <3> QED BY <1>2, <1>4, <1>16, <2>1, <3>1 DEF RestStep, Wait
  <2> QED BY <1>7, <2>1, <2>2 DEF LengthInv, Undecided
<1>17. CASE StraightStep
  <2>1. phase <= 0 /\ phase' = Rem /\ state' \in {"Idle", "StraightKey"}
    BY <1>17 DEF StraightStep, LengthInv
  <2>2. phase' <= 0 BY <1>2, <1>4, <2>1
  <2> QED BY <1>7, <2>1, <2>2 DEF LengthInv, Undecided
<1> QED
  BY <1>8, <1>9, <1>10, <1>11, <1>12, <1>13, <1>14, <1>15, <1>16, <1>17, TickTimes
     DEF TimedTick, TimeCase

LEMMA LengthCall ==
  ASSUME SteadyTiming, TypeOK, LengthInv, TimedCall
  PROVE  LengthInv'
<1>1. UNCHANGED <<state, phase, since, due, key_active, single_paddle_decided>>
  BY CallsKeepPhases
<1>2. config'.mode = config.mode \/ state = "Idle" \/ config' = config
  BY DEF TimedCall, SetPaddle, UpdateConfig, SendText, AbortText, DrainTransitions,
         SteadyTiming
<1>3. Undecided' => Undecided BY <1>1, <1>2 DEF Undecided
<1> QED BY <1>1, <1>3 DEF LengthInv

LEMMA LengthInvAlways ==
  ASSUME SteadyTiming
  PROVE  TimedSpec => []LengthInv
<1>1. TimedInit => LengthInv
  BY DEF TimedInit, Init, LengthInv, DelayStates, SendStates, Timed, Undecided
<1>2. /\ TypeOK /\ KeyFollowsState /\ HangInv /\ LengthInv /\ [TimedNext]_timedVars
      => LengthInv'
  <2> SUFFICES ASSUME TypeOK, KeyFollowsState, HangInv, LengthInv, [TimedNext]_timedVars
               PROVE  LengthInv'
    OBVIOUS
  <2>1. CASE TimedTick
    BY <2>1, LengthTick DEF HangInv
  <2>2. CASE TimedCall BY <2>2, LengthCall
  <2>3. CASE UNCHANGED timedVars
    <3>1. UNCHANGED <<state, phase, since, due, key_active, config,
                      single_paddle_decided>>
      BY <2>3 DEF timedVars, vars, textVars, lineVars, latchVars, phaseVars
    <3> QED BY <3>1 DEF LengthInv, Undecided
  <2> QED BY <2>1, <2>2, <2>3 DEF TimedNext
<1>3. LiveModeChange = FALSE BY DEF SteadyTiming
<1> QED
  BY <1>1, <1>2, <1>3, TimedIsEngine, TypeCorrect, KeyFollowsStateAlways,
     HangInvAlways, PTL DEF TimedSpec

\* The two steps behind TimesKept.
LEMMA KeyUpStep ==
  ASSUME TypeOK, KeyFollowsState, SinceOK, LengthInv, TimedNext,
         out' = "KeyUp", state \in SendStates,
         config.mode = "SinglePaddle" => single_paddle_decided
  PROVE  Within(since + TICK, due, TICK)
<1>1. TimedTick BY CallsKeepPhases DEF TimedNext
<1>2. ReleaseStep
  BY <1>1, TickTimes
     DEF TimedTick, TimeCase, BeginStep, StartElementKeyed, EmitPttOrKeyDown, EmitKeyDown,
         PressStep, HoldStep, ExtendStep, GapStep, GapEndStep, TextGapStep, RestStep,
         StraightStep, Silent, SendStates
<1>3. key_active /\ Expired BY <1>2 DEF ReleaseStep, Undecided
<1>4. /\ phase <= TICK /\ phase > 0 /\ due \in Nat
      /\ phase + since > due - TICK /\ phase + since <= due
  BY <1>3, PhaseIs DEF LengthInv, Timed
<1>5. phase \in Int /\ since \in Nat /\ TICK \in Nat
  BY TickAssumption, TimeCapAssumption DEF TypeOK, SinceOK
<1> QED BY <1>4, <1>5 DEF Within

LEMMA CarryStep ==
  ASSUME SteadyTiming, TypeOK, KeyFollowsState, LengthInv, TimedNext,
         state' # state, {state, state'} \subseteq Timed
  PROVE  phase' = phase + Nominal(state, state') - TICK
<1>1. TimedTick BY CallsKeepPhases DEF TimedNext
<1>2. /\ DelayStates = {"DitDelay", "DashDelay"} /\ SendStates = {"SendDit", "SendDash"}
      /\ Timed = {"DitDelay", "DashDelay", "SendDit", "SendDash"}
  BY DEF DelayStates, SendStates, Timed
<1>3. /\ phase \in Int /\ TICK \in Nat \ {0} /\ phase > 0
      /\ \A d \in Nat : Schedule(d) => phase' = phase - TICK + d
  BY PhaseIs, TickAssumption DEF TypeOK, LengthInv
<1>4. /\ \A p \in Paddles : config.dur[p] \in Nat
      /\ config.gap["ElementGap"] \in Nat
      /\ config.mode = "SinglePaddle" => config.dur["dash"] - config.dur["dit"] >= TICK
  BY ConfigFacts DEF TypeOK, SteadyTiming, TextGaps
<1>5. BeginStep \/ ExtendStep \/ ReleaseStep
  BY <1>1, <1>2, TickTimes
     DEF TimedTick, TimeCase, PressStep, HoldStep, GapStep, GapEndStep, TextGapStep,
         RestStep, StraightStep, Wait, Goto, GotoFor
<1>6. CASE BeginStep
  <2>1. PICK p \in Paddles : StartElementKeyed(p) BY <1>6 DEF BeginStep
  <2>2. state' = Sending[p] /\ Schedule(config.dur[p])
    BY <2>1 DEF StartElementKeyed, StartElement
  <2>3. state \in DelayStates BY <1>2, <1>6 DEF BeginStep
  <2>4. Nominal(state, state') = config.dur[p]
    <3>1. CASE p = "dit" BY <2>2, <3>1 DEF Nominal, Sending
    <3>2. CASE p = "dash"
      <4>1. state' = "SendDash" /\ state # "SendDit"
        BY <1>2, <2>2, <2>3, <3>2 DEF Sending, Paddles
      <4>2. config.dur["dash"] \in Nat BY <1>4 DEF Paddles
      <4> QED BY <3>2, <4>1, <4>2 DEF Nominal
    <3> QED BY <3>1, <3>2 DEF Paddles
  <2> QED BY <1>3, <1>4, <2>2, <2>4
<1>7. CASE ExtendStep
  <2> DEFINE a == config.dur["dash"]
             b == config.dur["dit"]
  <2>1. /\ state = "SendDit" /\ state' = "SendDash" /\ Schedule(Monus(a, b))
        /\ config.mode = "SinglePaddle"
    BY <1>7 DEF ExtendStep, Undecided
  <2>2. a \in Nat /\ b \in Nat /\ a - b >= TICK BY <1>4, <2>1, PhaseStates
  <2>3. Nominal(state, state') = a - b BY <2>1 DEF Nominal
  <2> HIDE DEF a, b
  <2>4. Monus(a, b) = a - b /\ a - b \in Nat BY <1>3, <2>2 DEF Monus, Greater
  <2>5. phase' = phase - TICK + (a - b) BY <1>3, <2>1, <2>4
  <2> QED BY <1>3, <2>2, <2>3, <2>5
<1>8. CASE ReleaseStep
  <2>1. state' \in DelayStates /\ Schedule(config.gap["ElementGap"])
    BY <1>2, <1>8 DEF ReleaseStep, Goto, GotoFor
  <2>2. Nominal(state, state') = config.gap["ElementGap"]
    BY <1>2, <2>1 DEF Nominal
  <2> QED BY <1>3, <1>4, <2>1, <2>2
<1> QED BY <1>5, <1>6, <1>7, <1>8

\* Every element is on the air for its length to within a tick and a run of
\* elements and gaps does not drift (schedule_phase), in every mode, at every
\* speed above a tick and whatever is sent.
THEOREM TimesKeptAlways ==
  ASSUME SteadyTiming
  PROVE  TimedSpec => TimesKept
<1> DEFINE Length == out' = "KeyUp" /\ state \in SendStates
                       /\ (config.mode = "SinglePaddle" => single_paddle_decided)
                     => Within(since + TICK, due, TICK)
           Carried == state' # state /\ {state, state'} \subseteq Timed
                      => phase' = phase + Nominal(state, state') - TICK
<1>1. TypeOK /\ HangInv /\ KeyFollowsState /\ LengthInv /\ [TimedNext]_timedVars
        => [Length]_timedVars /\ [Carried]_timedVars
  BY KeyUpStep, CarryStep DEF HangInv
<1>2. LiveModeChange = FALSE BY DEF SteadyTiming
<1>3. TimedSpec => [][Length]_timedVars /\ [][Carried]_timedVars
  BY <1>1, <1>2, TimedIsEngine, TypeCorrect, HangInvAlways, KeyFollowsStateAlways,
     LengthInvAlways, PTL DEF TimedSpec
<1> QED BY <1>3 DEF TimesKept, ElementLength, ResidualCarried
=============================================================================
