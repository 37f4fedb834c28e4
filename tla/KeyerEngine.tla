---------------------------- MODULE KeyerEngine ----------------------------
(***************************************************************************)
(* The CW keyer of radio-utils-keyer (engine.rs): a state machine advanced *)
(* by tick(), one quantum of TICK microseconds at a time, that turns the   *)
(* two paddles and a queue of text elements into at most one output event  *)
(* per tick: key down, key up, or a request to switch the transmitter on   *)
(* or off (PTT).                                                           *)
(*                                                                         *)
(* Between ticks the owner of the engine may move the paddles, queue or    *)
(* abort a text, change the configuration and drain the recorded key       *)
(* transitions, in any order and number: one action for each method.       *)
(*                                                                         *)
(* Time.  The code keeps an absolute clock (elapsed_us) and the absolute   *)
(* deadline of the current phase (phase_end_us) and only ever looks at     *)
(* their difference.  Here "phase" is that difference, phase_end_us -      *)
(* elapsed_us.  A deadline one whole tick in the past is as good as any    *)
(* older one (schedule_phase discards both), so phase stops at -TICK.      *)
(***************************************************************************)
EXTENDS Integers, Sequences

CONSTANTS
  Configs,        \* the configurations the host may install, see Config
  TICK,           \* tick_us
  DEBOUNCE,       \* STRAIGHT_KEY_RELEASE_DEBOUNCE_MS * 1000
  U32_MAX,        \* where the hang counter saturates: u32::MAX
  MAX_RECORDED_TRANSITIONS,
  Texts,          \* element sequences of the texts the host may send
  MAX_TEXT,       \* bound of the model: longest text queue
  LiveModeChange  \* may the host change the mode while an element is keyed?

Paddles == {"dit", "dash"}
Opp(p) == IF p = "dit" THEN "dash" ELSE "dit"

Modes == {"Straight", "Bug", "IambicA", "IambicB", "Ultimatic", "SinglePaddle"}
TextGaps == {"ElementGap", "LetterGap", "WordGap"}
Elements == Paddles \union TextGaps

(***************************************************************************)
(* A configuration: the fields of KeyerConfig the engine reads, with the   *)
(* speed, weight, ratio and compensation already turned into durations.    *)
(* gap["ElementGap"] is element_gap_us() and so on; hang is hang_time_ms   *)
(* in microseconds, a saturating product; pct is the memory-gate percentage *)
(* iambic_b_timing_percent.min(100).                                       *)
(***************************************************************************)
Config == [mode : Modes, dur : [Paddles -> Nat \ {0}], gap : [TextGaps -> Nat],
           hang : 0 .. U32_MAX, keys_reversed : BOOLEAN, auto_spacing : BOOLEAN,
           pct : 0..100]

ASSUME U32Assumption == U32_MAX \in Nat
ASSUME ConfigsAssumption == Configs \subseteq Config
ASSUME TickAssumption == TICK \in Nat \ {0}
ASSUME DebounceAssumption == DEBOUNCE \in Nat
ASSUME RingAssumption == MAX_RECORDED_TRANSITIONS \in Nat \ {0}
ASSUME TextsAssumption == Texts \subseteq Seq(Elements)
ASSUME MaxTextAssumption == MAX_TEXT \in Nat
ASSUME LiveModeChangeAssumption == LiveModeChange \in BOOLEAN

VARIABLES
  config,
  state,                  \* KeyerState
  held,                   \* dit_held, dash_held
  memory,                 \* dit_memory, dash_memory
  last_paddle,
  single_paddle_decided,
  phase,                  \* phase_end_us - elapsed_us
  element_duration,
  hang_counter,
  ptt_active,
  key_active,
  text_queue,
  text_sending,
  transitions,            \* key_down of each recorded transition
  straight_release_grace,
  out                     \* what the last method call returned

textVars == <<text_queue, text_sending>>
lineVars == <<ptt_active, key_active, hang_counter, transitions, out>>
latchVars == <<memory, last_paddle, single_paddle_decided>>
phaseVars == <<state, phase, element_duration>>
vars == <<config, held, textVars, lineVars, latchVars, phaseVars,
          straight_release_grace>>

Outputs == {"none", "KeyDown", "KeyUp", "PttOn", "PttOff"}

Sending == [p \in Paddles |-> IF p = "dit" THEN "SendDit" ELSE "SendDash"]
DelayAfter == [p \in Paddles |-> IF p = "dit" THEN "DitDelay" ELSE "DashDelay"]
SendStates == {"SendDit", "SendDash"}
DelayStates == {"DitDelay", "DashDelay"}
KeyerStates == {"Idle", "StraightKey", "LetterSpace"} \union SendStates
                 \union DelayStates

Greater(a, b) == IF a > b THEN a ELSE b
Lesser(a, b) == IF a < b THEN a ELSE b
Monus(a, b) == Greater(a - b, 0)

IsModeB == config.mode \in {"IambicB", "Ultimatic"}
TextPending == text_sending /\ text_queue # <<>>

-----------------------------------------------------------------------------
(* Phase timing.  Rem is phase after the clock has advanced for this tick. *)

Rem == Greater(phase - TICK, -TICK)
Expired == Rem <= 0

\* Mutant: the residual of the phase before is dropped.
MutantSchedule(d) == phase' = d

\* schedule_phase: continue from the deadline that just expired (or has not
\* yet), else start afresh from now.
Schedule(d) == phase' = (IF Rem + TICK > 0 THEN Rem ELSE 0) + d

\* in_memory_window, with r microseconds left (saturating at 0).
InMemoryWindow(r) == Greater(r, 0) > (element_duration * config.pct) \div 100

-----------------------------------------------------------------------------
(* The key line and PTT.                                                   *)

\* Mutant: a full ring keeps its oldest entry.
MutantRecorded(b) == Append(transitions, b)

\* record_transition: a full ring loses its oldest entry.
Recorded(b) ==
  Append(IF Len(transitions) = MAX_RECORDED_TRANSITIONS
         THEN Tail(transitions) ELSE transitions, b)

Silent ==
  /\ out' = "none"
  /\ UNCHANGED <<ptt_active, key_active, hang_counter, transitions>>

\* Mutant: the hang time is not started anew.
MutantEmitKeyDown ==
  /\ key_active' = TRUE
  /\ transitions' = Recorded(TRUE)
  /\ out' = "KeyDown"
  /\ UNCHANGED <<ptt_active, hang_counter>>

EmitKeyDown ==
  /\ key_active' = TRUE
  /\ hang_counter' = 0
  /\ transitions' = Recorded(TRUE)
  /\ out' = "KeyDown"
  /\ UNCHANGED ptt_active

\* Mutant: the edge is not recorded.
MutantEmitKeyUp ==
  /\ key_active' = FALSE
  /\ out' = "KeyUp"
  /\ UNCHANGED <<ptt_active, transitions>>

EmitKeyUp ==
  /\ key_active' = FALSE
  /\ transitions' = Recorded(FALSE)
  /\ out' = "KeyUp"
  /\ UNCHANGED ptt_active

\* Mutant: PTT and the key at once, reported as one event.
MutantEmitPttOrKeyDown ==
  /\ ptt_active' = TRUE
  /\ key_active' = TRUE
  /\ hang_counter' = 0
  /\ transitions' = Recorded(TRUE)
  /\ out' = "KeyDown"

\* PTT first; the key goes down on the next tick, when the state finds it up.
EmitPttOrKeyDown ==
  IF ptt_active
  THEN EmitKeyDown
  ELSE /\ ptt_active' = TRUE
       /\ out' = "PttOn"
       /\ UNCHANGED <<key_active, hang_counter, transitions>>

\* Mutants: the hang time also runs under a pressed key; or never adds up.
MutantHangUnderKey ==
  IF ptt_active
  THEN /\ hang_counter' = Lesser(hang_counter + TICK, U32_MAX)
       /\ IF hang_counter' >= config.hang
          THEN ptt_active' = FALSE /\ out' = "PttOff"
          ELSE out' = "none" /\ UNCHANGED ptt_active
       /\ UNCHANGED <<key_active, transitions>>
  ELSE Silent

MutantHangRestarts ==
  IF ptt_active /\ ~key_active
  THEN /\ hang_counter' = TICK
       /\ IF hang_counter' >= config.hang
          THEN ptt_active' = FALSE /\ out' = "PttOff"
          ELSE out' = "none" /\ UNCHANGED ptt_active
       /\ UNCHANGED <<key_active, transitions>>
  ELSE Silent

\* handle_hang_time: drop PTT once the key has been up for the hang time.
HandleHangTime ==
  IF ptt_active /\ ~key_active
  THEN /\ hang_counter' = Lesser(hang_counter + TICK, U32_MAX)
       /\ IF hang_counter' >= config.hang
          THEN ptt_active' = FALSE /\ out' = "PttOff"
          ELSE out' = "none" /\ UNCHANGED ptt_active
       /\ UNCHANGED <<key_active, transitions>>
  ELSE Silent

-----------------------------------------------------------------------------
(* Calls from the owner, between ticks.                                    *)

Init ==
  /\ config \in Configs
  /\ state = "Idle"
  /\ held = {}
  /\ memory = {}
  /\ last_paddle = "none"
  /\ single_paddle_decided = FALSE
  /\ phase = 0
  /\ element_duration = 0
  /\ hang_counter = 0
  /\ ptt_active = FALSE
  /\ key_active = FALSE
  /\ text_queue = <<>>
  /\ text_sending = FALSE
  /\ transitions = <<>>
  /\ straight_release_grace = 0
  /\ out = "none"

ReturnsNothing ==
  /\ out' = "none"
  /\ UNCHANGED <<ptt_active, key_active, hang_counter, phaseVars,
                 single_paddle_decided, straight_release_grace>>

UpdateConfig(c) ==
  /\ LiveModeChange \/ c.mode = config.mode \/ state = "Idle"
  /\ config' = c
  /\ ReturnsNothing
  /\ UNCHANGED <<held, textVars, memory, last_paddle, transitions>>

SetPaddle(raw) ==
  LET now == IF config.keys_reversed THEN {Opp(p) : p \in raw} ELSE raw
      rising == now \ held
      latching == /\ ~text_sending
                  /\ \/ state \notin SendStates
                     \/ ~IsModeB
                     \/ InMemoryWindow(phase)
  IN  /\ held' = now
      /\ memory' = IF latching THEN memory \union rising ELSE memory
      /\ last_paddle' = IF "dash" \in rising THEN "dash"
                        ELSE IF "dit" \in rising THEN "dit" ELSE last_paddle
      /\ IF now # {} /\ text_sending
         THEN text_queue' = <<>> /\ text_sending' = FALSE
         ELSE UNCHANGED textVars
      /\ ReturnsNothing
      /\ UNCHANGED <<config, transitions>>

\* Mutant: a text takes the place of the one under way.
MutantSendText(t) ==
  /\ Len(t) <= MAX_TEXT
  /\ text_queue' = t
  /\ text_sending' = TRUE
  /\ ReturnsNothing
  /\ UNCHANGED <<config, held, memory, last_paddle, transitions>>

SendText(t) ==
  /\ Len(text_queue) + Len(t) <= MAX_TEXT
  /\ text_queue' = text_queue \o t
  /\ text_sending' = TRUE
  /\ ReturnsNothing
  /\ UNCHANGED <<config, held, memory, last_paddle, transitions>>

AbortText ==
  /\ text_queue' = <<>>
  /\ text_sending' = FALSE
  /\ ReturnsNothing
  /\ UNCHANGED <<config, held, memory, last_paddle, transitions>>

DrainTransitions ==
  /\ transitions' = <<>>
  /\ ReturnsNothing
  /\ UNCHANGED <<config, held, textVars, memory, last_paddle>>

-----------------------------------------------------------------------------
(* Building blocks of a tick.  All of them leave config and held alone.    *)

\* The clock advances and the state does nothing else.
Wait ==
  /\ phase' = Rem
  /\ UNCHANGED <<state, element_duration>>

Goto(s) ==
  /\ state' = s
  /\ phase' = Rem
  /\ UNCHANGED element_duration

GotoFor(s, d) ==
  /\ state' = s
  /\ Schedule(d)
  /\ UNCHANGED element_duration

\* start_dit / start_dash.
StartElement(p) ==
  /\ state' = Sending[p]
  /\ Schedule(config.dur[p])
  /\ element_duration' = config.dur[p]
  /\ memory' = memory \ {p}
  /\ UNCHANGED last_paddle

StartElementKeyed(p) == StartElement(p) /\ EmitPttOrKeyDown

\* Pop the text queue and send its head, or time its gap.
DispatchText ==
  LET elem == Head(text_queue)
  IN  /\ text_sending' = TRUE
      /\ text_queue' = Tail(text_queue)
      /\ single_paddle_decided' = TRUE
      /\ \/ elem \in Paddles /\ StartElementKeyed(elem)
         \/ /\ elem \in TextGaps
            /\ GotoFor("DitDelay", config.gap[elem])
            /\ Silent
            /\ UNCHANGED <<memory, last_paddle>>

\* A paddle held during a gap aborts the text.
AbortTextIfHeld ==
  IF held # {} /\ text_sending
  THEN text_queue' = <<>> /\ text_sending' = FALSE
  ELSE UNCHANGED textVars

\* TextPending after AbortTextIfHeld.
TextPendingUnheld == TextPending /\ held = {}

\* Mutant: the memories survive into the next session.
MutantForgetSession ==
  /\ last_paddle' = "none"
  /\ single_paddle_decided' = FALSE
  /\ UNCHANGED memory

ForgetSession ==
  /\ last_paddle' = "none"
  /\ single_paddle_decided' = FALSE
  /\ memory' = {}

EnterIdleFromDelay ==
  /\ Goto("Idle")
  /\ out' = "none"
  /\ hang_counter' = 0
  /\ text_sending' = FALSE
  /\ text_queue' = IF held # {} /\ text_sending THEN <<>> ELSE text_queue
  /\ ForgetSession
  /\ UNCHANGED <<ptt_active, key_active, transitions, straight_release_grace>>

\* Mutant: no gap after the element.
MutantFinishNoGap(p) ==
  /\ EmitKeyUp
  /\ Goto("Idle")
  /\ UNCHANGED hang_counter

\* An element has run its time: a text goes straight back to Idle, where the
\* queue holds the gap; a paddle element is followed by the element gap.
FinishElement(p) ==
  /\ EmitKeyUp
  /\ IF text_sending
     THEN Goto("Idle")
     ELSE GotoFor(DelayAfter[p], config.gap["ElementGap"])
  /\ UNCHANGED hang_counter

-----------------------------------------------------------------------------
(* tick() in straight-key mode.                                            *)

StraightIdle ==
  /\ state = "Idle"
  /\ \/ /\ held # {}
        /\ Goto("StraightKey")
        /\ straight_release_grace' = 0
        /\ EmitPttOrKeyDown
     \/ /\ held = {}
        /\ HandleHangTime
        /\ Wait
        /\ UNCHANGED straight_release_grace

StraightKeyed ==
  /\ state = "StraightKey"
  /\ \/ /\ ~key_active
        /\ EmitKeyDown
        /\ Wait
        /\ UNCHANGED straight_release_grace
     \/ /\ key_active /\ held # {}
        /\ straight_release_grace' = 0
        /\ Silent
        /\ Wait
     \/ /\ key_active /\ held = {}
        /\ straight_release_grace + TICK < DEBOUNCE
        /\ straight_release_grace' = straight_release_grace + TICK
        /\ Silent
        /\ Wait
     \/ /\ key_active /\ held = {}
        /\ straight_release_grace + TICK >= DEBOUNCE
        /\ straight_release_grace' = 0
        /\ Goto("Idle")
        /\ hang_counter' = 0
        /\ EmitKeyUp

\* Entered only by a mode change: the element is never finished.
StraightOther ==
  /\ state \notin {"Idle", "StraightKey"}
  /\ Silent
  /\ Wait
  /\ UNCHANGED straight_release_grace

TickStraight ==
  /\ config.mode = "Straight"
  /\ StraightIdle \/ StraightKeyed \/ StraightOther
  /\ UNCHANGED <<config, held, textVars, latchVars>>

-----------------------------------------------------------------------------
(* tick() of the iambic modes; bug mode uses it for its dits.              *)

Bug == config.mode = "Bug"

\* The paddle to start with; bug mode leaves the dash to the straight key.
IambicStart ==
  LET asked == held \union memory
  IN  IF "dit" \in asked THEN "dit"
      ELSE IF "dash" \in asked /\ ~Bug THEN "dash" ELSE "none"

IambicIdle ==
  /\ state = "Idle"
  /\ \/ /\ IambicStart # "none"
        /\ StartElementKeyed(IambicStart)
        /\ UNCHANGED <<textVars, single_paddle_decided>>
     \/ /\ IambicStart = "none" /\ held = {} /\ text_queue # <<>>
        /\ DispatchText
     \/ /\ IambicStart = "none" /\ ~(held = {} /\ text_queue # <<>>)
        /\ HandleHangTime
        /\ Wait
        /\ UNCHANGED <<textVars, latchVars>>
  /\ UNCHANGED straight_release_grace

\* The opposite paddle held during an element is latched; in the mode B
\* keyers only before the dead zone at the element's tail.
IambicSend(p) ==
  /\ state = Sending[p]
  /\ \/ /\ ~key_active
        /\ EmitKeyDown
        /\ Wait
        /\ UNCHANGED memory
     \/ /\ key_active
        /\ memory' = IF Opp(p) \in held /\ (~IsModeB \/ InMemoryWindow(Rem))
                     THEN memory \union {Opp(p)} ELSE memory
        /\ \/ Expired /\ FinishElement(p)
           \/ ~Expired /\ Silent /\ Wait
  /\ UNCHANGED <<textVars, last_paddle, single_paddle_decided,
                 straight_release_grace>>

\* resolve_ultimatic: the last paddle wins while it is held or remembered.
UltimaticNext ==
  IF last_paddle \in held \union memory THEN last_paddle
  ELSE IF held \union memory = {} THEN "none"
  ELSE IF "dit" \in held THEN "dit"
  ELSE IF "dash" \in held THEN "dash" ELSE "none"

\* Mutant: repeat before alternate.
MutantIambicNext(p) ==
  LET live == held \union memory
  IN  IF p \in live THEN p ELSE IF Opp(p) \in live THEN Opp(p) ELSE "none"

\* The alternation rule of the other modes, after the gap that follows p.
IambicNext(p) ==
  LET live == (held \union (IF IsModeB THEN memory ELSE {}))
                \ (IF Bug THEN {"dash"} ELSE {})
  IN  IF Opp(p) \in live THEN Opp(p) ELSE IF p \in live THEN p ELSE "none"

NextElement(p) ==
  IF config.mode = "Ultimatic" THEN UltimaticNext ELSE IambicNext(p)

LetterRest == Monus(config.gap["LetterGap"], config.gap["ElementGap"])

\* resolve_delay_tail: nothing more to key.
ResolveDelayTail ==
  \/ /\ TextPendingUnheld
     /\ Goto("Idle")
     /\ Silent
     /\ UNCHANGED <<textVars, latchVars, straight_release_grace>>
  \/ /\ ~TextPendingUnheld /\ config.auto_spacing /\ LetterRest > 0
     /\ GotoFor("LetterSpace", LetterRest)
     /\ AbortTextIfHeld
     /\ Silent
     /\ UNCHANGED <<latchVars, straight_release_grace>>
  \/ /\ ~TextPendingUnheld /\ ~(config.auto_spacing /\ LetterRest > 0)
     /\ EnterIdleFromDelay

IambicDelay(p) ==
  /\ state = DelayAfter[p]
  /\ \/ /\ ~Expired
        /\ memory' = memory \union ({Opp(p)} \intersect held)
        /\ AbortTextIfHeld
        /\ Silent
        /\ Wait
        /\ UNCHANGED <<last_paddle, single_paddle_decided,
                       straight_release_grace>>
     \/ /\ Expired /\ NextElement(p) # "none"
        /\ StartElementKeyed(NextElement(p))
        /\ AbortTextIfHeld
        /\ UNCHANGED <<single_paddle_decided, straight_release_grace>>
     \/ /\ Expired /\ NextElement(p) = "none"
        /\ ResolveDelayTail

LetterSpaceTick ==
  /\ state = "LetterSpace"
  /\ \/ held # {} /\ state' = "Idle" /\ phase' = 0
     \/ held = {} /\ Expired /\ state' = "Idle" /\ phase' = Rem
     \/ held = {} /\ ~Expired /\ phase' = Rem /\ UNCHANGED state
  /\ Silent
  /\ UNCHANGED <<element_duration, textVars, latchVars, straight_release_grace>>

\* Entered only by a mode change: back to Idle, whatever the key is doing.
LeaveStraightKey ==
  /\ state = "StraightKey"
  /\ Goto("Idle")
  /\ Silent
  /\ UNCHANGED <<textVars, latchVars, straight_release_grace>>

IambicInner ==
  \/ IambicIdle
  \/ \E p \in Paddles : IambicSend(p) \/ IambicDelay(p)
  \/ LetterSpaceTick

TickIambic ==
  /\ config.mode \in {"IambicA", "IambicB", "Ultimatic"}
  /\ IambicInner \/ LeaveStraightKey
  /\ UNCHANGED <<config, held>>

-----------------------------------------------------------------------------
(* tick() in bug mode: the dash paddle is a straight key.                  *)

BugDash ==
  /\ state = "Idle" /\ held = {"dash"}
  /\ Goto("StraightKey")
  /\ EmitPttOrKeyDown

BugKeyed ==
  /\ state = "StraightKey"
  /\ \/ ~key_active /\ EmitKeyDown /\ Wait
     \/ key_active /\ "dash" \in held /\ Silent /\ Wait
     \/ /\ key_active /\ "dash" \notin held
        /\ Goto("Idle")
        /\ hang_counter' = 0
        /\ EmitKeyUp

TickBug ==
  /\ Bug
  /\ \/ /\ BugDash \/ BugKeyed
        /\ UNCHANGED <<textVars, latchVars, straight_release_grace>>
     \/ ~(state = "Idle" /\ held = {"dash"}) /\ IambicInner
  /\ UNCHANGED <<config, held>>

-----------------------------------------------------------------------------
(* tick() in single-paddle mode: a tap is a dit, a longer hold a dash.     *)

SingleIdle ==
  /\ state = "Idle"
  /\ \/ /\ held # {}
        /\ single_paddle_decided' = FALSE
        /\ StartElementKeyed("dit")
        /\ UNCHANGED textVars
     \/ held = {} /\ text_queue # <<>> /\ DispatchText
     \/ /\ held = {} /\ text_queue = <<>>
        /\ HandleHangTime
        /\ Wait
        /\ UNCHANGED <<textVars, latchVars>>
  /\ UNCHANGED straight_release_grace

SingleUndecided ==
  \/ /\ held = {}                        \* released in time: it was a dit
     /\ single_paddle_decided' = TRUE
     /\ GotoFor("DitDelay", config.gap["ElementGap"])
     /\ EmitKeyUp
     /\ UNCHANGED hang_counter
  \/ /\ held # {} /\ Expired             \* the key stays down: a dash
     /\ single_paddle_decided' = TRUE
     /\ state' = "SendDash"
     /\ Schedule(Monus(config.dur["dash"], config.dur["dit"]))
     /\ element_duration' = config.dur["dash"]
     /\ Silent
  \/ held # {} /\ ~Expired /\ Silent /\ Wait /\ UNCHANGED single_paddle_decided

SingleSend(p) ==
  /\ state = Sending[p]
  /\ \/ ~key_active /\ EmitKeyDown /\ Wait /\ UNCHANGED single_paddle_decided
     \/ key_active /\ p = "dit" /\ ~single_paddle_decided /\ SingleUndecided
     \/ /\ key_active /\ (p = "dash" \/ single_paddle_decided)
        /\ \/ Expired /\ FinishElement(p)
           \/ ~Expired /\ Silent /\ Wait
        /\ UNCHANGED single_paddle_decided
  /\ UNCHANGED <<textVars, memory, last_paddle, straight_release_grace>>

SingleDelay ==
  /\ state \in DelayStates
  /\ \/ /\ ~Expired
        /\ AbortTextIfHeld
        /\ Silent
        /\ Wait
        /\ UNCHANGED <<latchVars, straight_release_grace>>
     \/ /\ Expired /\ held # {}
        /\ single_paddle_decided' = FALSE
        /\ StartElementKeyed("dit")
        /\ AbortTextIfHeld
        /\ UNCHANGED straight_release_grace
     \/ /\ Expired /\ TextPendingUnheld
        /\ Goto("Idle")
        /\ Silent
        /\ UNCHANGED <<textVars, latchVars, straight_release_grace>>
     \/ Expired /\ held = {} /\ ~TextPending /\ EnterIdleFromDelay

TickSinglePaddle ==
  /\ config.mode = "SinglePaddle"
  /\ \/ SingleIdle \/ SingleDelay \/ LetterSpaceTick \/ LeaveStraightKey
     \/ \E p \in Paddles : SingleSend(p)
  /\ UNCHANGED <<config, held>>

-----------------------------------------------------------------------------

Tick == TickStraight \/ TickBug \/ TickIambic \/ TickSinglePaddle

Next ==
  \/ Tick
  \/ \E raw \in SUBSET Paddles : SetPaddle(raw)
  \/ \E c \in Configs : UpdateConfig(c)
  \/ \E t \in Texts : SendText(t)
  \/ AbortText
  \/ DrainTransitions

Spec == Init /\ [][Next]_vars

-----------------------------------------------------------------------------
(* Properties.                                                             *)

\* Every variable keeps its type; a countdown never falls below one tick in
\* the past, the recorded transitions fit their ring.
TypeOK ==
  /\ config \in Configs
  /\ state \in KeyerStates
  /\ held \in SUBSET Paddles
  /\ memory \in SUBSET Paddles
  /\ last_paddle \in Paddles \union {"none"}
  /\ single_paddle_decided \in BOOLEAN
  /\ phase \in Int /\ phase >= -TICK
  /\ element_duration \in Nat
  /\ hang_counter \in 0 .. U32_MAX
  /\ ptt_active \in BOOLEAN
  /\ key_active \in BOOLEAN
  /\ text_queue \in Seq(Elements)
  /\ text_sending \in BOOLEAN
  /\ transitions \in Seq(BOOLEAN)
  /\ Len(transitions) <= MAX_RECORDED_TRANSITIONS
  /\ straight_release_grace \in Nat
  /\ out \in Outputs

Keyed == SendStates \union {"StraightKey"}

\* The transmitter is on whenever the key is down or an element is under way:
\* start_element_keyed and the straight keys raise PTT a tick ahead of the
\* key, and handle_hang_time never drops it under either.
PttCoversKey == key_active \/ state \in Keyed => ptt_active

\* While the mode only changes at rest, the key is down only in a state that
\* will lift it, and no mode is in a state its tick function cannot finish
\* (StraightOther, LeaveStraightKey never happen).
KeyFollowsState ==
  /\ key_active => state \in Keyed
  /\ config.mode = "Straight" => state \in {"Idle", "StraightKey"}
  /\ state = "StraightKey" => config.mode \in {"Straight", "Bug"}

\* A queued text is never stranded: while elements are queued text_sending
\* is set, so a delay state goes back to the queue instead of ending the
\* session (resolve_delay_tail, enter_idle_from_delay).
QueueImpliesSending == text_queue # <<>> => text_sending

\* The recorded transitions alternate and end with the present key line, also
\* after the ring has evicted entries or was drained (record_transition).
RingAlternates ==
  /\ \A i \in 1 .. Len(transitions) - 1 : transitions[i] # transitions[i + 1]
  /\ transitions # <<>> => transitions[Len(transitions)] = key_active

\* Between elements, after evictions and drains of the ring and after a switch
\* of modes, the state, the key line and the record of it agree.
LinesAgree == KeyFollowsState /\ RingAlternates

\* Events tell the consumer the truth: a key or PTT event is reported exactly
\* when the line it names changes, so a consumer that only follows events
\* (forwarded one by one by keyer_loop) always knows the state of both lines.
EventsTrackLines ==
  [][ /\ out' = "KeyDown" <=> ~key_active /\ key_active'
      /\ out' = "KeyUp"   <=> key_active /\ ~key_active'
      /\ out' = "PttOn"   <=> ~ptt_active /\ ptt_active'
      /\ out' = "PttOff"  <=> ptt_active /\ ~ptt_active' ]_vars

\* Once the paddles stay released, no text is queued and the mode stays what
\* it is, the keyer comes to rest with the key up and the transmitter off.
ComesToRest ==
  \A m \in Modes :
    <>[](held = {} /\ text_queue = <<>> /\ config.mode = m)
      => <>[](state = "Idle" /\ ~key_active /\ ~ptt_active)

\* A paddle latched in iambic B while the other one's element is keyed gets
\* its own element: the memory bit cannot be lost between the element, the
\* gap and the next element.
LatchedIsSent ==
  \A p \in Paddles :
    (state = Sending[p] /\ Opp(p) \in memory /\ config.mode = "IambicB")
      ~> (state = Sending[Opp(p)] \/ config.mode # "IambicB")
=============================================================================
