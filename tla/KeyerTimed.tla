----------------------------- MODULE KeyerTimed -----------------------------
(***************************************************************************)
(* KeyerEngine observed with a stopwatch on the key line: what the timing  *)
(* on the air owes to the schedule the engine keeps.  The added variables  *)
(* only record; they never restrict a step.                                *)
(***************************************************************************)
EXTENDS KeyerEngine

CONSTANTS
  TIME_CAP,   \* bound of the model: the stopwatch stops here
  HANG        \* a hang time that no configuration undercuts

\* The last bound is for a dit at the speed of c prolonged at the speed of d.
ASSUME TimeCapAssumption ==
  /\ TIME_CAP \in Nat /\ HANG \in Nat
  /\ \A c \in Configs :
       /\ HANG <= c.hang /\ c.hang <= TIME_CAP
       /\ c.gap["ElementGap"] <= TIME_CAP
       /\ \A p \in Paddles : c.dur[p] + TICK <= TIME_CAP
       /\ \A d \in Configs :
            c.dur["dit"] + d.dur["dash"] - d.dur["dit"] + TICK <= TIME_CAP

VARIABLES
  since,   \* time since the key last changed, up to TIME_CAP
  owed,    \* element gap in force when the key last went up
  due,     \* time on the air of the timed element under way
  tapped   \* paddles seen down since the engine came to rest

timedVars == <<vars, since, owed, due, tapped>>

AtRest(s) == s \in {"Idle", "LetterSpace"}

\* What a phase lasts that begins as s gives way to t; a single-paddle dash
\* is the dit before it prolonged.
Nominal(s, t) ==
  CASE t = "SendDit" -> config.dur["dit"]
    [] t = "SendDash" -> config.dur["dash"]
                           - (IF s = "SendDit" THEN config.dur["dit"] ELSE 0)
    [] OTHER -> config.gap["ElementGap"]

\* An element lasts what it is configured to when it begins, less the tick
\* that goes to PTT if that is off.
NewDue ==
  IF state' \notin SendStates THEN 0
  ELSE IF state' = state THEN due
  ELSE Nominal(state, state') + (IF state \in SendStates THEN due
                                 ELSE IF ptt_active THEN 0 ELSE -TICK)

TimedInit == Init /\ since = TIME_CAP /\ owed = 0 /\ due = 0 /\ tapped = {}

TimedTick ==
  /\ Tick
  /\ since' = IF key_active' # key_active
              THEN 0 ELSE Lesser(since + TICK, TIME_CAP)
  /\ owed' = IF out' = "KeyUp" THEN config.gap["ElementGap"] ELSE owed
  /\ due' = NewDue
  /\ tapped' = IF ~AtRest(state') THEN {}
               ELSE IF AtRest(state) THEN tapped \union held ELSE held

Touched ==
  /\ tapped' = IF AtRest(state) THEN tapped \union held' ELSE tapped
  /\ UNCHANGED <<since, owed, due>>

TimedCall ==
  /\ \/ \E raw \in SUBSET Paddles : SetPaddle(raw)
     \/ \E c \in Configs : UpdateConfig(c)
     \/ \E t \in Texts : SendText(t)
     \/ AbortText
     \/ DrainTransitions
  /\ Touched

TimedNext == TimedTick \/ TimedCall

TimedSpec == TimedInit /\ [][TimedNext]_timedVars

\* The keyer thread ticks for as long as it runs.
TimedFairSpec == TimedSpec /\ WF_timedVars(TimedTick)

-----------------------------------------------------------------------------
(* Properties.                                                             *)

IambicModes == {"IambicA", "IambicB", "Ultimatic"}
Timed == SendStates \union DelayStates
Within(a, b, d) == a - b <= d /\ b - a <= d

\* PTT goes off only with the key up, and only once the key has been up for
\* the configured hang time (handle_hang_time counts ticks in hang_counter,
\* which earlier sessions and mode changes leave at arbitrary values).
HangRespected ==
  [][ ptt_active /\ ~ptt_active' =>
        ~key_active /\ since' >= config.hang ]_timedVars

\* Elements never fuse: in the iambic modes the key stays up between two
\* elements for the element gap, to within a tick.
GapKept ==
  [][ out' = "KeyDown" /\ config.mode \in IambicModes =>
        since + TICK > owed - TICK ]_timedVars

\* A timed element is on the air for its nominal duration to within a tick,
\* although its first tick may go to PTT, its end is only noticed by a tick and
\* the speed may change under it (start_dit, start_dash, schedule_phase).
ElementLength ==
  [][ out' = "KeyUp" /\ state \in SendStates
        /\ (config.mode = "SinglePaddle" => single_paddle_decided)
      => Within(since + TICK, due, TICK) ]_timedVars

\* The residual is carried: a phase that follows another without a pause is
\* timed from the deadline of the one before, not from the tick that noticed
\* it, so a run of elements does not drift (schedule_phase).
ResidualCarried ==
  [][ state' # state /\ {state, state'} \subseteq Timed
      => phase' = phase + Nominal(state, state') - TICK ]_timedVars

\* Elements keep their length, one by one and in a run.
TimesKept == ElementLength /\ ResidualCarried

\* A new session is started only by the operator: an iambic element keyed out
\* of Idle, other than one of a text, belongs to a paddle that was down at
\* some moment since the engine came to rest (enter_idle_from_delay wipes the
\* latches of the session before).
NoPhantom ==
  [][ state = "Idle" /\ state' \in SendStates /\ text_queue' = text_queue
        /\ config.mode \in IambicModes
      => \E p \in held \union tapped : state' = Sending[p] ]_timedVars

\* Where GapKept, NoPhantom and TimesKept hold.  A text sent while an element is on
\* the air, and an element left of straight-key mode, are keyed with no gap.
PaddlesOnly == Texts = {} /\ \A c \in Configs : c.mode \notin {"Straight", "Bug"}

\* Of the modes that may end a session with a latch left in memory none goes
\* to a letter space, which would keep it.
NoLatchKept ==
  /\ Texts = {}
  /\ \A c \in Configs :
       c.mode \in IambicModes /\ (c.auto_spacing => c.mode = "IambicB")

\* The mode changes at rest, two ticks fit into an element and one into a gap,
\* and a single-paddle dash is longer than its dit by a tick.
SteadyTiming ==
  /\ LiveModeChange = FALSE
  /\ \A c \in Configs :
       /\ \A p \in Paddles : c.dur[p] >= 2 * TICK
       /\ \A g \in TextGaps : c.gap[g] >= TICK
       /\ c.mode = "SinglePaddle" => c.dur["dash"] - c.dur["dit"] >= TICK

\* The events and the stopwatch are those of a well-behaved key line.
Line == INSTANCE KeyLine WITH
  key <- key_active, ptt <- ptt_active, event <- out

ImplementsKeyLine == Line!Spec
=============================================================================
