----------------------------- MODULE KeyerText ------------------------------
(***************************************************************************)
(* KeyerTimed with a listener who has the texts sent in hand and ticks off *)
(* on the key line what is heard of them: what becomes of a text once it   *)
(* is queued.  He follows one text, any of those sent, to its end.  The    *)
(* added variables only record; they never restrict a step.                *)
(***************************************************************************)
EXTENDS KeyerTimed, FiniteSetsExt

VARIABLES
  script,  \* elements of the texts sent and not aborted, still to be heard
  own,     \* is the element under way one of a text not aborted?
  left     \* marks still to be heard of the text followed, and before it

textedVars == <<timedVars, script, own, left>>

Marks(s) == Len(SelectSeq(s, LAMBDA e : e \in Paddles))

\* The gaps s begins with.
Gaps(s) == CHOOSE n \in 0 .. Len(s) :
             /\ \A i \in 1..n : s[i] \in TextGaps
             /\ n < Len(s) => s[n + 1] \in Paddles
AfterGaps(s) == SubSeq(s, Gaps(s) + 1, Len(s))
Silence(s, c) == MapThenSumSet(LAMBDA i : c.gap[s[i]], 1 .. Gaps(s))

TextInit == TimedInit /\ script = <<>> /\ own = FALSE /\ left = 0

\* Whoever aborts a text knows that he does.
Aborted == held' # {} /\ ~text_sending'
GiveUp == script' = <<>> /\ own' = FALSE /\ left' = 0

\* A mark of a text counts if it comes when it is next, after the silence due.
InTime == \E c \in Configs : since + TICK >= Lesser(Silence(script, c), TIME_CAP)
Ended ==
  /\ out' = "KeyUp" /\ own /\ script # <<>>
  /\ \E p \in Paddles : state = Sending[p] /\ Head(script) = p

\* An element taken from the queue is the text's.
Owned ==
  /\ state' \in SendStates
  /\ IF state \in SendStates THEN own
     ELSE text_sending' /\ text_queue # <<>> /\ text_queue' = Tail(text_queue)

TextTick ==
  /\ TimedTick
  /\ \/ Aborted /\ GiveUp
     \/ /\ ~Aborted
        /\ own' = Owned
        /\ script' = IF Ended THEN Tail(script)
                     ELSE IF out' = "KeyDown" /\ InTime THEN AfterGaps(script)
                     ELSE script
        /\ left' = IF Ended THEN Monus(left, 1) ELSE left

TextCall ==
  /\ \/ /\ \E t \in Texts :
             /\ SendText(t)
             /\ script' = script \o t
             /\ left' \in IF left = 0 THEN {0, Marks(script')} ELSE {left}
        /\ UNCHANGED own
     \/ AbortText /\ GiveUp
     \/ /\ \/ \E raw \in SUBSET Paddles : SetPaddle(raw)
           \/ \E c \in Configs : UpdateConfig(c)
           \/ DrainTransitions
        /\ IF Aborted THEN GiveUp ELSE UNCHANGED <<script, own, left>>
  /\ Touched

TextNext == TextTick \/ TextCall

\* The keyer thread ticks for as long as it runs.
TextFairSpec ==
  TextInit /\ [][TextNext]_textedVars /\ WF_textedVars(TextTick)

-----------------------------------------------------------------------------
(* Properties.                                                             *)

\* What is keyed for a text is the next mark of it: whole, in its place and
\* after the silence the gaps before it make (dispatch_text_element).
MarksInOrder == [][ out' = "KeyUp" /\ own => Ended ]_textedVars

\* A text is keyed to its last mark or aborted, once the paddles stay released
\* outside straight-key mode, however many more are queued behind it.
KeyedToTheEnd ==
  <>[](held = {} /\ config.mode # "Straight") => (left > 0 ~> left = 0)

\* Every text is sent as it is, behind those queued before it, to its end.
TextsAreKeyed == MarksInOrder /\ KeyedToTheEnd
=============================================================================
