---------------------------- MODULE KeyerThread ----------------------------
(***************************************************************************)
(* The "cw-keyer" thread of radio-utils-keyer (handle.rs) around the       *)
(* engine: keyer_loop, the KeyerHandle of its owner, and the consumer of   *)
(* its events.  The loop waits for the paddles, drains the command         *)
(* channel, and then ticks the engine for the time that has passed, at     *)
(* most MAX_BATCH ticks an iteration.                                      *)
(*                                                                         *)
(* The owner and the consumer are other threads: their steps interleave    *)
(* with each command the loop takes and with each tick of a batch.  The    *)
(* wait may return after any time, at once or long after its timeout (1 ms *)
(* or 100 ms), so the timeout itself is not modelled.                      *)
(***************************************************************************)
EXTENDS KeyerEngine

CONSTANTS
  CMD_CAP,    \* capacity of the command channel (64)
  OUT_CAP,    \* capacity of the output channel (256)
  MAX_BATCH,  \* ticks of one iteration (4)
  Delays,     \* bound of the model: the times an iteration may take
  Presses     \* bound of the model: the paddle states the input reports

ASSUME ThreadAssumption ==
  /\ {CMD_CAP, OUT_CAP, MAX_BATCH} \subseteq Nat \ {0}
  /\ Delays \subseteq Nat
  /\ Presses \subseteq SUBSET Paddles
  /\ LiveModeChange    \* the thread installs a configuration at any time

VARIABLES
  pc,        \* where keyer_loop is
  running,
  cmds,      \* the command channel
  outputs,   \* the output channel
  lag,       \* now - last_tick when the loop last looked
  budget,    \* ticks left of this iteration
  owner,     \* the call of KeyerHandle its owner is in
  \* Observers, which restrict nothing:
  believed,  \* the lines as the consumer of the events knows them
  dropped,   \* has an event been dropped?
  asked,     \* the owner's last word on texts
  behind,    \* wall-clock time the engine has not been ticked for
  begun      \* has an element begun in this batch?

ghostVars == <<believed, dropped, asked, behind, begun>>
loopVars == <<pc, lag, budget>>
chanVars == <<running, cmds, outputs, owner>>
threadVars == <<vars, loopVars, chanVars, ghostVars>>

Command == [cmd : {"SendMacro"}, text : Texts]
             \union [cmd : {"UpdateConfig"}, config : Configs]
             \union [cmd : {"AbortMacro", "Stop"}]

Lines == [key : BOOLEAN, ptt : BOOLEAN]

ThreadInit ==
  /\ Init
  /\ pc = "top"
  /\ running = TRUE
  /\ cmds = <<>>
  /\ outputs = <<>>
  /\ lag = 0
  /\ budget = 0
  /\ owner = "idle"
  /\ believed = [key |-> FALSE, ptt |-> FALSE]
  /\ dropped = FALSE
  /\ asked = "nothing"
  /\ behind = 0
  /\ begun = FALSE

-----------------------------------------------------------------------------
(* The owner: the methods of KeyerHandle.  The channel is disconnected     *)
(* once the loop has ended.                                                *)

Room == pc # "ended" /\ Len(cmds) < CMD_CAP

\* Sender::try_send with the result ignored.
TrySend(c) == cmds' = IF Room THEN Append(cmds, c) ELSE cmds

\* Elements of the texts still in the channel.
ElementsUnderWay ==
  LET n[i \in 0 .. Len(cmds)] ==
        IF i = 0 THEN 0
        ELSE n[i - 1] + IF cmds[i].cmd = "SendMacro" THEN Len(cmds[i].text) ELSE 0
  IN  n[Len(cmds)]

SendMacro(t) ==
  /\ owner = "idle"
  /\ Len(text_queue) + ElementsUnderWay + Len(t) <= MAX_TEXT
  /\ TrySend([cmd |-> "SendMacro", text |-> t])
  /\ asked' = "text"
  /\ UNCHANGED <<vars, loopVars, running, outputs, owner, believed, dropped,
                 behind, begun>>

SendConfig(c) ==
  /\ owner = "idle"
  /\ TrySend([cmd |-> "UpdateConfig", config |-> c])
  /\ UNCHANGED <<vars, loopVars, running, outputs, owner, ghostVars>>

AbortMacro ==
  /\ owner = "idle"
  /\ owner' = "aborting"
  /\ UNCHANGED <<vars, loopVars, running, cmds, outputs, ghostVars>>

\* Mutant: the abort is dropped when the channel is full.
MutantAbortTrySend ==
  /\ owner = "aborting"
  /\ owner' = "idle"
  /\ TrySend([cmd |-> "AbortMacro"])
  /\ asked' = "abort"
  /\ UNCHANGED <<vars, loopVars, running, outputs, believed, dropped, behind,
                 begun>>

\* The blocking send of abort_macro goes through, or fails on a channel
\* without a receiver.
AbortSent ==
  /\ owner = "aborting"
  /\ Room \/ pc = "ended"
  /\ owner' = "idle"
  /\ TrySend([cmd |-> "AbortMacro"])
  /\ asked' = "abort"
  /\ UNCHANGED <<vars, loopVars, running, outputs, believed, dropped, behind,
                 begun>>

Stop ==
  /\ owner = "idle"
  /\ running' = FALSE
  /\ TrySend([cmd |-> "Stop"])
  /\ owner' = "joining"
  /\ UNCHANGED <<vars, loopVars, outputs, ghostVars>>

Joined ==
  /\ owner = "joining" /\ pc = "ended"
  /\ owner' = "idle"
  /\ UNCHANGED <<vars, loopVars, running, cmds, outputs, ghostVars>>

-----------------------------------------------------------------------------
(* keyer_loop.                                                             *)

\* while running: the flag is read, then the paddles are waited for.
LoopTop ==
  /\ pc = "top"
  /\ pc' = IF running THEN "wait" ELSE "ended"
  /\ UNCHANGED <<vars, lag, budget, chanVars, ghostVars>>

WaitForChange(raw) ==
  /\ pc = "wait"
  /\ SetPaddle(raw)
  /\ pc' = "drain"
  /\ UNCHANGED <<lag, budget, chanVars, ghostVars>>

Execute(c) ==
  \/ c.cmd = "SendMacro" /\ SendText(c.text) /\ UNCHANGED running
  \/ c.cmd = "UpdateConfig" /\ UpdateConfig(c.config) /\ UNCHANGED running
  \/ c.cmd = "AbortMacro" /\ AbortText /\ UNCHANGED running
  \/ c.cmd = "Stop" /\ running' = FALSE /\ UNCHANGED vars

DrainCommand ==
  /\ pc = "drain" /\ cmds # <<>>
  /\ Execute(Head(cmds))
  /\ cmds' = Tail(cmds)
  /\ UNCHANGED <<loopVars, outputs, owner, ghostVars>>

\* Mutants: no cap on the ticks; or the clock restarts at every batch, which
\* loses the fraction of a tick.
MutantBatchUncapped(elapsed) ==
  /\ budget' = elapsed \div TICK
  /\ lag' = elapsed % TICK

MutantBatchFromNow(elapsed) ==
  LET raw == elapsed \div TICK
  IN  /\ budget' = Lesser(raw, MAX_BATCH)
      /\ lag' = IF raw = 0 THEN elapsed ELSE 0

\* The ticks due after the time elapsed, and what is left of it: nothing if
\* the thread was starved beyond the cap, else the fraction of a tick.
Batch(elapsed) ==
  LET raw == elapsed \div TICK
  IN  /\ budget' = Lesser(raw, MAX_BATCH)
      /\ lag' = IF raw > MAX_BATCH THEN 0 ELSE elapsed % TICK

StartBatch(d) ==
  /\ pc = "drain" /\ cmds = <<>>
  /\ Batch(lag + d)
  /\ pc' = IF budget' = 0 THEN "top" ELSE "batch"
  /\ behind' = IF lag + d >= (MAX_BATCH + 1) * TICK
               THEN MAX_BATCH * TICK ELSE behind + d
  /\ begun' = FALSE
  /\ UNCHANGED <<vars, chanVars, believed, dropped, asked>>

\* Mutants: only the last event of a batch is passed on; or the loop waits for
\* room in the channel.
MutantForward(event) ==
  /\ outputs' = IF event = "none" \/ budget > 1 \/ Len(outputs) = OUT_CAP
                THEN outputs ELSE Append(outputs, event)
  /\ dropped' = (dropped \/ (event # "none" /\ Len(outputs) = OUT_CAP))

MutantForwardBlocks(event) ==
  /\ event # "none" => Len(outputs) < OUT_CAP
  /\ outputs' = IF event = "none" THEN outputs ELSE Append(outputs, event)
  /\ UNCHANGED dropped

\* output_tx.try_send: an event that finds the channel full is dropped.
Forward(event) ==
  /\ outputs' = IF event = "none" \/ Len(outputs) = OUT_CAP
                THEN outputs ELSE Append(outputs, event)
  /\ dropped' = (dropped \/ (event # "none" /\ Len(outputs) = OUT_CAP))

BatchTick ==
  /\ pc = "batch"
  /\ Tick
  /\ Forward(out')
  /\ budget' = budget - 1
  /\ pc' = IF budget = 1 THEN "top" ELSE "batch"
  /\ behind' = behind - TICK
  /\ begun' = (begun \/ (state \notin SendStates /\ state' \in SendStates))
  /\ UNCHANGED <<lag, running, cmds, owner, believed, asked>>

-----------------------------------------------------------------------------
(* The consumer of the events; external to the crate.                      *)

After(lines, event) ==
  CASE event = "KeyDown" -> [lines EXCEPT !.key = TRUE]
    [] event = "KeyUp"   -> [lines EXCEPT !.key = FALSE]
    [] event = "PttOn"   -> [lines EXCEPT !.ptt = TRUE]
    [] event = "PttOff"  -> [lines EXCEPT !.ptt = FALSE]

Consume ==
  /\ outputs # <<>>
  /\ believed' = After(believed, Head(outputs))
  /\ outputs' = Tail(outputs)
  /\ UNCHANGED <<vars, loopVars, running, cmds, owner, dropped, asked, behind,
                 begun>>

-----------------------------------------------------------------------------

Loop ==
  \/ LoopTop
  \/ \E raw \in Presses : WaitForChange(raw)
  \/ DrainCommand
  \/ \E d \in Delays : StartBatch(d)
  \/ BatchTick

Owner ==
  \/ \E t \in Texts : SendMacro(t)
  \/ \E c \in Configs : SendConfig(c)
  \/ AbortMacro
  \/ AbortSent
  \/ Stop
  \/ Joined

ThreadNext == Loop \/ Owner \/ Consume

\* The loop keeps running and the owner's blocking calls return when they
\* can; nobody has to call anything, or to read the events.
ThreadSpec ==
  /\ ThreadInit /\ [][ThreadNext]_threadVars
  /\ WF_threadVars(Loop) /\ WF_threadVars(AbortSent) /\ WF_threadVars(Joined)

-----------------------------------------------------------------------------
(* Properties.                                                             *)

\* Types: the channels keep their capacity and the batch its cap.
ThreadTypeOK ==
  /\ TypeOK
  /\ pc \in {"top", "wait", "drain", "batch", "ended"}
  /\ running \in BOOLEAN
  /\ cmds \in Seq(Command) /\ Len(cmds) <= CMD_CAP
  /\ outputs \in Seq(Outputs \ {"none"}) /\ Len(outputs) <= OUT_CAP
  /\ lag \in 0 .. TICK - 1
  /\ budget \in 0 .. MAX_BATCH
  /\ (pc = "batch") = (budget > 0)
  /\ owner \in {"idle", "aborting", "joining"}
  /\ believed \in Lines
  /\ dropped \in BOOLEAN
  /\ asked \in {"nothing", "text", "abort"}
  /\ behind \in Nat
  /\ begun \in BOOLEAN

\* An abort is never lost, however full the channel: once the owner's last
\* word was abort_macro and the loop has taken it, no text is left to send
\* ("Uses blocking send to ensure the abort is never silently dropped").
LastAbortWins ==
  /\ asked = "abort" /\ pc # "ended"
  /\ \A i \in 1 .. Len(cmds) : cmds[i].cmd # "AbortMacro"
  => ~text_sending /\ text_queue = <<>>

\* A consumer that has read every event knows both lines, as long as no event
\* was dropped on a full channel (keyer_loop forwards each one in order).
ConsumerInSync ==
  outputs = <<>> /\ ~dropped => believed = [key |-> key_active, ptt |-> ptt_active]

\* The engine's clock never runs ahead of the wall clock, and unless the
\* thread was starved it is less than a tick behind it when the loop comes
\* round: fractions of a tick add up and are not discarded.
NoDrift == pc = "top" => behind \in 0 .. TICK - 1

\* The channels keep their capacity and the batch its cap, and the clocks
\* keep step.
InStep == ThreadTypeOK /\ NoDrift

\* No element begins and ends within one batch, so that the paddles are read
\* at least once between an element's start and the decision what follows it
\* ("a batch of 4 ticks must be shorter than the shortest dit").
PaddlesReadPerElement ==
  [][ (state \in SendStates /\ state' \notin SendStates) => ~begun ]_threadVars

\* Where it holds: a batch is no longer than the shortest element, which the code
\* relies on and the configuration does not enforce.
BatchFits == \A c \in Configs, p \in Paddles : c.dur[p] >= MAX_BATCH * TICK

\* stop() comes back: the loop sees the flag even if the Stop command was
\* dropped on a full channel.
StopReturns == owner = "joining" ~> owner = "idle"

\* abort_macro() comes back, although it waits for room in the channel and
\* also when it is called after stop().
AbortReturns == owner = "aborting" ~> owner = "idle"

\* Neither call of the owner hangs, however full the channels are.
CallsReturn == StopReturns /\ AbortReturns
=============================================================================
