-------------------------- MODULE KeyerThreadProofs --------------------------
(***************************************************************************)
(* The keyer thread with its owner and consumer, proved for every size of  *)
(* the channels and of a batch, every delay of the thread and every set of *)
(* configurations and texts: its types and clocks, that an abort is never  *)
(* lost, that a consumer who missed no event knows both lines, and, if a   *)
(* batch is no longer than a dit, that no element fits into one.           *)
(***************************************************************************)
EXTENDS KeyerThread, KeyerEngineProofs

(***************************************************************************)
(* Arithmetic of a batch.                                                  *)
(***************************************************************************)

LEMMA DivMod ==
  ASSUME NEW e \in Nat
  PROVE  /\ e \div TICK \in Nat
         /\ e % TICK \in 0 .. TICK - 1
         /\ e = ((e \div TICK) * TICK) + (e % TICK)
<1>1. TICK \in Nat \ {0}
  BY TickAssumption
<1>2. QED
  BY <1>1

\* The ticks of the cap and one more are due exactly when the division says so.
LEMMA OverTheCap ==
  ASSUME NEW e \in Nat
  PROVE  (e >= (MAX_BATCH + 1) * TICK) = (e \div TICK > MAX_BATCH)
<1> DEFINE q == e \div TICK  r == e % TICK
<1>1. TICK \in Nat /\ TICK > 0 /\ MAX_BATCH \in Nat
  BY TickAssumption, ThreadAssumption
<1>2. q \in Nat /\ r \in 0 .. TICK - 1 /\ e = (q * TICK) + r
  BY DivMod
<1> HIDE DEF q, r
<1>3. CASE q > MAX_BATCH
  <2>1. PICK k \in Nat : q = MAX_BATCH + 1 + k
    <3>1. q - (MAX_BATCH + 1) \in Nat
      BY <1>1, <1>2, <1>3
    <3>2. q = MAX_BATCH + 1 + (q - (MAX_BATCH + 1))
      BY <1>1, <1>2
    <3>3. QED
      BY <3>1, <3>2
  <2>2. k * TICK \in Nat
    BY <1>1, <2>1
  <2>3. q * TICK = (MAX_BATCH + 1) * TICK + k * TICK
    BY <1>1, <2>1
  <2>4. (MAX_BATCH + 1) * TICK \in Nat
    BY <1>1
  <2>5. QED
    BY <1>1, <1>2, <1>3, <2>2, <2>3, <2>4 DEF q
<1>4. CASE ~(q > MAX_BATCH)
  <2>1. PICK k \in Nat : MAX_BATCH = q + k
    <3>1. MAX_BATCH - q \in Nat
      BY <1>1, <1>2, <1>4
    <3>2. MAX_BATCH = q + (MAX_BATCH - q)
      BY <1>1, <1>2
    <3>3. QED
      BY <3>1, <3>2
  <2>2. k * TICK \in Nat /\ q * TICK \in Nat
    BY <1>1, <1>2, <2>1
  <2>3. (MAX_BATCH + 1) * TICK = q * TICK + k * TICK + TICK
    BY <1>1, <1>2, <2>1
  <2>4. QED
    BY <1>1, <1>2, <1>4, <2>2, <2>3 DEF q
<1>5. QED
  BY <1>3, <1>4

(***************************************************************************)
(* Types and clocks.                                                       *)
(***************************************************************************)

LoopOK ==
  /\ pc \in {"top", "wait", "drain", "batch", "ended"}
  /\ lag \in 0 .. TICK - 1
  /\ budget \in 0 .. MAX_BATCH
  /\ (pc = "batch") = (budget > 0)
  /\ behind \in Nat /\ begun \in BOOLEAN

ChanOK ==
  /\ running \in BOOLEAN
  /\ cmds \in Seq(Command) /\ Len(cmds) <= CMD_CAP
  /\ owner \in {"idle", "aborting", "joining"}
  /\ asked \in {"nothing", "text", "abort"}

EventsOK ==
  /\ outputs \in Seq(Outputs \ {"none"}) /\ Len(outputs) <= OUT_CAP
  /\ believed \in Lines
  /\ dropped \in BOOLEAN

\* The engine is behind the clock by the fraction of a tick kept in lag and
\* by the ticks that are left of the batch.
ClockKept == behind = lag + budget * TICK

ThreadInv == TypeOK /\ LoopOK /\ ChanOK /\ EventsOK /\ ClockKept

LEMMA InvInStep == ThreadInv => InStep
<1> SUFFICES ASSUME ThreadInv PROVE InStep
  OBVIOUS
<1>1. ThreadTypeOK
  BY Zenon DEF ThreadInv, LoopOK, ChanOK, EventsOK, ThreadTypeOK
<1>2. ASSUME pc = "top" PROVE behind \in 0 .. TICK - 1
  <2>1. budget = 0
    BY <1>2, ThreadAssumption DEF ThreadInv, LoopOK
  <2>2. QED
    BY <2>1, TickAssumption DEF ThreadInv, ClockKept, LoopOK
<1>3. QED
  BY <1>1, <1>2 DEF InStep, NoDrift

\* The parts of the state a step leaves alone.
LEMMA Frames ==
  ASSUME ThreadInv
  PROVE  /\ UNCHANGED vars => TypeOK'
         /\ UNCHANGED <<loopVars, behind, begun>> => LoopOK' /\ ClockKept'
         /\ UNCHANGED <<running, cmds, owner, asked>> => ChanOK'
         /\ UNCHANGED <<outputs, believed, dropped>> => EventsOK'
<1>1. UNCHANGED vars => TypeOK'
  BY DEF ThreadInv, vars, TypeOK, textVars, lineVars, latchVars, phaseVars
<1>2. UNCHANGED <<loopVars, behind, begun>> => LoopOK' /\ ClockKept'
  BY DEF ThreadInv, loopVars, LoopOK, ClockKept
<1>3. UNCHANGED <<running, cmds, owner, asked>> => ChanOK'
  BY DEF ThreadInv, ChanOK
<1>4. UNCHANGED <<outputs, believed, dropped>> => EventsOK'
  BY DEF ThreadInv, EventsOK
<1>5. QED
  BY <1>1, <1>2, <1>3, <1>4

LEMMA TrySendType ==
  ASSUME ThreadInv, NEW c \in Command, TrySend(c)
  PROVE  cmds' \in Seq(Command) /\ Len(cmds') <= CMD_CAP
<1>1. cmds \in Seq(Command) /\ Len(cmds) <= CMD_CAP /\ CMD_CAP \in Nat
  BY ThreadAssumption DEF ThreadInv, ChanOK
<1>2. CASE Room
  <2>1. cmds' = Append(cmds, c) /\ Len(cmds) < CMD_CAP
    BY <1>2 DEF TrySend, Room
  <2>2. QED
    BY <1>1, <2>1
<1>3. CASE ~Room
  BY <1>1, <1>3 DEF TrySend
<1>4. QED
  BY <1>2, <1>3

\* What the owner does.
LEMMA OwnerInv ==
  ASSUME ThreadInv, Owner
  PROVE  ThreadInv'
<1>0. TypeOK /\ ChanOK
  BY DEF ThreadInv
<1>1. ASSUME NEW t \in Texts, SendMacro(t)
      PROVE  ThreadInv'
  <2>1. [cmd |-> "SendMacro", text |-> t] \in Command
    BY <1>1 DEF Command
  <2>2. cmds' \in Seq(Command) /\ Len(cmds') <= CMD_CAP
    BY <1>1, <2>1, TrySendType DEF SendMacro
  <2>3. ChanOK'
    BY <1>0, <1>1, <2>2 DEF SendMacro, ChanOK
  <2>4. QED
    BY <1>1, <2>3, Frames DEF SendMacro, ThreadInv
<1>2. ASSUME NEW c \in Configs, SendConfig(c)
      PROVE  ThreadInv'
  <2>1. [cmd |-> "UpdateConfig", config |-> c] \in Command
    BY <1>2 DEF Command
  <2>2. cmds' \in Seq(Command) /\ Len(cmds') <= CMD_CAP
    BY <1>2, <2>1, TrySendType DEF SendConfig
  <2>3. ChanOK'
    BY <1>0, <1>2, <2>2 DEF SendConfig, ChanOK, ghostVars
  <2>4. QED
    BY <1>2, <2>3, Frames DEF SendConfig, ThreadInv, ghostVars
<1>3. ASSUME AbortMacro
      PROVE  ThreadInv'
  <2>1. ChanOK'
    BY <1>0, <1>3 DEF AbortMacro, ChanOK, ghostVars
  <2>2. QED
    BY <1>3, <2>1, Frames DEF AbortMacro, ThreadInv, ghostVars
<1>4. ASSUME AbortSent
      PROVE  ThreadInv'
  <2>1. [cmd |-> "AbortMacro"] \in Command
    BY DEF Command
  <2>2. cmds' \in Seq(Command) /\ Len(cmds') <= CMD_CAP
    BY <1>4, <2>1, TrySendType DEF AbortSent
  <2>3. ChanOK'
    BY <1>0, <1>4, <2>2 DEF AbortSent, ChanOK
  <2>4. QED
    BY <1>4, <2>3, Frames DEF AbortSent, ThreadInv
<1>5. ASSUME Stop
      PROVE  ThreadInv'
  <2>1. [cmd |-> "Stop"] \in Command
    BY DEF Command
  <2>2. cmds' \in Seq(Command) /\ Len(cmds') <= CMD_CAP
    BY <1>5, <2>1, TrySendType DEF Stop
  <2>3. ChanOK'
    BY <1>0, <1>5, <2>2 DEF Stop, ChanOK, ghostVars
  <2>4. QED
    BY <1>5, <2>3, Frames DEF Stop, ThreadInv, ghostVars
<1>6. ASSUME Joined
      PROVE  ThreadInv'
  <2>1. ChanOK'
    BY <1>0, <1>6 DEF Joined, ChanOK, ghostVars
  <2>2. QED
    BY <1>6, <2>1, Frames DEF Joined, ThreadInv, ghostVars
<1>7. QED
  BY <1>1, <1>2, <1>3, <1>4, <1>5, <1>6 DEF Owner

\* A command in the channel is one of the four, with its argument.
LEMMA CommandParts ==
  ASSUME NEW c \in Command
  PROVE  /\ c.cmd \in {"SendMacro", "UpdateConfig", "AbortMacro", "Stop"}
         /\ c.cmd = "SendMacro" => c.text \in Texts
         /\ c.cmd = "UpdateConfig" => c.config \in Configs
  BY DEF Command

LEMMA ExecuteType ==
  ASSUME ThreadInv, NEW c \in Command, Execute(c)
  PROVE  TypeOK' /\ running' \in BOOLEAN
<1>0. TypeOK /\ running \in BOOLEAN
  BY DEF ThreadInv, ChanOK
<1>1. CASE c.cmd = "SendMacro" /\ SendText(c.text) /\ UNCHANGED running
  BY <1>0, <1>1, CommandParts, CallType
<1>2. CASE c.cmd = "UpdateConfig" /\ UpdateConfig(c.config) /\ UNCHANGED running
  BY <1>0, <1>2, CommandParts, CallType
<1>3. CASE c.cmd = "AbortMacro" /\ AbortText /\ UNCHANGED running
  BY <1>0, <1>3, CallType
<1>4. CASE c.cmd = "Stop" /\ running' = FALSE /\ UNCHANGED vars
  BY <1>4, Frames
<1>5. QED
  BY <1>1, <1>2, <1>3, <1>4 DEF Execute

LEMMA StartBatchInv ==
  ASSUME ThreadInv, NEW d \in Delays, StartBatch(d)
  PROVE  LoopOK' /\ ClockKept'
<1> DEFINE e == lag + d  q == e \div TICK  r == e % TICK
<1>1. /\ TICK \in Nat /\ TICK > 0 /\ MAX_BATCH \in Nat /\ MAX_BATCH > 0
      /\ d \in Nat
  BY TickAssumption, ThreadAssumption
<1>2. pc = "drain" /\ budget = 0 /\ behind = lag /\ lag \in 0 .. TICK - 1
  BY <1>1 DEF ThreadInv, LoopOK, ClockKept, StartBatch
<1>3. e \in Nat
  BY <1>1, <1>2
<1>4. q \in Nat /\ r \in 0 .. TICK - 1 /\ e = (q * TICK) + r
  BY <1>3, DivMod
<1>5. (e >= (MAX_BATCH + 1) * TICK) = (q > MAX_BATCH)
  BY <1>3, OverTheCap
<1>6. /\ budget' = (IF q < MAX_BATCH THEN q ELSE MAX_BATCH)
      /\ lag' = (IF q > MAX_BATCH THEN 0 ELSE r)
  BY DEF StartBatch, Batch, Lesser
<1>7. /\ pc' = (IF budget' = 0 THEN "top" ELSE "batch")
      /\ behind' = (IF q > MAX_BATCH THEN MAX_BATCH * TICK ELSE e)
      /\ begun' = FALSE
  BY <1>2, <1>5 DEF StartBatch
<1> HIDE DEF e, q, r
<1>8. budget' \in 0 .. MAX_BATCH /\ lag' \in 0 .. TICK - 1
  BY <1>1, <1>4, <1>6
<1>9. behind' = lag' + budget' * TICK /\ behind' \in Nat
  <2>1. CASE q > MAX_BATCH
    <3>1. budget' = MAX_BATCH /\ lag' = 0 /\ behind' = MAX_BATCH * TICK
      BY <1>1, <1>4, <1>6, <1>7, <2>1
    <3>2. MAX_BATCH * TICK \in Nat
      BY <1>1
    <3>3. QED
      BY <3>1, <3>2
  <2>2. CASE ~(q > MAX_BATCH)
    <3>1. budget' = q /\ lag' = r /\ behind' = e
      BY <1>1, <1>4, <1>6, <1>7, <2>2
    <3>2. lag' + budget' * TICK = r + (q * TICK) /\ e = r + (q * TICK)
      <4>1. q * TICK \in Nat
        BY <1>1, <1>4
      <4>2. QED
        BY <1>4, <3>1, <4>1
    <3>3. QED
      BY <1>3, <3>1, <3>2
  <2>3. QED
    BY <2>1, <2>2
<1>10. LoopOK'
  <2>1. begun' \in BOOLEAN /\ behind' \in Nat
    BY <1>7, <1>9
  <2>2. /\ pc' \in {"top", "wait", "drain", "batch", "ended"}
        /\ (pc' = "batch") = (budget' > 0)
    BY <1>1, <1>7, <1>8
  <2>3. QED
    BY <1>8, <2>1, <2>2, Zenon DEF LoopOK
<1>11. QED
  BY <1>9, <1>10 DEF ClockKept

LEMMA BatchTickInv ==
  ASSUME ThreadInv, BatchTick
  PROVE  LoopOK' /\ ClockKept' /\ EventsOK'
<1>1. TICK \in Nat /\ TICK > 0 /\ {MAX_BATCH, OUT_CAP} \subseteq Nat
  BY TickAssumption, ThreadAssumption
<1>2. /\ budget \in 1 .. MAX_BATCH /\ behind = lag + budget * TICK
      /\ lag \in 0 .. TICK - 1 /\ behind \in Nat /\ begun \in BOOLEAN
  BY <1>1 DEF ThreadInv, LoopOK, ClockKept, BatchTick
<1>3. /\ budget' = budget - 1 /\ lag' = lag /\ behind' = behind - TICK
      /\ pc' = IF budget = 1 THEN "top" ELSE "batch"
      /\ begun' = (begun \/ (state \notin SendStates /\ state' \in SendStates))
  BY DEF BatchTick
<1>4. ClockKept' /\ behind' \in Nat
  <2>1. (budget - 1) * TICK \in Nat
    BY <1>1, <1>2
  <2>2. budget * TICK = (budget - 1) * TICK + TICK
    BY <1>1, <1>2
  <2>3. QED
    BY <1>1, <1>2, <1>3, <2>1, <2>2 DEF ClockKept
<1>5. LoopOK'
  BY <1>1, <1>2, <1>3, <1>4 DEF LoopOK
<1>6. out' \in Outputs
  BY TickType DEF BatchTick, ThreadInv, TypeOK
<1>7. EventsOK'
  <2>1. outputs \in Seq(Outputs \ {"none"}) /\ Len(outputs) <= OUT_CAP
    BY DEF ThreadInv, EventsOK
  <2>2. outputs' \in Seq(Outputs \ {"none"}) /\ Len(outputs') <= OUT_CAP
    <3>1. CASE outputs' = outputs
      BY <2>1, <3>1
    <3>2. CASE outputs' # outputs
      <4>1. out' # "none" /\ Len(outputs) # OUT_CAP
              /\ outputs' = Append(outputs, out')
        BY <3>2 DEF BatchTick, Forward
      <4>2. QED
        BY <1>1, <1>6, <2>1, <4>1
    <3>3. QED
      BY <3>1, <3>2
  <2>3. dropped' \in BOOLEAN /\ believed' \in Lines
    BY DEF BatchTick, Forward, ThreadInv, EventsOK
  <2>4. QED
    BY <2>2, <2>3 DEF EventsOK
<1>8. QED
  BY <1>4, <1>5, <1>7

\* What the loop does.
LEMMA LoopInv ==
  ASSUME ThreadInv, Loop
  PROVE  ThreadInv'
<1>0. LoopOK /\ ChanOK /\ ClockKept
  BY DEF ThreadInv
<1>1. ASSUME LoopTop
      PROVE  ThreadInv'
  <2>1. budget = 0
    BY <1>0, <1>1, ThreadAssumption DEF LoopOK, LoopTop
  <2>2. LoopOK' /\ ClockKept'
    BY <1>0, <1>1, <2>1 DEF LoopTop, LoopOK, ClockKept, ghostVars
  <2>3. QED
    BY <1>1, <2>2, Frames DEF LoopTop, ThreadInv, chanVars, ghostVars
<1>2. ASSUME NEW raw \in Presses, WaitForChange(raw)
      PROVE  ThreadInv'
  <2>1. TypeOK'
    BY <1>2, CallType, ThreadAssumption DEF WaitForChange, ThreadInv
  <2>2. LoopOK' /\ ClockKept'
    BY <1>0, <1>2 DEF WaitForChange, LoopOK, ClockKept, ghostVars
  <2>3. QED
    BY <1>2, <2>1, <2>2, Frames DEF WaitForChange, ThreadInv, chanVars, ghostVars
<1>3. ASSUME DrainCommand
      PROVE  ThreadInv'
  <2>1. cmds \in Seq(Command) /\ cmds # <<>> /\ Len(cmds) <= CMD_CAP
          /\ CMD_CAP \in Nat
    BY <1>0, <1>3, ThreadAssumption DEF ChanOK, DrainCommand
  <2>2. Head(cmds) \in Command
    BY <2>1
  <2>3. TypeOK' /\ running' \in BOOLEAN
    BY <1>3, <2>2, ExecuteType DEF DrainCommand
  <2>4. cmds' \in Seq(Command) /\ Len(cmds') <= CMD_CAP
    BY <1>3, <2>1 DEF DrainCommand
  <2>5. ChanOK'
    BY <1>0, <1>3, <2>3, <2>4 DEF DrainCommand, ChanOK, ghostVars
  <2>6. QED
    BY <1>3, <2>3, <2>5, Frames DEF DrainCommand, ThreadInv, ghostVars
<1>4. ASSUME NEW d \in Delays, StartBatch(d)
      PROVE  ThreadInv'
  BY <1>4, StartBatchInv, Frames DEF StartBatch, ThreadInv, chanVars
<1>5. ASSUME BatchTick
      PROVE  ThreadInv'
  <2>1. TypeOK'
    BY <1>5, TickType DEF BatchTick, ThreadInv
  <2>2. ChanOK'
    BY <1>5, Frames DEF BatchTick
  <2>3. QED
    BY <1>5, <2>1, <2>2, BatchTickInv DEF ThreadInv
<1>6. QED
  BY <1>1, <1>2, <1>3, <1>4, <1>5 DEF Loop

LEMMA ConsumeInv ==
  ASSUME ThreadInv, Consume
  PROVE  ThreadInv'
<1>1. outputs \in Seq(Outputs \ {"none"}) /\ outputs # <<>>
        /\ Len(outputs) <= OUT_CAP /\ OUT_CAP \in Nat
  BY ThreadAssumption DEF ThreadInv, EventsOK, Consume
<1>2. Head(outputs) \in Outputs \ {"none"}
  BY <1>1
<1>3. outputs' \in Seq(Outputs \ {"none"}) /\ Len(outputs') <= OUT_CAP
  BY <1>1 DEF Consume
<1>4. believed' \in Lines
  BY <1>2 DEF Consume, After, Lines, Outputs, ThreadInv, EventsOK
<1>5. EventsOK'
  BY <1>3, <1>4 DEF Consume, EventsOK, ThreadInv
<1>6. QED
  BY <1>5, Frames DEF Consume, ThreadInv

LEMMA ThreadInvInductive == ThreadInv /\ [ThreadNext]_threadVars => ThreadInv'
<1> SUFFICES ASSUME ThreadInv, [ThreadNext]_threadVars PROVE ThreadInv'
  OBVIOUS
<1>1. CASE ThreadNext
  BY <1>1, OwnerInv, LoopInv, ConsumeInv DEF ThreadNext
<1>2. CASE UNCHANGED threadVars
  BY <1>2, Frames DEF threadVars, chanVars, loopVars, ghostVars, ThreadInv
<1>3. QED
  BY <1>1, <1>2

LEMMA ThreadInvInit == ThreadInit => ThreadInv
<1> SUFFICES ASSUME ThreadInit PROVE ThreadInv
  OBVIOUS
<1>1. TypeOK
  <2>1. Init => TypeOK
    BY InitType
  <2>2. QED
    BY <2>1 DEF ThreadInit
<1>2. TICK \in Nat /\ TICK > 0 /\ {MAX_BATCH, OUT_CAP, CMD_CAP} \subseteq Nat
  BY TickAssumption, ThreadAssumption
<1>3. LoopOK /\ ClockKept
  <2>1. pc = "top" /\ lag = 0 /\ budget = 0 /\ behind = 0 /\ begun = FALSE
    BY DEF ThreadInit
  <2>2. 0 \in 0 .. MAX_BATCH /\ 0 \in 0 .. TICK - 1 /\ 0 * TICK = 0
    BY <1>2
  <2>3. ClockKept
    BY <2>1, <2>2 DEF ClockKept
  <2>4. lag \in 0 .. TICK - 1 /\ budget \in 0 .. MAX_BATCH /\ behind \in Nat
          /\ ~(budget > 0)
    BY <2>1, <2>2
  <2>5. (pc = "batch") = (budget > 0)
    BY <2>1, <2>4
  <2>6. QED
    BY <2>1, <2>3, <2>4, <2>5, Zenon DEF LoopOK
<1>4. <<>> \in Seq(Command) /\ <<>> \in Seq(Outputs \ {"none"}) /\ Len(<<>>) = 0
  OBVIOUS
<1>5. ChanOK
  BY <1>2, <1>4 DEF ThreadInit, ChanOK
<1>6. EventsOK
  <2>1. outputs = <<>> /\ dropped = FALSE
          /\ believed = [key |-> FALSE, ptt |-> FALSE]
    BY DEF ThreadInit
  <2>2. believed \in Lines
    BY <2>1 DEF Lines
  <2>3. Len(outputs) <= OUT_CAP
    BY <1>2, <1>4, <2>1
  <2>4. QED
    BY <1>4, <2>1, <2>2, <2>3, Zenon DEF EventsOK
<1>7. QED
  BY <1>1, <1>3, <1>5, <1>6 DEF ThreadInv

\* Types, the capacities of the channels and the cap of a batch, and the
\* engine's clock in step with the wall clock: for every tick, cap and delay,
\* no fraction of a tick is lost or counted twice.
THEOREM InStepAlways == ThreadSpec => []InStep
<1>1. ThreadInit /\ [][ThreadNext]_threadVars => []ThreadInv
  BY ThreadInvInit, ThreadInvInductive, PTL
<1>2. QED
  BY <1>1, InvInStep, PTL DEF ThreadSpec

(***************************************************************************)
(* The consumer and the lines.  What has been sent for a line last is its  *)
(* state; if nothing is on the way, the consumer knows it already.         *)
(***************************************************************************)

Switching == [line \in {"key", "ptt"} |->
                IF line = "key" THEN {"KeyDown", "KeyUp"} ELSE {"PttOn", "PttOff"}]

\* A line is in state now, which the events under way and what the consumer
\* believes of it tell.
Told(events, belief, line, now) ==
  /\ \A i \in DOMAIN events :
       /\ events[i] \in Switching[line]
       /\ \A j \in DOMAIN events : j > i => events[j] \notin Switching[line]
       => now = (events[i] \in {"KeyDown", "PttOn"})
  /\ (\A i \in DOMAIN events : events[i] \notin Switching[line])
       => now = belief[line]

KeyTold == Told(outputs, believed, "key", key_active)
PttTold == Told(outputs, believed, "ptt", ptt_active)

SyncInv == ~dropped => KeyTold /\ PttTold

\* What the event of a tick says of the lines.
LEMMA TickTells ==
  ASSUME TypeOK, PttCoversKey, Tick
  PROVE  /\ IF out' \in Switching["key"]
            THEN key_active' = (out' = "KeyDown") ELSE key_active' = key_active
         /\ IF out' \in Switching["ptt"]
            THEN ptt_active' = (out' = "PttOn") ELSE ptt_active' = ptt_active
<1> USE DEF Switching
<1>0. key_active \in BOOLEAN /\ ptt_active \in BOOLEAN
  BY DEF TypeOK
<1>1. CASE StartCase
  BY <1>0, <1>1 DEF StartCase, EmitPttOrKeyDown, EmitKeyDown
<1>2. CASE PressCase
  BY <1>0, <1>2 DEF PressCase, EmitKeyDown
<1>3. CASE ReleaseCase
  BY <1>0, <1>3 DEF ReleaseCase, EmitKeyUp
<1>4. CASE RestCase
  <2>1. CASE ptt_active /\ ~key_active
    BY <1>0, <1>4, <2>1 DEF RestCase, HandleHangTime
  <2>2. CASE ~(ptt_active /\ ~key_active)
    BY <1>0, <1>4, <2>2 DEF RestCase, HandleHangTime, Silent
  <2>3. QED
    BY <2>1, <2>2
<1>5. CASE StillCase
  BY <1>0, <1>5 DEF StillCase
<1>6. QED
  BY <1>1, <1>2, <1>3, <1>4, <1>5, TickCases DEF TickCase

\* An event that goes into the channel tells its line's new state.
LEMMA TellsMore ==
  ASSUME NEW line \in {"key", "ptt"}, NEW now \in BOOLEAN, NEW after \in BOOLEAN,
         NEW e \in Outputs, NEW events \in Seq(Outputs \ {"none"}), NEW more,
         NEW belief \in Lines, Told(events, belief, line, now),
         more = IF e = "none" THEN events ELSE Append(events, e),
         IF e \in Switching[line]
         THEN after = (e \in {"KeyDown", "PttOn"}) ELSE after = now
  PROVE  Told(more, belief, line, after)
<1> DEFINE n == Len(events)
<1>0. "none" \notin Switching[line]
  BY DEF Switching
<1>1. CASE e = "none"
  BY <1>0, <1>1
<1>2. CASE e # "none"
  <2>1. /\ n \in Nat /\ DOMAIN events = 1 .. n /\ DOMAIN more = 1 .. n + 1
        /\ \A i \in 1 .. n : more[i] = events[i]
        /\ more[n + 1] = e
    BY <1>2
  <2> HIDE DEF n
  <2>2. CASE e \in Switching[line]
    <3>1. ASSUME NEW i \in 1 .. n + 1, more[i] \in Switching[line],
                 \A j \in 1 .. n + 1 : j > i => more[j] \notin Switching[line]
          PROVE  i = n + 1
      <4>1. n + 1 \in 1 .. n + 1 /\ more[n + 1] \in Switching[line]
        BY <2>1, <2>2
      <4>2. ~(n + 1 > i)
        BY <3>1, <4>1
      <4>3. QED
        BY <2>1, <4>2
    <3>2. n + 1 \in 1 .. n + 1
      BY <2>1
    <3>3. QED
      BY <2>1, <2>2, <3>1, <3>2 DEF Told
  <2>3. CASE e \notin Switching[line]
    <3>1. ASSUME NEW i \in 1 .. n + 1, more[i] \in Switching[line],
                 \A j \in 1 .. n + 1 : j > i => more[j] \notin Switching[line]
          PROVE  after = (more[i] \in {"KeyDown", "PttOn"})
      <4>1. i \in 1 .. n
        BY <2>1, <2>3, <3>1
      <4>2. \A j \in 1 .. n : j > i => events[j] \notin Switching[line]
        BY <2>1, <3>1
      <4>3. QED
        BY <2>1, <2>3, <3>1, <4>1, <4>2 DEF Told
    <3>2. ASSUME \A i \in 1 .. n + 1 : more[i] \notin Switching[line]
          PROVE  after = belief[line]
      <4>1. \A i \in 1 .. n : events[i] \notin Switching[line]
        BY <2>1, <3>2
      <4>2. QED
        BY <2>1, <2>3, <4>1 DEF Told
    <3>3. QED
      BY <2>1, <3>1, <3>2 DEF Told
  <2>4. QED
    BY <2>2, <2>3
<1>3. QED
  BY <1>1, <1>2

\* So does one that is taken out.
LEMMA TellsLess ==
  ASSUME NEW line \in {"key", "ptt"}, NEW now \in BOOLEAN,
         NEW events \in Seq(Outputs \ {"none"}), events # <<>>,
         NEW belief \in Lines, NEW after, after = After(belief, Head(events)),
         NEW less, less = Tail(events),
         Told(events, belief, line, now)
  PROVE  Told(less, after, line, now)
<1> DEFINE n == Len(events)
<1>1. /\ n \in Nat /\ n > 0 /\ DOMAIN events = 1 .. n
      /\ DOMAIN less = 1 .. n - 1
      /\ \A i \in 1 .. n - 1 : less[i] = events[i + 1]
      /\ Head(events) = events[1] /\ events[1] \in Outputs \ {"none"}
  OBVIOUS
<1>2. after[line] = IF events[1] \in Switching[line]
                   THEN events[1] \in {"KeyDown", "PttOn"}
                   ELSE belief[line]
  <2>1. events[1] \in {"KeyDown", "KeyUp", "PttOn", "PttOff"}
    BY <1>1 DEF Outputs
  <2>2. /\ events[1] = "KeyDown" => after["key"] = TRUE
        /\ events[1] = "KeyUp" => after["key"] = FALSE
        /\ events[1] \in {"PttOn", "PttOff"} => after["key"] = belief["key"]
    BY <1>1 DEF After, Lines
  <2>3. /\ events[1] = "PttOn" => after["ptt"] = TRUE
        /\ events[1] = "PttOff" => after["ptt"] = FALSE
        /\ events[1] \in {"KeyDown", "KeyUp"} => after["ptt"] = belief["ptt"]
    BY <1>1 DEF After, Lines
  <2>4. /\ Switching["key"] = {"KeyDown", "KeyUp"}
        /\ Switching["ptt"] = {"PttOn", "PttOff"}
    BY DEF Switching
  <2>5. CASE events[1] \in {"KeyDown", "PttOn"}
    <3>1. (events[1] \in {"KeyDown", "PttOn"}) = TRUE
      BY <2>5
    <3>2. events[1] \in Switching[line] => after[line] = TRUE
      BY <2>2, <2>3, <2>4, <2>5
    <3>3. events[1] \notin Switching[line] => after[line] = belief[line]
      BY <2>2, <2>3, <2>4, <2>5
    <3>4. QED
      BY <3>1, <3>2, <3>3, Zenon
  <2>6. CASE events[1] \in {"KeyUp", "PttOff"}
    <3>1. (events[1] \in {"KeyDown", "PttOn"}) = FALSE
      BY <2>6
    <3>2. events[1] \in Switching[line] => after[line] = FALSE
      BY <2>2, <2>3, <2>4, <2>6
    <3>3. events[1] \notin Switching[line] => after[line] = belief[line]
      BY <2>2, <2>3, <2>4, <2>6
    <3>4. QED
      BY <3>1, <3>2, <3>3, Zenon
  <2>7. QED
    BY <2>1, <2>5, <2>6
<1> HIDE DEF n
<1>3. ASSUME NEW i \in 1 .. n - 1, less[i] \in Switching[line],
             \A j \in 1 .. n - 1 : j > i => less[j] \notin Switching[line]
      PROVE  now = (less[i] \in {"KeyDown", "PttOn"})
  <2>1. i + 1 \in 1 .. n /\ less[i] = events[i + 1]
    BY <1>1
  <2>2. ASSUME NEW j \in 1 .. n, j > i + 1
        PROVE  events[j] \notin Switching[line]
    <3>1. j - 1 \in 1 .. n - 1 /\ j - 1 > i /\ j - 1 + 1 = j
      BY <1>1, <2>2
    <3>2. less[j - 1] = events[j]
      BY <1>1, <3>1
    <3>3. QED
      BY <1>3, <3>1, <3>2
  <2>3. QED
    BY <1>1, <1>3, <2>1, <2>2 DEF Told
<1>4. ASSUME \A i \in 1 .. n - 1 : less[i] \notin Switching[line]
      PROVE  now = after[line]
  <2>1. ASSUME NEW j \in 1 .. n, j > 1
        PROVE  events[j] \notin Switching[line]
    <3>1. j - 1 \in 1 .. n - 1 /\ j - 1 + 1 = j
      BY <1>1, <2>1
    <3>2. less[j - 1] = events[j]
      BY <1>1, <3>1
    <3>3. QED
      BY <1>4, <3>1, <3>2
  <2>2. 1 \in 1 .. n
    BY <1>1
  <2>3. CASE events[1] \in Switching[line]
    BY <1>1, <1>2, <2>1, <2>2, <2>3 DEF Told
  <2>4. CASE events[1] \notin Switching[line]
    <3>1. \A j \in 1 .. n : events[j] \notin Switching[line]
      BY <1>1, <2>1, <2>4
    <3>2. QED
      BY <1>1, <1>2, <2>4, <3>1 DEF Told
  <2>5. QED
    BY <2>3, <2>4
<1>5. QED
  BY <1>1, <1>3, <1>4 DEF Told

\* The steps that are neither a tick nor the consumer's leave the lines, the
\* events and what is believed of them alone.
Quiet ==
  UNCHANGED <<key_active, ptt_active, state, outputs, believed, dropped>>

LEMMA QuietSteps ==
  ASSUME ThreadInv,
         \/ Owner \/ LoopTop \/ DrainCommand
         \/ \E raw \in Presses : WaitForChange(raw)
         \/ \E d \in Delays : StartBatch(d)
         \/ UNCHANGED threadVars
  PROVE  Quiet
<1> USE DEF Quiet, vars, lineVars, phaseVars, ghostVars, chanVars
<1>1. CASE Owner
  BY <1>1 DEF Owner, SendMacro, SendConfig, AbortMacro, AbortSent, Stop, Joined
<1>2. CASE LoopTop \/ \E d \in Delays : StartBatch(d)
  BY <1>2 DEF LoopTop, StartBatch
<1>3. ASSUME NEW raw \in Presses, WaitForChange(raw)
      PROVE  Quiet
  <2>1. raw \in SUBSET Paddles /\ SetPaddle(raw)
    BY <1>3, ThreadAssumption DEF WaitForChange
  <2>2. QED
    BY <1>3, <2>1, CallsKeepLines DEF WaitForChange
<1>4. CASE DrainCommand
  <2>1. Head(cmds) \in Command /\ Execute(Head(cmds))
    BY <1>4 DEF DrainCommand, ThreadInv, ChanOK
  <2>2. UNCHANGED <<key_active, ptt_active, state>>
    <3>1. CASE Head(cmds).cmd = "Stop"
      BY <2>1, <3>1 DEF Execute
    <3>2. CASE Head(cmds).cmd # "Stop"
      BY <2>1, <3>2, CommandParts, CallsKeepLines DEF Execute
    <3>3. QED
      BY <3>1, <3>2
  <2>3. QED
    BY <1>4, <2>2 DEF DrainCommand
<1>5. CASE UNCHANGED threadVars
  BY <1>5 DEF threadVars
<1>6. QED
  BY <1>1, <1>2, <1>3, <1>4, <1>5

LEMMA SyncInductive ==
  ASSUME ThreadInv, PttCoversKey, SyncInv, [ThreadNext]_threadVars
  PROVE  PttCoversKey' /\ SyncInv'
<1>0. /\ TypeOK /\ outputs \in Seq(Outputs \ {"none"}) /\ believed \in Lines
      /\ key_active \in BOOLEAN /\ ptt_active \in BOOLEAN /\ dropped \in BOOLEAN
  BY DEF ThreadInv, EventsOK, TypeOK
<1>1. CASE Quiet
  BY <1>1 DEF Quiet, PttCoversKey, SyncInv, KeyTold, PttTold
<1>2. CASE BatchTick
  <2>1. Tick /\ Forward(out') /\ UNCHANGED believed
    BY <1>2 DEF BatchTick
  <2>2. TypeOK' /\ PttCoversKey'
    BY <1>0, <2>1, TickType, TickPtt
  <2>3. ASSUME ~dropped'
        PROVE  KeyTold' /\ PttTold'
    <3>1. ~dropped /\ KeyTold /\ PttTold
      BY <1>0, <2>1, <2>3 DEF Forward, SyncInv
    <3>2. outputs' = IF out' = "none" THEN outputs ELSE Append(outputs, out')
      BY <2>1, <2>3 DEF Forward
    <3>3. out' \in Outputs /\ key_active' \in BOOLEAN /\ ptt_active' \in BOOLEAN
      BY <2>2 DEF TypeOK
    <3>4. /\ IF out' \in Switching["key"]
             THEN key_active' = (out' \in {"KeyDown", "PttOn"})
             ELSE key_active' = key_active
          /\ IF out' \in Switching["ptt"]
             THEN ptt_active' = (out' \in {"KeyDown", "PttOn"})
             ELSE ptt_active' = ptt_active
      BY <1>0, <2>1, TickTells DEF Switching
    <3>5. KeyTold'
      BY <1>0, <2>1, <3>1, <3>2, <3>3, <3>4, TellsMore DEF KeyTold, PttTold
    <3>6. PttTold'
      BY <1>0, <2>1, <3>1, <3>2, <3>3, <3>4, TellsMore DEF KeyTold, PttTold
    <3>7. QED
      BY <3>5, <3>6
  <2>4. QED
    BY <2>2, <2>3 DEF SyncInv
<1>3. CASE Consume
  <2>1. /\ outputs # <<>> /\ outputs' = Tail(outputs)
        /\ believed' = After(believed, Head(outputs))
        /\ UNCHANGED <<key_active, ptt_active, state, dropped>>
    BY <1>3 DEF Consume, vars, lineVars, phaseVars
  <2>2. ASSUME ~dropped'
        PROVE  KeyTold' /\ PttTold'
    <3>1. KeyTold /\ PttTold
      BY <2>1, <2>2 DEF SyncInv
    <3>2. KeyTold'
      BY <1>0, <2>1, <3>1, TellsLess DEF KeyTold, PttTold
    <3>3. PttTold'
      BY <1>0, <2>1, <3>1, TellsLess DEF KeyTold, PttTold
    <3>4. QED
      BY <3>2, <3>3
  <2>3. QED
    BY <2>1, <2>2 DEF SyncInv, PttCoversKey
<1>4. QED
  BY <1>1, <1>2, <1>3, QuietSteps DEF ThreadNext, Loop

LEMMA SyncSays == ThreadInv /\ SyncInv => ConsumerInSync
<1> SUFFICES ASSUME ThreadInv, SyncInv, outputs = <<>>, ~dropped
             PROVE  believed = [key |-> key_active, ptt |-> ptt_active]
  BY DEF ConsumerInSync
<1>1. DOMAIN outputs = {}
  OBVIOUS
<1>2. key_active = believed["key"] /\ ptt_active = believed["ptt"]
  BY <1>1 DEF SyncInv, KeyTold, PttTold, Told
<1>3. QED
  BY <1>2 DEF ThreadInv, EventsOK, Lines

\* A consumer who has read every event knows key and PTT, unless one was
\* dropped on a full channel: for every capacity, configuration and text, and
\* with the mode changed at any moment.
THEOREM ConsumerInSyncAlways == ThreadSpec => []ConsumerInSync
<1>1. ThreadInit => ThreadInv /\ PttCoversKey /\ SyncInv
  <2>1. ThreadInit => PttCoversKey
    BY StateFacts DEF ThreadInit, Init, PttCoversKey
  <2>2. ThreadInit => SyncInv
    <3> SUFFICES ASSUME ThreadInit PROVE SyncInv
      OBVIOUS
    <3>1. DOMAIN outputs = {}
      BY DEF ThreadInit
    <3>2. key_active = FALSE /\ ptt_active = FALSE
      BY DEF ThreadInit, Init
    <3>3. believed["key"] = FALSE /\ believed["ptt"] = FALSE
      BY DEF ThreadInit
    <3>4. QED
      BY <3>1, <3>2, <3>3 DEF SyncInv, KeyTold, PttTold, Told
  <2>3. QED
    BY <2>1, <2>2, ThreadInvInit
<1>2. ThreadInv /\ PttCoversKey /\ SyncInv /\ [ThreadNext]_threadVars
        => (ThreadInv /\ PttCoversKey /\ SyncInv)'
  BY ThreadInvInductive, SyncInductive
<1>3. ThreadInv /\ PttCoversKey /\ SyncInv => ConsumerInSync
  BY SyncSays
<1>4. QED
  BY <1>1, <1>2, <1>3, PTL DEF ThreadSpec

(***************************************************************************)
(* The abort.  After the owner's last word was abort_macro, a text in the  *)
(* channel has an abort behind it, and an abort that is no longer in the   *)
(* channel has been obeyed.                                                *)
(***************************************************************************)

NoText == ~text_sending /\ text_queue = <<>>

\* A tick starts no text where none is.
LEMMA TickNoText ==
  ASSUME TypeOK, NoText, Tick
  PROVE  NoText'
<1> USE DEF NoText
<1>1. UNCHANGED textVars => NoText'
  BY DEF textVars
<1>2. AbortTextIfHeld => NoText'
  BY <1>1 DEF AbortTextIfHeld
<1>3. EnterIdleFromDelay => NoText'
  BY DEF EnterIdleFromDelay
<1>4. ResolveDelayTail => NoText'
  BY <1>1, <1>2, <1>3 DEF ResolveDelayTail
<1>5. IambicInner => NoText'
  <2>1. IambicIdle => NoText'
    BY <1>1 DEF IambicIdle
  <2>2. \A p \in Paddles : IambicSend(p) => NoText'
    BY <1>1 DEF IambicSend
  <2>3. \A p \in Paddles : IambicDelay(p) => NoText'
    BY <1>2, <1>4 DEF IambicDelay
  <2>4. LetterSpaceTick => NoText'
    BY <1>1 DEF LetterSpaceTick
  <2>5. QED
    BY <2>1, <2>2, <2>3, <2>4 DEF IambicInner
<1>6. LeaveStraightKey => NoText'
  BY <1>1 DEF LeaveStraightKey
<1>7. TickStraight => NoText'
  BY <1>1 DEF TickStraight
<1>8. TickBug => NoText'
  BY <1>1, <1>5 DEF TickBug
<1>9. TickSinglePaddle => NoText'
  <2>1. SingleIdle => NoText'
    BY <1>1 DEF SingleIdle
  <2>2. \A p \in Paddles : SingleSend(p) => NoText'
    BY <1>1 DEF SingleSend
  <2>3. SingleDelay => NoText'
    BY <1>1, <1>2, <1>3 DEF SingleDelay
  <2>4. LetterSpaceTick => NoText'
    BY <1>1 DEF LetterSpaceTick
  <2>5. QED
    BY <1>6, <2>1, <2>2, <2>3, <2>4 DEF TickSinglePaddle
<1>10. QED
  BY <1>5, <1>6, <1>7, <1>8, <1>9 DEF Tick, TickIambic

AbortBehind ==
  \A i \in DOMAIN cmds : cmds[i].cmd = "SendMacro" =>
    \E j \in DOMAIN cmds : j > i /\ cmds[j].cmd = "AbortMacro"

AbortInv ==
  asked = "abort" /\ pc # "ended" =>
    /\ AbortBehind
    /\ (\A i \in DOMAIN cmds : cmds[i].cmd # "AbortMacro") => NoText

\* A command other than a text may be added at the end.
LEMMA AppendAbort ==
  ASSUME cmds \in Seq(Command), NEW c \in Command, cmds' = Append(cmds, c)
  PROVE  /\ AbortBehind /\ c.cmd # "SendMacro" => AbortBehind'
         /\ c.cmd = "AbortMacro" => AbortBehind'
         /\ (\A i \in DOMAIN cmds' : cmds'[i].cmd # "AbortMacro")
              => /\ c.cmd # "AbortMacro"
                 /\ \A i \in DOMAIN cmds : cmds[i].cmd # "AbortMacro"
<1> DEFINE n == Len(cmds)
<1>1. /\ n \in Nat /\ DOMAIN cmds = 1 .. n /\ DOMAIN cmds' = 1 .. n + 1
      /\ \A i \in 1 .. n : cmds'[i] = cmds[i]
      /\ cmds'[n + 1] = c
  OBVIOUS
<1> HIDE DEF n
<1>2. \A i \in 1 .. n : i \in 1 .. n + 1 /\ n + 1 > i
  BY <1>1
<1>3. n + 1 \in 1 .. n + 1 /\ \A i \in 1 .. n + 1 : i = n + 1 \/ i \in 1 .. n
  BY <1>1
<1>4. ASSUME AbortBehind, c.cmd # "SendMacro"
      PROVE  AbortBehind'
  <2> SUFFICES ASSUME NEW i \in 1 .. n + 1, cmds'[i].cmd = "SendMacro"
               PROVE  \E j \in 1 .. n + 1 : j > i /\ cmds'[j].cmd = "AbortMacro"
    BY <1>1 DEF AbortBehind
  <2>1. i \in 1 .. n /\ cmds[i].cmd = "SendMacro"
    BY <1>1, <1>3, <1>4
  <2>2. PICK j \in 1 .. n : j > i /\ cmds[j].cmd = "AbortMacro"
    BY <1>1, <1>4, <2>1 DEF AbortBehind
  <2>3. j \in 1 .. n + 1 /\ cmds'[j].cmd = "AbortMacro"
    BY <1>1, <1>2, <2>2
  <2>4. QED
    BY <2>2, <2>3
<1>5. ASSUME c.cmd = "AbortMacro"
      PROVE  AbortBehind'
  <2>1. c.cmd # "SendMacro"
    BY <1>5
  <2>2. QED
    BY <1>1, <1>2, <1>3, <1>5, <2>1, Zenon DEF AbortBehind
<1>6. QED
  BY <1>1, <1>2, <1>3, <1>4, <1>5, Zenon

\* The oldest command is taken.
LEMMA TailAbort ==
  ASSUME cmds \in Seq(Command), cmds # <<>>, cmds' = Tail(cmds)
  PROVE  /\ AbortBehind => AbortBehind'
         /\ (\A i \in DOMAIN cmds' : cmds'[i].cmd # "AbortMacro")
              /\ Head(cmds).cmd # "AbortMacro"
              => \A i \in DOMAIN cmds : cmds[i].cmd # "AbortMacro"
         /\ AbortBehind /\ Head(cmds).cmd = "SendMacro"
              => \E i \in DOMAIN cmds' : cmds'[i].cmd = "AbortMacro"
<1> DEFINE n == Len(cmds)
<1>1. /\ n \in Nat /\ n > 0 /\ DOMAIN cmds = 1 .. n /\ DOMAIN cmds' = 1 .. n - 1
      /\ \A i \in 1 .. n - 1 : cmds'[i] = cmds[i + 1]
      /\ Head(cmds) = cmds[1]
  OBVIOUS
<1> HIDE DEF n
<1>2. \A j \in 1 .. n : j > 1 => j - 1 \in 1 .. n - 1 /\ cmds'[j - 1] = cmds[j]
  <2> SUFFICES ASSUME NEW j \in 1 .. n, j > 1
               PROVE  j - 1 \in 1 .. n - 1 /\ cmds'[j - 1] = cmds[j]
    OBVIOUS
  <2>1. j - 1 \in 1 .. n - 1 /\ j - 1 + 1 = j
    BY <1>1
  <2>2. QED
    BY <1>1, <2>1
<1>3. 1 \in 1 .. n /\ \A j \in 1 .. n : j = 1 \/ j > 1
  BY <1>1
<1>4. ASSUME AbortBehind, NEW i \in 1 .. n - 1, cmds'[i].cmd = "SendMacro"
      PROVE  \E k \in 1 .. n - 1 : k > i /\ cmds'[k].cmd = "AbortMacro"
  <2>1. i + 1 \in 1 .. n /\ cmds[i + 1].cmd = "SendMacro"
    BY <1>1, <1>4
  <2>2. PICK j \in 1 .. n : j > i + 1 /\ cmds[j].cmd = "AbortMacro"
    BY <1>1, <1>4, <2>1 DEF AbortBehind
  <2>3. j > 1 /\ j - 1 > i
    BY <1>1, <2>2
  <2>4. QED
    BY <1>2, <2>2, <2>3
<1>5. AbortBehind => AbortBehind'
  BY <1>1, <1>4 DEF AbortBehind
<1>6. ASSUME \A i \in 1 .. n - 1 : cmds'[i].cmd # "AbortMacro",
             Head(cmds).cmd # "AbortMacro"
      PROVE  \A i \in 1 .. n : cmds[i].cmd # "AbortMacro"
  <2> SUFFICES ASSUME NEW i \in 1 .. n PROVE cmds[i].cmd # "AbortMacro"
    OBVIOUS
  <2>1. CASE i = 1
    BY <1>1, <1>6, <2>1
  <2>2. CASE i > 1
    BY <1>2, <1>6, <2>2
  <2>3. QED
    BY <1>3, <2>1, <2>2
<1>7. ASSUME AbortBehind, Head(cmds).cmd = "SendMacro"
      PROVE  \E i \in 1 .. n - 1 : cmds'[i].cmd = "AbortMacro"
  <2>1. PICK j \in 1 .. n : j > 1 /\ cmds[j].cmd = "AbortMacro"
    BY <1>1, <1>3, <1>7 DEF AbortBehind
  <2>2. QED
    BY <1>2, <2>1
<1>8. QED
  BY <1>1, <1>5, <1>6, <1>7

LEMMA AbortInductive ==
  ASSUME ThreadInv, AbortInv, [ThreadNext]_threadVars
  PROVE  AbortInv'
<1>0. TypeOK /\ cmds \in Seq(Command)
  BY DEF ThreadInv, ChanOK
<1> SUFFICES ASSUME asked' = "abort", pc' # "ended"
             PROVE  /\ AbortBehind'
                    /\ (\A i \in DOMAIN cmds' : cmds'[i].cmd # "AbortMacro") => NoText'
  BY DEF AbortInv
<1>1. ASSUME asked = "abort", pc # "ended", UNCHANGED cmds, NoText => NoText'
      PROVE  /\ AbortBehind'
             /\ (\A i \in DOMAIN cmds' : cmds'[i].cmd # "AbortMacro") => NoText'
  BY <1>1 DEF AbortInv, AbortBehind
<1>2. ASSUME asked = "abort", pc # "ended", UNCHANGED <<text_queue, text_sending>>,
             NEW c \in Command, c.cmd # "SendMacro", TrySend(c)
      PROVE  /\ AbortBehind'
             /\ (\A i \in DOMAIN cmds' : cmds'[i].cmd # "AbortMacro") => NoText'
  <2>1. CASE UNCHANGED cmds
    BY <1>1, <1>2, <2>1 DEF NoText
  <2>2. CASE cmds' = Append(cmds, c)
    BY <1>0, <1>2, <2>2, AppendAbort DEF AbortInv, NoText
  <2>3. QED
    BY <1>2, <2>1, <2>2 DEF TrySend
<1>3. CASE Owner
  <2>1. CASE \E t \in Texts : SendMacro(t)
    BY <2>1 DEF SendMacro
  <2>2. ASSUME NEW c \in Configs, SendConfig(c)
        PROVE  /\ AbortBehind'
               /\ (\A i \in DOMAIN cmds' : cmds'[i].cmd # "AbortMacro") => NoText'
    <3>1. [cmd |-> "UpdateConfig", config |-> c] \in Command
      BY DEF Command
    <3>2. asked = "abort" /\ pc # "ended" /\ UNCHANGED <<text_queue, text_sending>>
      BY <2>2 DEF SendConfig, vars, textVars, loopVars, ghostVars
    <3>3. QED
      BY <1>2, <2>2, <3>1, <3>2 DEF SendConfig
  <2>3. CASE AbortMacro \/ Joined
    BY <1>1, <2>3 DEF AbortMacro, Joined, vars, textVars, loopVars, ghostVars, NoText
  <2>4. CASE AbortSent
    <3>1. Room /\ cmds' = Append(cmds, [cmd |-> "AbortMacro"])
      BY <2>4 DEF AbortSent, TrySend, Room, loopVars
    <3>2. [cmd |-> "AbortMacro"] \in Command
      BY DEF Command
    <3>3. QED
      BY <1>0, <3>1, <3>2, AppendAbort
  <2>5. CASE Stop
    <3>1. [cmd |-> "Stop"] \in Command
      BY DEF Command
    <3>2. asked = "abort" /\ pc # "ended" /\ UNCHANGED <<text_queue, text_sending>>
      BY <2>5 DEF Stop, vars, textVars, loopVars, ghostVars
    <3>3. QED
      BY <1>2, <2>5, <3>1, <3>2 DEF Stop
  <2>6. QED
    BY <1>3, <2>1, <2>2, <2>3, <2>4, <2>5 DEF Owner
<1>4. CASE Loop
  <2>1. CASE LoopTop
    BY <1>1, <2>1 DEF LoopTop, vars, textVars, chanVars, ghostVars, NoText
  <2>2. ASSUME NEW raw \in Presses, WaitForChange(raw)
        PROVE  /\ AbortBehind'
               /\ (\A i \in DOMAIN cmds' : cmds'[i].cmd # "AbortMacro") => NoText'
    <3>1. NoText => NoText'
      BY <2>2 DEF WaitForChange, SetPaddle, NoText, textVars
    <3>2. QED
      BY <1>1, <2>2, <3>1 DEF WaitForChange, chanVars, ghostVars
  <2>3. CASE DrainCommand
    <3> DEFINE c == Head(cmds)
    <3>1. /\ cmds # <<>> /\ cmds' = Tail(cmds) /\ c \in Command /\ Execute(c)
          /\ asked = "abort" /\ pc # "ended"
      BY <1>0, <2>3 DEF DrainCommand, loopVars, ghostVars
    <3>2. AbortBehind /\ ((\A i \in DOMAIN cmds : cmds[i].cmd # "AbortMacro") => NoText)
      BY <3>1 DEF AbortInv
    <3>3. AbortBehind'
      BY <1>0, <3>1, <3>2, TailAbort
    <3>4. ASSUME \A i \in DOMAIN cmds' : cmds'[i].cmd # "AbortMacro"
          PROVE  NoText'
      <4>1. c.cmd # "SendMacro"
        BY <1>0, <3>1, <3>2, <3>4, TailAbort
      <4>2. CASE c.cmd = "AbortMacro"
        BY <3>1, <4>2 DEF Execute, AbortText, NoText
      <4>3. CASE c.cmd # "AbortMacro"
        <5>1. NoText
          BY <1>0, <3>1, <3>2, <3>4, <4>3, TailAbort
        <5>2. QED
          BY <3>1, <4>1, <4>3, <5>1 DEF Execute, UpdateConfig, NoText, vars, textVars
      <4>4. QED
        BY <4>2, <4>3
    <3>5. QED
      BY <3>3, <3>4
  <2>4. CASE \E d \in Delays : StartBatch(d)
    BY <1>1, <2>4 DEF StartBatch, vars, textVars, chanVars, NoText
  <2>5. CASE BatchTick
    BY <1>0, <1>1, <2>5, TickNoText DEF BatchTick
  <2>6. QED
    BY <1>4, <2>1, <2>2, <2>3, <2>4, <2>5 DEF Loop
<1>5. CASE Consume
  BY <1>1, <1>5 DEF Consume, vars, textVars, loopVars, NoText
<1>6. CASE UNCHANGED threadVars
  BY <1>1, <1>6 DEF threadVars, vars, textVars, loopVars, chanVars, ghostVars, NoText
<1>7. QED
  BY <1>3, <1>4, <1>5, <1>6 DEF ThreadNext

\* An abort of the owner's is never lost, whatever the capacity of the channel
\* and however full it is: once the loop has taken it, no text is left.
THEOREM LastAbortWinsAlways == ThreadSpec => []LastAbortWins
<1>1. ThreadInit => ThreadInv /\ AbortInv
  BY ThreadInvInit DEF ThreadInit, AbortInv
<1>2. ThreadInv /\ AbortInv /\ [ThreadNext]_threadVars => (ThreadInv /\ AbortInv)'
  BY ThreadInvInductive, AbortInductive
<1>3. ThreadInv /\ AbortInv => LastAbortWins
  BY DEF ThreadInv, ChanOK, AbortInv, LastAbortWins, NoText
<1>4. QED
  BY <1>1, <1>2, <1>3, PTL DEF ThreadSpec

(***************************************************************************)
(* Batches and elements.                                                   *)
(***************************************************************************)

\* In single-paddle mode an element may end before its time, when the paddle is
\* let go.
Settled == config.mode = "SinglePaddle" => single_paddle_decided \/ held # {}

\* What an element begun in this batch has left to run outlasts the batch.
Outlasts ==
  pc = "batch" /\ begun /\ state \in SendStates => phase > budget * TICK /\ Settled

\* A tick begins an element with its duration, less the tick that the phase
\* before may have run over.
Begins(p) == state' = Sending[p] /\ Schedule(config.dur[p]) /\ Settled'

\* One that is under way and not yet at its end goes on.
GoesOn == state' = state /\ phase' = Rem /\ Settled'

LEMMA TickBegins ==
  ASSUME TypeOK, Tick, state \notin SendStates, state' \in SendStates
  PROVE  \E p \in Paddles : Begins(p)
<1> DEFINE B == \E p \in Paddles : Begins(p)
           Elsewhere == state' = state \/ state' \notin SendStates
<1> SUFFICES B \/ Elsewhere
  OBVIOUS
<1> USE DEF SendStates
<1>1. UNCHANGED <<config, held>>
  BY DEF Tick, TickStraight, TickBug, TickIambic, TickSinglePaddle
<1>2. ASSUME NEW p \in Paddles, StartElementKeyed(p),
             config.mode = "SinglePaddle" => single_paddle_decided' \/ held # {}
      PROVE  B
  BY <1>1, <1>2 DEF StartElementKeyed, StartElement, Begins, Settled
<1>3. Wait => Elsewhere
  BY DEF Wait
<1>4. \A d : GotoFor("DitDelay", d) \/ GotoFor("DashDelay", d) \/ GotoFor("LetterSpace", d)
             => Elsewhere
  BY DEF GotoFor
<1>5. Goto("Idle") \/ Goto("StraightKey") => Elsewhere
  BY DEF Goto
<1>6. DispatchText => B \/ Elsewhere
  BY <1>2, <1>4 DEF DispatchText
<1>7. EnterIdleFromDelay => Elsewhere
  BY <1>5 DEF EnterIdleFromDelay
<1>8. ResolveDelayTail => Elsewhere
  BY <1>4, <1>5, <1>7 DEF ResolveDelayTail
<1>9. LetterSpaceTick => Elsewhere
  BY DEF LetterSpaceTick
<1>10. ASSUME NEW p \in Paddles PROVE ~IambicSend(p) /\ ~SingleSend(p)
  BY DEF IambicSend, SingleSend, Sending, Paddles
<1>11. TickStraight => Elsewhere
  BY <1>3, <1>5 DEF TickStraight, StraightIdle, StraightKeyed, StraightOther
<1>12. IambicInner /\ config.mode # "SinglePaddle" => B \/ Elsewhere
  <2>1. IambicIdle /\ config.mode # "SinglePaddle" => B \/ Elsewhere
    <3>1. IambicStart # "none" => IambicStart \in Paddles
      BY DEF IambicStart, Paddles
    <3> QED BY <1>2, <1>3, <1>6, <3>1 DEF IambicIdle
  <2>2. ASSUME NEW p \in Paddles, IambicDelay(p), config.mode # "SinglePaddle"
        PROVE  B \/ Elsewhere
    <3>1. NextElement(p) # "none" => NextElement(p) \in Paddles
      BY DEF TypeOK, NextElement, UltimaticNext, IambicNext, Opp, Paddles
    <3> QED BY <1>2, <1>3, <1>8, <2>2, <3>1 DEF IambicDelay
  <2> QED BY <1>9, <1>10, <2>1, <2>2 DEF IambicInner
<1>13. TickIambic => B \/ Elsewhere
  BY <1>5, <1>12 DEF TickIambic, LeaveStraightKey
<1>14. TickBug => B \/ Elsewhere
  BY <1>3, <1>5, <1>12 DEF TickBug, BugDash, BugKeyed, Bug
<1>15. TickSinglePaddle => B \/ Elsewhere
  <2>1. SingleIdle => B \/ Elsewhere
    BY <1>2, <1>3, <1>6 DEF SingleIdle, Paddles
  <2>2. SingleDelay => B \/ Elsewhere
    BY <1>2, <1>3, <1>5, <1>7 DEF SingleDelay, Paddles
  <2> QED BY <1>5, <1>9, <1>10, <2>1, <2>2 DEF TickSinglePaddle, LeaveStraightKey
<1> QED BY <1>11, <1>13, <1>14, <1>15 DEF Tick

LEMMA TickGoesOn ==
  ASSUME TypeOK, Tick, state \in SendStates, phase > TICK, Settled
  PROVE  GoesOn
<1> USE DEF SendStates
<1>1. UNCHANGED <<config, held>> /\ ~Expired
  BY TickAssumption DEF Tick, TickStraight, TickBug, TickIambic, TickSinglePaddle, TypeOK,
                        Expired, Rem, Greater
<1>2. Wait /\ UNCHANGED single_paddle_decided => GoesOn
  BY <1>1 DEF Wait, GoesOn, Settled
<1>3. TickStraight => GoesOn
  BY <1>2 DEF TickStraight, StraightIdle, StraightKeyed, StraightOther, latchVars
<1>4. IambicInner => GoesOn
  <2>1. ~IambicIdle /\ ~LetterSpaceTick /\ \A p \in Paddles : ~IambicDelay(p)
    BY DEF IambicIdle, LetterSpaceTick, IambicDelay, DelayAfter, Paddles
  <2>2. ASSUME NEW p \in Paddles, IambicSend(p) PROVE GoesOn
    BY <1>1, <1>2, <2>2 DEF IambicSend
  <2> QED BY <2>1, <2>2 DEF IambicInner
<1>5. TickBug \/ TickIambic => GoesOn
  BY <1>4 DEF TickBug, TickIambic, BugDash, BugKeyed, LeaveStraightKey
<1>6. TickSinglePaddle => GoesOn
  <2>1. ~SingleIdle /\ ~LetterSpaceTick /\ ~SingleDelay /\ ~LeaveStraightKey
    BY DEF SingleIdle, LetterSpaceTick, SingleDelay, DelayStates, LeaveStraightKey
  <2>2. ASSUME NEW p \in Paddles, SingleSend(p), config.mode = "SinglePaddle" PROVE GoesOn
    BY <1>1, <1>2, <2>2 DEF SingleSend, SingleUndecided, Settled
  <2> QED BY <2>1, <2>2 DEF TickSinglePaddle
<1> QED BY <1>3, <1>5, <1>6 DEF Tick

\* Of a product by a tick, for budgets that are counted down.
LEMMA TicksLeft ==
  ASSUME NEW b \in 1..MAX_BATCH
  PROVE  /\ b * TICK \in Nat /\ (b - 1) * TICK \in Nat
         /\ b * TICK = (b - 1) * TICK + TICK
         /\ b * TICK <= MAX_BATCH * TICK
<1>1. TICK \in Nat /\ TICK > 0 /\ MAX_BATCH \in Nat
  BY TickAssumption, ThreadAssumption
<1>2. PICK k \in Nat : MAX_BATCH = b + k
  <2>1. MAX_BATCH - b \in Nat /\ MAX_BATCH = b + (MAX_BATCH - b)
    BY <1>1
  <2> QED BY <2>1
<1>3. k * TICK \in Nat /\ MAX_BATCH * TICK = b * TICK + k * TICK
  BY <1>1, <1>2
<1>4. b * TICK \in Nat /\ (b - 1) * TICK \in Nat /\ b * TICK = (b - 1) * TICK + TICK
  BY <1>1
<1> QED BY <1>1, <1>3, <1>4

\* The tick in a batch: an element begun in it does not end in it.
LEMMA BatchTickOutlasts ==
  ASSUME BatchFits, ThreadInv, Outlasts, BatchTick
  PROVE  /\ Outlasts'
         /\ state \in SendStates /\ state' \notin SendStates => ~begun
<1> DEFINE b == budget
           left == b * TICK
           rest == (b - 1) * TICK
<1>1. /\ pc = "batch" /\ Tick /\ budget' = budget - 1
      /\ begun' = (begun \/ (state \notin SendStates /\ state' \in SendStates))
  BY DEF BatchTick
<1>2. /\ b \in 1..MAX_BATCH /\ TypeOK /\ TICK \in Nat /\ TICK > 0 /\ begun \in BOOLEAN
      /\ phase \in Int /\ phase >= -TICK /\ config \in Configs
  BY <1>1, TickAssumption DEF ThreadInv, LoopOK, TypeOK
<1>3. left \in Nat /\ rest \in Nat /\ left = rest + TICK /\ left <= MAX_BATCH * TICK
      /\ MAX_BATCH * TICK \in Nat
  <2>1. MAX_BATCH \in Nat BY ThreadAssumption
  <2> QED BY <1>2, <2>1, TicksLeft
<1>4. budget' * TICK = rest
  BY <1>1
<1> HIDE DEF left, rest
<1>5. CASE state \notin SendStates
  <2> SUFFICES ASSUME state' \in SendStates PROVE phase' > rest /\ Settled'
    BY <1>4, <1>5 DEF Outlasts
  <2>1. PICK p \in Paddles : Begins(p)
    BY <1>1, <1>2, <1>5, TickBegins
  <2>2. config.dur[p] \in Nat /\ config.dur[p] >= MAX_BATCH * TICK
    BY <1>2, ConfigsAssumption DEF BatchFits, Config
  <2>3. phase' > config.dur[p] - TICK
    BY <1>2, <2>1, <2>2 DEF Begins, Schedule, Rem, Greater
  <2>4. phase' \in Int
    BY <1>2, <2>1, <2>2 DEF Begins, Schedule, Rem, Greater
  <2> QED BY <1>2, <1>3, <2>1, <2>2, <2>3, <2>4 DEF Begins
<1>6. CASE state \in SendStates /\ ~begun
  BY <1>1, <1>2, <1>6 DEF Outlasts
<1>7. CASE state \in SendStates /\ begun
  <2>1. phase > left /\ Settled
    BY <1>1, <1>7 DEF Outlasts, left
  <2>2. phase > TICK
    BY <1>2, <1>3, <2>1
  <2>3. GoesOn
    BY <1>1, <1>2, <1>7, <2>1, <2>2, TickGoesOn
  <2>4. phase' = phase - TICK
    BY <1>2, <2>2, <2>3 DEF GoesOn, Rem, Greater
  <2>5. phase' > rest
    BY <1>2, <1>3, <2>1, <2>4
  <2> QED BY <1>4, <1>7, <2>3, <2>5 DEF Outlasts, GoesOn
<1> QED BY <1>2, <1>5, <1>6, <1>7

\* No element begins and ends within one batch of ticks, if a batch is no longer
\* than a dit: the paddles are read while an element is under way, before it is
\* decided what follows it (keyer_loop, MAX_BATCH).
THEOREM PaddlesReadPerElementAlways ==
  ASSUME BatchFits
  PROVE  ThreadSpec => PaddlesReadPerElement
<1> DEFINE Once == (state \in SendStates /\ state' \notin SendStates) => ~begun
<1>1. ThreadInit => Outlasts
  BY DEF ThreadInit, Outlasts
<1>2. ThreadInv /\ Outlasts /\ [ThreadNext]_threadVars => Outlasts' /\ [Once]_threadVars
  <2> SUFFICES ASSUME ThreadInv, Outlasts, [ThreadNext]_threadVars
               PROVE  Outlasts' /\ Once
    OBVIOUS
  <2>1. CASE BatchTick
    BY <2>1, BatchTickOutlasts
  <2>2. CASE \E d \in Delays : StartBatch(d)
    BY <2>2 DEF StartBatch, Outlasts, vars, phaseVars
  <2>3. CASE LoopTop \/ (\E raw \in Presses : WaitForChange(raw)) \/ DrainCommand
    <3>1. pc' # "batch" /\ state' = state
      BY <2>3 DEF LoopTop, WaitForChange, SetPaddle, DrainCommand, Execute, SendText,
                  UpdateConfig, AbortText, ReturnsNothing, phaseVars, vars, loopVars
    <3> QED BY <3>1 DEF Outlasts
  <2>4. CASE Owner \/ Consume \/ UNCHANGED threadVars
    <3>1. UNCHANGED <<vars, pc, budget, begun>>
      BY <2>4 DEF Owner, SendMacro, SendConfig, AbortMacro, AbortSent, Stop, Joined, Consume,
                  threadVars, loopVars, ghostVars
    <3> QED BY <3>1 DEF Outlasts, Settled, vars, phaseVars, latchVars
  <2> QED BY <2>1, <2>2, <2>3, <2>4 DEF ThreadNext, Loop
<1>3. ThreadSpec => [][Once]_threadVars
  BY <1>1, <1>2, ThreadInvInit, ThreadInvInductive, PTL DEF ThreadSpec
<1> QED BY <1>3 DEF PaddlesReadPerElement
=============================================================================
