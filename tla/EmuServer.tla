----------------------------- MODULE EmuServer -----------------------------
(***************************************************************************)
(* The server of radio-utils-emu (protocol1.rs): the receive loop with its *)
(* table of clients, and one task for each client session, all sharing the *)
(* echo buffer.                                                            *)
(*                                                                         *)
(* A task outlives its entry in the table: a stop only signals it, and it  *)
(* may first work off frames still in its queue.  A new session of the     *)
(* same address gets a new task, so two tasks of one address can overlap.  *)
(*                                                                         *)
(* The network may lose, repeat and reorder datagrams; any datagram may    *)
(* arrive at any time, so that needs no channel of its own.  Left out are  *)
(* discovery, which keeps no state, and the data packets sent to the       *)
(* client, which only read the echo buffer.                                *)
(***************************************************************************)
EXTENDS EchoBuffer, Integers, Sequences, FiniteSets

CONSTANTS
  Ids,          \* bound of the model: tasks alive at once
  NoTask,
  max_clients,
  QUEUE_CAP,    \* capacity of a client's command channel (64)
  InitFreq,     \* tx_frequency of a new client (7_074_000)
  Frames,       \* host data packets: their two control sub-frames
  Modes         \* the echo modes the emulator may be started with

\* tx is the frequency a sub-frame of address 0x02 sets, or NoFreq for one
\* that sets another register; signal: are its samples not all zero?
NoFreq == -1
Subframe == [mox : BOOLEAN, tx : Freqs \union {NoFreq}, signal : BOOLEAN]

ASSUME ServerAssumption ==
  /\ Addrs # {}
  /\ IsFiniteSet(Ids) /\ NoTask \notin Ids
  /\ {max_clients, QUEUE_CAP} \subseteq Nat \ {0}
  /\ InitFreq \in Freqs
  /\ Frames \subseteq Seq(Subframe)
  /\ Modes \subseteq EchoModes

VARIABLES
  clients,   \* the table: the task of each connected address
  live,      \* the tasks that have not ended
  task,      \* what each task holds
  echo

serverVars == <<clients, live, task, echo>>

\* The parts of a task's ClientState that other tasks depend on, its channels,
\* and the sub-frames left of the packet it is handling.
Task == [addr : Addrs, queue : Seq(Frames), stop : BOOLEAN,
         frame : Seq(Subframe), ptt : BOOLEAN, tx_frequency : Freqs,
         recording_freq : Freqs \union {NoFreq}]

NewTask(a) ==
  [addr |-> a, queue |-> <<>>, stop |-> FALSE, frame |-> <<>>, ptt |-> FALSE,
   tx_frequency |-> InitFreq, recording_freq |-> NoFreq]

Ended == NewTask(CHOOSE a \in Addrs : TRUE)

ServerInit ==
  /\ clients = [a \in Addrs |-> NoTask]
  /\ live = {}
  /\ task = [i \in Ids |-> Ended]
  /\ \E m \in Modes : echo = NewEcho(m)

-----------------------------------------------------------------------------
(* The receive loop.                                                       *)

Connected == {a \in Addrs : clients[a] # NoTask}

\* A start of a connected address is ignored.
Start(a) ==
  /\ a \notin Connected
  /\ Cardinality(Connected) < max_clients
  /\ Ids \ live # {}
  /\ LET i == CHOOSE j \in Ids : j \notin live
     IN  /\ live' = live \union {i}
         /\ task' = [task EXCEPT ![i] = NewTask(a)]
         /\ clients' = [clients EXCEPT ![a] = i]
  /\ UNCHANGED echo

\* Mutant: the entry stays in the table.
MutantStop(a) ==
  /\ a \in Connected
  /\ clients[a] \in live
  /\ task' = [task EXCEPT ![clients[a]].stop = TRUE]
  /\ UNCHANGED <<clients, live, echo>>

Stop(a) ==
  /\ a \in Connected
  /\ clients' = [clients EXCEPT ![a] = NoTask]
  /\ task' = [task EXCEPT ![clients[a]].stop = TRUE]
  /\ UNCHANGED <<live, echo>>

\* The entries whose task still receives.
Retained == [a \in Addrs |-> IF clients[a] \in live THEN clients[a] ELSE NoTask]

\* Mutant: the queue is not bounded.
MutantData(a, frame) ==
  /\ a \in Connected
  /\ task' = [task EXCEPT ![clients[a]].queue = Append(@, frame)]
  /\ UNCHANGED <<clients, live, echo>>

\* A packet that finds the queue full is dropped; every hundredth one removes
\* the entries of tasks that have ended.
Data(a, frame) ==
  /\ a \in Connected
  /\ task' = IF clients[a] \in live /\ Len(task[clients[a]].queue) < QUEUE_CAP
             THEN [task EXCEPT ![clients[a]].queue = Append(@, frame)]
             ELSE task
  /\ clients' \in {clients, Retained}
  /\ UNCHANGED <<live, echo>>

-----------------------------------------------------------------------------
(* A client task.  Its select takes the next packet or the stop signal,    *)
(* whichever it likes if both are there.                                   *)

Receive(i) ==
  /\ i \in live
  /\ task[i].frame = <<>> /\ task[i].queue # <<>>
  /\ task' = [task EXCEPT ![i].frame = Head(task[i].queue),
                          ![i].queue = Tail(@)]
  /\ UNCHANGED <<clients, live, echo>>

\* process_control, as far as it is modelled.
TxFrequency(t, sf) == IF sf.tx = NoFreq THEN t.tx_frequency ELSE sf.tx

\* Mutant: the recording follows a change of frequency under PTT.
MutantRecordingFreq(t, sf) ==
  IF echo.mode = "Off" THEN t.recording_freq
  ELSE IF ~sf.mox THEN NoFreq ELSE TxFrequency(t, sf)

\* recording_freq after a sub-frame: the frequency is locked when PTT goes on.
RecordingFreq(t, sf) ==
  IF sf.mox = t.ptt \/ echo.mode = "Off" THEN t.recording_freq
  ELSE IF sf.mox THEN TxFrequency(t, sf) ELSE NoFreq

\* What a sub-frame does to the echo buffer, under one write lock.
Echoed(t, sf, resume, forgets) ==
  LET rec == RecordingFreq(t, sf)
      switched ==
        IF sf.mox = t.ptt THEN echo
        ELSE IF sf.mox THEN StartRecording(echo, rec, t.addr, resume)
        ELSE IF t.recording_freq # NoFreq
             THEN StopRecording(echo, t.recording_freq, t.addr) ELSE echo
  IN  IF sf.mox /\ rec # NoFreq
      THEN Feed(switched, rec, sf.signal, forgets) ELSE switched

HandleSubframe(i) ==
  /\ i \in live
  /\ task[i].frame # <<>>
  /\ LET t == task[i]
         sf == Head(t.frame)
     IN  /\ task' = [task EXCEPT ![i].frame = Tail(@),
                                 ![i].ptt = sf.mox,
                                 ![i].tx_frequency = TxFrequency(t, sf),
                                 ![i].recording_freq = RecordingFreq(t, sf)]
         /\ IF echo.mode = "Off" THEN UNCHANGED echo
            ELSE \E resume, forgets \in BOOLEAN :
                   echo' = Echoed(t, sf, resume, forgets)
  /\ UNCHANGED <<clients, live>>

\* Mutant: a task that ends does not let go of its recording.
MutantEnd(i) ==
  /\ i \in live
  /\ task[i].frame = <<>> /\ task[i].stop
  /\ live' = live \ {i}
  /\ task' = [task EXCEPT ![i] = Ended]
  /\ UNCHANGED <<clients, echo>>

\* The stop signal: leave the loop and release the recording.
End(i) ==
  /\ i \in live
  /\ task[i].frame = <<>> /\ task[i].stop
  /\ live' = live \ {i}
  /\ task' = [task EXCEPT ![i] = Ended]
  /\ echo' = IF task[i].recording_freq = NoFreq THEN echo
             ELSE StopRecording(echo, task[i].recording_freq, task[i].addr)
  /\ UNCHANGED clients

TaskStep(i) == Receive(i) \/ HandleSubframe(i) \/ End(i)

-----------------------------------------------------------------------------

ServerNext ==
  \/ \E a \in Addrs : Start(a) \/ Stop(a) \/ \E f \in Frames : Data(a, f)
  \/ \E i \in Ids : TaskStep(i)

ServerSpec == ServerInit /\ [][ServerNext]_serverVars

\* The runtime schedules every task that can run.
ServerFairSpec == ServerSpec /\ \A i \in Ids : WF_serverVars(TaskStep(i))

-----------------------------------------------------------------------------
(* Properties.                                                             *)

\* Types; a task's queue keeps to its capacity.
ServerTypeOK ==
  /\ clients \in [Addrs -> Ids \union {NoTask}]
  /\ live \subseteq Ids
  /\ task \in [Ids -> Task]
  /\ \A i \in Ids : Len(task[i].queue) <= QUEUE_CAP
  /\ echo \in Echo

Recorders(f) == {i \in Ids : task[i].recording_freq = f}

\* The reference count of a frequency is the number of tasks recording on it,
\* through frequency changes under PTT, stops in the middle of a transmission
\* and sessions of one address that overlap ("so mid-PTT freq changes don't
\* leak recorder refcounts", "so other clients aren't left with a stale
\* active-count").
RefCount == \A f \in Freqs : echo.active_count[f] = Cardinality(Recorders(f))

\* With an echo buffer, a task records exactly while its PTT is on
\* (the invariant written down at recording_freq), and an ended task never.
RecordingIffPtt ==
  \A i \in Ids : task[i].recording_freq # NoFreq
                   <=> i \in live /\ task[i].ptt /\ echo.mode # "Off"

\* Tasks and the shared recorders agree on who records.
RecordersAgree == RefCount /\ RecordingIffPtt

\* Every live task can still be told to stop: it has its stop signal, or it
\* is its address's entry in the table, which leads to no other task.
TasksReachable ==
  /\ \A i \in live : task[i].stop \/ clients[task[i].addr] = i
  /\ \A a \in Connected : /\ clients[a] \in live
                          /\ task[clients[a]].addr = a
                          /\ ~task[clients[a]].stop

\* In loop mode a recording with a signal in it is on the air once its last
\* transmitter has let go; frequency 0 never is.
LoopCommitted ==
  /\ \A f \in Freqs : echo.active_count[f] = 0 /\ echo.sounding[f]
                        => f \in echo.echoes
  /\ 0 \notin echo.echoes

\* Once every client has said stop, every task ends and every recording is
\* released, with frames left in queues or not.
AllReleased ==
  <>[](Connected = {}) =>
    <>[](live = {} /\ \A f \in Freqs : echo.active_count[f] = 0)
=============================================================================
