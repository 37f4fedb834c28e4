----------------------------- MODULE PaddleInput -----------------------------
(***************************************************************************)
(* The paddle inputs (radio-utils-keyer/src/input/): the sources of each   *)
(* kind with the threads that fill them, MergedPaddleInput with one        *)
(* "keyer-input" thread per source, and the keyer thread that waits for    *)
(* a change and drops the merged input in the end.                         *)
(*                                                                         *)
(* A paddle state is the set of paddles that are down.  Every critical     *)
(* section under a mutex is one step.  Time is left out: a wait may run    *)
(* into its timeout at any moment.                                         *)
(***************************************************************************)
EXTENDS Naturals, SequencesExt

Paddles == {"dit", "dash"}
PaddleState == SUBSET Paddles

\* "amidi" and "usb" are the Android ones.
Kinds == {"keyboard", "midi", "amidi", "usb", "serial"}

CONSTANTS
  Sources,
  Setups,       \* the kinds the sources may be of, and a bound: how many
                \* times a paddle moves or a cable is pulled
  Bindings,     \* the MIDI control bound to each paddle
  Wire,         \* Wire[p][down]: the MIDI messages a device may send for p
  MAX_ERRORS    \* failed reads in a row that end the USB poll thread

Controls == [kind : {"NoteOn", "ControlChange"}, channel : 1..16, number : 0..127]
Bytes == 0..255

ASSUME PaddleAssumption ==
  /\ Setups \subseteq [kind : [Sources -> Kinds], touches : Nat]
  /\ Bindings \in [Paddles -> Controls]
  /\ Wire \in [Paddles -> [BOOLEAN -> SUBSET Seq(Bytes)]]
  /\ MAX_ERRORS \in Nat \ {0}

VARIABLES
  \* The world.
  kind,         \* what each source is; never changes
  contact,      \* the paddles held down, of each source
  plugged,      \* is the cable in?
  touches,      \* moves left
  \* The sources.
  channel,      \* keyboard: events sent; MIDI: messages on their way
  unnotified,   \* keyboard: calls of send() that have yet to notify
  flag,         \* keyboard: Notify.mu
  state,        \* what the source knows of its paddles
  errors,       \* USB: consecutive_errors
  poll,         \* the thread, or callback, that fills the shared state
  \* The keyer-input thread of each source.
  pc, sampled, got, prev,
  \* The merged input.
  paddle, merged_generation, stop,
  \* The keyer thread.
  keyer, last_generation, keyer_paddle,
  \* History: the states the contacts of a source have been in.
  history

worldVars == <<kind, contact, plugged, touches, history>>
wakeVars == <<channel, unnotified, flag>>
sharedVars == <<errors, poll>>
threadVars == <<pc, sampled, got, prev>>
mergedVars == <<paddle, merged_generation, stop>>
keyerVars == <<keyer, last_generation, keyer_paddle>>
paddleVars == <<worldVars, wakeVars, state, sharedVars, threadVars, mergedVars, keyerVars>>

HasChannel(s) == kind[s] \in {"keyboard", "midi", "amidi"}
IsMidi(s) == kind[s] \in {"midi", "amidi"}
IsShared(s) == IsMidi(s) \/ kind[s] = "usb"

ThreadPcs == {"start", "top", "drained", "waiting", "half", "woken", "report",
              "closing", "ended"}

PaddleTypeOK ==
  /\ kind \in [Sources -> Kinds]
  /\ contact \in [Sources -> PaddleState] /\ plugged \in [Sources -> BOOLEAN]
  /\ touches \in Nat
  /\ channel \in [Sources -> Seq((Paddles \X BOOLEAN) \union Seq(Bytes))]
  /\ unnotified \in [Sources -> Nat] /\ flag \in [Sources -> BOOLEAN]
  /\ state \in [Sources -> PaddleState]
  /\ errors \in [Sources -> 0..MAX_ERRORS]
  /\ poll \in [Sources -> BOOLEAN]
  /\ pc \in [Sources -> ThreadPcs]
  /\ sampled \in [Sources -> PaddleState] /\ got \in [Sources -> PaddleState]
  /\ prev \in [Sources -> PaddleState]
  /\ paddle \in PaddleState /\ merged_generation \in Nat /\ stop \in BOOLEAN
  /\ keyer \in {"run", "waiting", "joining", "dropped"}
  /\ last_generation \in Nat /\ keyer_paddle \in PaddleState
  /\ history \in [Sources -> SUBSET PaddleState]

PaddleInit ==
  /\ \E u \in Setups : kind = u.kind /\ touches = u.touches
  /\ contact = [s \in Sources |-> {}] /\ plugged = [s \in Sources |-> TRUE]
  /\ channel = [s \in Sources |-> <<>>] /\ unnotified = [s \in Sources |-> 0]
  /\ flag = [s \in Sources |-> FALSE]
  /\ state = [s \in Sources |-> {}]
  /\ errors = [s \in Sources |-> 0]
  /\ poll = [s \in Sources |-> IsShared(s)]
  /\ pc = [s \in Sources |-> "start"]
  /\ sampled = [s \in Sources |-> {}] /\ got = [s \in Sources |-> {}]
  /\ prev = [s \in Sources |-> {}]
  /\ paddle = {} /\ merged_generation = 0 /\ stop = FALSE
  /\ keyer = "run" /\ last_generation = 0 /\ keyer_paddle = {}
  /\ history = [s \in Sources |-> {{}}]

-----------------------------------------------------------------------------
(* Paddles and cables.                                                     *)

\* A paddle moves.  The keyboard's event is sent, its receiver not yet woken;
\* a MIDI device puts one of its messages on the wire.
Touch(s, p) ==
  /\ touches > 0 /\ plugged[s]
  /\ touches' = touches - 1
  /\ LET down == p \notin contact[s]
         now == IF down THEN contact[s] \union {p} ELSE contact[s] \ {p}
     IN /\ contact' = [contact EXCEPT ![s] = now]
        /\ history' = [history EXCEPT ![s] = @ \union {now}]
        /\ \/ /\ kind[s] = "keyboard"
              /\ channel' = [channel EXCEPT ![s] = Append(@, <<p, down>>)]
              /\ unnotified' = [unnotified EXCEPT ![s] = @ + 1]
           \/ /\ IsMidi(s)
              /\ \E m \in Wire[p][down] : channel' = [channel EXCEPT ![s] = Append(@, m)]
              /\ UNCHANGED unnotified
           \/ ~HasChannel(s) /\ UNCHANGED <<channel, unnotified>>
  /\ UNCHANGED <<kind, plugged, flag, state, sharedVars, threadVars, mergedVars, keyerVars>>

\* The second half of KeyboardPaddleSender::send.
Notify(s) ==
  /\ unnotified[s] > 0
  /\ unnotified' = [unnotified EXCEPT ![s] = @ - 1]
  /\ flag' = [flag EXCEPT ![s] = TRUE]
  /\ UNCHANGED <<worldVars, channel, state, sharedVars, threadVars, mergedVars, keyerVars>>

\* The cable is pulled: no more messages, and every read fails.
Unplug(s) ==
  /\ touches > 0 /\ plugged[s] /\ kind[s] # "keyboard"
  /\ touches' = touches - 1
  /\ plugged' = [plugged EXCEPT ![s] = FALSE]
  /\ UNCHANGED <<kind, contact, history, wakeVars, state, sharedVars, threadVars, mergedVars,
                 keyerVars>>

-----------------------------------------------------------------------------
(* The shared state of the MIDI and USB sources.                           *)

\* RawMidiEvent::from_bytes; the set holds the event, if there is one.
FromBytes(b) ==
  LET nibble == b[1] \div 16
      One(type, number, down) ==
        {[control |-> [kind |-> type, channel |-> (b[1] % 16) + 1, number |-> number],
          is_down |-> down]}
  IN  CASE Len(b) = 1 /\ nibble \in {8, 9}  -> One("NoteOn", 0, nibble = 9)
        [] Len(b) >= 3 /\ nibble = 8        -> One("NoteOn", b[2], FALSE)
        [] Len(b) >= 3 /\ nibble = 9        -> One("NoteOn", b[2], b[3] > 0)
        [] Len(b) >= 3 /\ nibble = 11       -> One("ControlChange", b[2], b[3] > 0)
        [] OTHER                            -> {}

\* Mutant: the channel of a message is ignored.
MutantMatches(event, binding) == event.control.number = binding.number

Matches(event, binding) == event.control = binding

\* A device sends for a paddle what the paddle is bound to, and for no other.
WireIsBound ==
  /\ Bindings["dit"] # Bindings["dash"]
  /\ \A p \in Paddles, down \in BOOLEAN : \A m \in Wire[p][down] :
       \E e \in FromBytes(m) : e.control = Bindings[p] /\ e.is_down = down

\* What a message makes of the paddles known to be down.
Heard(known, b) ==
  {p \in Paddles : IF \E e \in FromBytes(b) : Matches(e, Bindings[p])
                   THEN \E e \in FromBytes(b) : e.is_down
                   ELSE p \in known}

\* midir's callback, and a pass of amidi_poll_thread that finds a message.
HandleMessage(s) ==
  /\ IsMidi(s) /\ poll[s] /\ channel[s] # <<>>
  /\ channel' = [channel EXCEPT ![s] = Tail(@)]
  /\ state' = [state EXCEPT ![s] = Heard(@, Head(channel[s]))]
  /\ UNCHANGED <<worldVars, unnotified, flag, errors, poll, threadVars, mergedVars, keyerVars>>

\* AMidiOutputPort_receive fails, or returns a message that is no data, a
\* flush, which the code takes for a failure: the poll thread ends and keeps the
\* state.
PortError(s) ==
  /\ kind[s] = "amidi" /\ poll[s]
  /\ poll' = [poll EXCEPT ![s] = FALSE]
  /\ UNCHANGED <<worldVars, wakeVars, state, errors, threadVars, mergedVars,
                 keyerVars>>

\* A pass of poll_loop that reads the modem status.
PollModem(s) ==
  /\ kind[s] = "usb" /\ poll[s] /\ plugged[s]
  /\ state' = [state EXCEPT ![s] = contact[s]]
  /\ errors' = [errors EXCEPT ![s] = 0]
  /\ UNCHANGED <<worldVars, wakeVars, poll, threadVars, mergedVars, keyerVars>>

\* Mutant: one failed read too many.
MutantPollError(s) ==
  /\ kind[s] = "usb" /\ poll[s]
  /\ errors' = [errors EXCEPT ![s] = @ + 1]
  /\ poll' = [poll EXCEPT ![s] = errors'[s] <= MAX_ERRORS]
  /\ UNCHANGED <<worldVars, wakeVars, state, threadVars, mergedVars, keyerVars>>

\* One that fails, transiently or for good; the last of them ends the thread.
PollError(s) ==
  /\ kind[s] = "usb" /\ poll[s]
  /\ errors' = [errors EXCEPT ![s] = @ + 1]
  /\ poll' = [poll EXCEPT ![s] = errors'[s] < MAX_ERRORS]
  /\ UNCHANGED <<worldVars, wakeVars, state, threadVars, mergedVars, keyerVars>>

-----------------------------------------------------------------------------
(* The keyer-input threads.                                                *)

Goto(s, l) == pc' = [pc EXCEPT ![s] = l]
Got(s, new) == got' = [got EXCEPT ![s] = new] /\ Goto(s, "report")

\* prev = source.read()
Begin(s) ==
  /\ pc[s] = "start" /\ Goto(s, "top")
  /\ prev' = [prev EXCEPT ![s] = state[s]]
  /\ UNCHANGED <<worldVars, wakeVars, state, sharedVars, sampled, got, mergedVars,
                 keyerVars>>

\* drain_events
Apply(known, e) == IF e[2] THEN known \union {e[1]} ELSE known \ {e[1]}
\* Mutant: only the last event counts.
MutantDrained(s) == IF channel[s] = <<>> THEN state[s] ELSE Apply(state[s], Last(channel[s]))
Drained(s) == FoldLeft(Apply, state[s], channel[s])
Drain(s) ==
  /\ state' = [state EXCEPT ![s] = Drained(s)]
  /\ channel' = [channel EXCEPT ![s] = <<>>]

\* wait_for_change of the keyboard: the first drain ...
KeyboardEnter(s) ==
  /\ kind[s] = "keyboard" /\ pc[s] = "top" /\ ~stop
  /\ Drain(s) /\ Goto(s, "drained")
  /\ UNCHANGED <<worldVars, unnotified, flag, sharedVars, sampled, got, prev,
                 mergedVars, keyerVars>>

\* Mutant: the flag is cleared before the wait.
MutantKeyboardCheck(s) ==
  /\ pc[s] = "drained" /\ Goto(s, "waiting")
  /\ flag' = [flag EXCEPT ![s] = FALSE]
  /\ UNCHANGED <<worldVars, channel, unnotified, state, sharedVars, sampled, got,
                 prev, mergedVars, keyerVars>>

\* ... a look at the channel ...
KeyboardCheck(s) ==
  /\ pc[s] = "drained"
  /\ Goto(s, IF channel[s] = <<>> THEN "waiting" ELSE "woken")
  /\ UNCHANGED <<worldVars, wakeVars, state, sharedVars, sampled, got, prev,
                 mergedVars, keyerVars>>

\* ... Notify::wait, ended by the flag or the timeout ...
KeyboardWake(s) ==
  /\ kind[s] = "keyboard" /\ pc[s] = "waiting"
  /\ flag' = [flag EXCEPT ![s] = FALSE]
  /\ Goto(s, "woken")
  /\ UNCHANGED <<worldVars, channel, unnotified, state, sharedVars, sampled, got,
                 prev, mergedVars, keyerVars>>

\* ... and the second drain.
KeyboardReturn(s) ==
  /\ pc[s] = "woken"
  /\ Drain(s) /\ Got(s, Drained(s))
  /\ UNCHANGED <<worldVars, unnotified, flag, sharedVars, sampled, prev,
                 mergedVars, keyerVars>>

\* wait_for_change of the shared kinds: what changed before it is called does
\* not count ...
SharedEnter(s) ==
  /\ IsShared(s) /\ pc[s] = "top" /\ ~stop
  /\ Goto(s, "waiting")
  /\ UNCHANGED <<worldVars, wakeVars, state, sharedVars, sampled, got, prev, mergedVars,
                 keyerVars>>

\* ... and it ends with a change of generation or the timeout.
SharedReturn(s) ==
  /\ IsShared(s) /\ pc[s] = "waiting"
  /\ Got(s, state[s])
  /\ UNCHANGED <<worldVars, wakeVars, state, sharedVars, sampled, prev, mergedVars,
                 keyerVars>>

\* wait_for_change of the serial port samples the pins until they differ from
\* its state or time is up: sample() reads one pin, then the other, and a pin
\* it cannot read is up.
SerialEnter(s) ==
  /\ kind[s] = "serial" /\ pc[s] = "top" /\ ~stop
  /\ Goto(s, "waiting")
  /\ UNCHANGED <<worldVars, wakeVars, state, sharedVars, sampled, got, prev,
                 mergedVars, keyerVars>>

ReadPin(s, p) == IF plugged[s] THEN contact[s] \intersect {p} ELSE {}

SampleDit(s) ==
  /\ kind[s] = "serial" /\ pc[s] = "waiting"
  /\ sampled' = [sampled EXCEPT ![s] = ReadPin(s, "dit")]
  /\ Goto(s, "half")
  /\ UNCHANGED <<worldVars, wakeVars, state, sharedVars, got, prev, mergedVars,
                 keyerVars>>

Sample(s) == sampled[s] \union ReadPin(s, "dash")

\* Mutant: no deadline.
MutantSerialReturn(s) ==
  /\ pc[s] = "half" /\ Sample(s) # state[s]
  /\ state' = [state EXCEPT ![s] = Sample(s)] /\ Got(s, Sample(s))
  /\ sampled' = [sampled EXCEPT ![s] = {}]
  /\ UNCHANGED <<worldVars, wakeVars, sharedVars, prev, mergedVars, keyerVars>>

\* The pins differ, or the time is up.
SerialReturn(s) ==
  /\ pc[s] = "half"
  /\ state' = [state EXCEPT ![s] = Sample(s)] /\ Got(s, Sample(s))
  /\ sampled' = [sampled EXCEPT ![s] = {}]
  /\ UNCHANGED <<worldVars, wakeVars, sharedVars, prev, mergedVars,
                 keyerVars>>

SerialAgain(s) ==
  /\ pc[s] = "half" /\ Sample(s) = state[s]
  /\ Goto(s, "waiting") /\ sampled' = [sampled EXCEPT ![s] = {}]
  /\ UNCHANGED <<worldVars, wakeVars, state, sharedVars, got, prev, mergedVars, keyerVars>>

\* A state that differs from the last one replaces the merged state.
Report(s) ==
  /\ pc[s] = "report" /\ Goto(s, "top")
  /\ prev' = [prev EXCEPT ![s] = got[s]] /\ got' = [got EXCEPT ![s] = {}]
  /\ \/ /\ got[s] # prev[s]
        /\ paddle' = got[s] /\ merged_generation' = merged_generation + 1
     \/ got[s] = prev[s] /\ UNCHANGED <<paddle, merged_generation>>
  /\ UNCHANGED <<worldVars, wakeVars, state, sharedVars, sampled, stop,
                 keyerVars>>

\* Told to stop, the thread drops its source, which joins the poll thread.
Close(s) ==
  /\ pc[s] = "top" /\ stop /\ Goto(s, "closing")
  /\ UNCHANGED <<worldVars, wakeVars, state, sharedVars, sampled, got, prev,
                 mergedVars, keyerVars>>

PollEnds(s) ==
  /\ pc[s] = "closing" /\ poll[s]
  /\ poll' = [poll EXCEPT ![s] = FALSE]
  /\ UNCHANGED <<worldVars, wakeVars, state, errors, threadVars, mergedVars,
                 keyerVars>>

End(s) ==
  /\ pc[s] = "closing" /\ ~poll[s] /\ Goto(s, "ended")
  /\ UNCHANGED <<worldVars, wakeVars, state, sharedVars, sampled, got, prev,
                 mergedVars, keyerVars>>

-----------------------------------------------------------------------------
(* The keyer thread.                                                       *)

\* wait_for_change of the merged input looks at the generation first ...
KeyerTake ==
  /\ last_generation' = merged_generation /\ keyer_paddle' = paddle
  /\ UNCHANGED <<worldVars, wakeVars, state, sharedVars, threadVars, mergedVars>>

KeyerEnter ==
  /\ keyer = "run"
  /\ \/ merged_generation # last_generation /\ KeyerTake /\ UNCHANGED keyer
     \/ /\ merged_generation = last_generation
        /\ keyer' = "waiting"
        /\ UNCHANGED <<worldVars, wakeVars, state, sharedVars, threadVars, mergedVars,
                       last_generation, keyer_paddle>>

\* ... and waits, for another generation or the timeout.
KeyerReturn == keyer = "waiting" /\ keyer' = "run" /\ KeyerTake

\* keyer_loop ends and drops its input: Drop stops the threads and joins them.
KeyerStops ==
  /\ keyer = "run" /\ keyer' = "joining" /\ stop' = TRUE
  /\ UNCHANGED <<worldVars, wakeVars, state, sharedVars, threadVars, paddle,
                 merged_generation, last_generation, keyer_paddle>>

Joined ==
  /\ keyer = "joining" /\ \A s \in Sources : pc[s] = "ended"
  /\ keyer' = "dropped"
  /\ UNCHANGED <<worldVars, wakeVars, state, sharedVars, threadVars, mergedVars,
                 last_generation, keyer_paddle>>

-----------------------------------------------------------------------------
World(s) == (\E p \in Paddles : Touch(s, p)) \/ Unplug(s)

\* What a source's own threads do, errors aside.
Filler(s) == Notify(s) \/ HandleMessage(s) \/ PollModem(s)

Thread(s) ==
  \/ Begin(s) \/ Report(s) \/ Close(s) \/ End(s)
  \/ KeyboardEnter(s) \/ KeyboardCheck(s) \/ KeyboardWake(s) \/ KeyboardReturn(s)
  \/ SharedEnter(s) \/ SharedReturn(s)
  \/ SerialEnter(s) \/ SampleDit(s) \/ SerialReturn(s) \/ SerialAgain(s)

Waits == KeyerEnter \/ KeyerReturn

\* The end: the input is gone, and nothing need happen any more.
Over == keyer = "dropped" /\ UNCHANGED paddleVars

PaddleNext ==
  \/ \E s \in Sources : World(s) \/ Filler(s) \/ Thread(s) \/ PollEnds(s)
                    \/ PortError(s) \/ PollError(s)
  \/ Waits \/ KeyerStops \/ Joined \/ Over

\* Threads run and waits time out; a serial port's wait ends at the first pass
\* after its deadline.
PaddleSpec ==
  /\ PaddleInit /\ [][PaddleNext]_paddleVars
  /\ \A s \in Sources : /\ WF_paddleVars(Filler(s)) /\ WF_paddleVars(Thread(s))
                        /\ WF_paddleVars(PollEnds(s)) /\ SF_paddleVars(SerialReturn(s))
  /\ WF_paddleVars(Waits) /\ WF_paddleVars(Joined)

-----------------------------------------------------------------------------
(* Properties.                                                             *)

\* No change is slept through: a keyboard's waiter that nobody has notified
\* has no event in its channel that somebody is not about to notify it of,
\* and a keyer thread waiting for another generation has the merged state of
\* this one.  send() and wait_for_change share no lock around the channel.
NoLostWake ==
  /\ \A s \in Sources :
       kind[s] = "keyboard" /\ pc[s] = "waiting" /\ ~flag[s] /\ channel[s] # <<>>
         => unnotified[s] > 0
  /\ keyer = "waiting" /\ merged_generation = last_generation => keyer_paddle = paddle

\* Whatever messages are handled late or in batches, a source shows a state
\* its paddles have been in: no squeeze that never was.  (sample() of the
\* serial port reads its pins one after the other and promises less.)
SnapshotsReal ==
  \A s \in Sources : kind[s] # "serial" => {state[s], prev[s]} \subseteq history[s]

\* Once the paddles are left alone the keyer has what a source that reported
\* shows, if one did, and every source that lives shows what its paddles are.
Live(s) == plugged[s] /\ (IsShared(s) => poll[s])
Settled ==
  /\ keyer_paddle = paddle
  /\ merged_generation > 0 => \E s \in Sources : prev[s] = paddle
  /\ \A s \in Sources : /\ Live(s) => prev[s] = contact[s]
                        /\ kind[s] = "serial" /\ ~plugged[s] => prev[s] = {}
Settles == <>[](stop \/ Settled)

\* "On any state change the shared PaddleState is updated": a paddle a thread
\* takes for known to be down has been reported.
HeldIsReported == \A s \in Sources : prev[s] # {} => merged_generation > 0

\* Dropping the merged input returns: every thread sees the flag after at most
\* one wait, also those whose device is gone.
ThreadsJoin == stop ~> keyer = "dropped"

=============================================================================
