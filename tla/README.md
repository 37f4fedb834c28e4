# TLA+ models of radio-utils

The repository is a Rust workspace of four crates for amateur radio: a Morse
(CW) keyer, a Morse decoder, a client for HPSDR "Protocol 1" transceivers, and
an emulator of such a transceiver. This directory holds TLA+ modules
translated from that code, TLC configurations that check them on small
instances, and proofs checked by TLAPS.

Paths below are relative to `src/crates/`.

## 1. The system

| component | state | operations | talks to | status |
|---|---|---|---|---|
| **Keyer engine** `radio-utils-keyer/src/engine.rs` | keyer state, paddles held and remembered, phase deadline, PTT and key lines, text queue, ring of recorded transitions | `set_paddle`, `update_config`, `send_text`, `abort_text`, `drain_transitions`, `tick` | called by the keyer thread | modelled |
| **Keyer thread** `radio-utils-keyer/src/handle.rs` | command channel (64), output channel (256), running flag, time of the last tick | `start`, `update_config`, `send_macro`, `abort_macro`, `stop`; the loop | owns the engine and the paddle input | modelled |
| **Paddle inputs** `radio-utils-keyer/src/input/` | keyboard event channel and wake-up flag; merged state, generation and condition variable, one thread per source | `send`, `wait_for_change`, `Drop` | block the keyer thread | modelled |
| **MIDI paddle and learn** `input/midi*.rs` | snapshot and generation, filled by a callback or a poll thread; the learn window | messages, `wait_for_change`, `Drop`; learn: `begin`, `feed`, `try_resolve`, `cancel` | a source of the merged input | without the learn window |
| **Serial paddle** `input/serial*.rs` | last state; on Android a snapshot, a poll thread, its count of errors | `wait_for_change`, `Drop` | a source of the merged input | without opening the port |
| **Timing configuration** `radio-utils-keyer/src/config.rs` | a record | durations from speed, weight, ratio, Farnsworth | read by the engine | the durations |
| **Morse table** `radio-utils-keyer/src/morse.rs` | none | `text_to_elements` | called by `send_text` | modelled |
| **Decoder** `radio-utils-cw-decoder/src/lib.rs` | line state, code accumulator, history ring | `on_transition`, `poll`, `clear`, `snapshot` | fed with key transitions | modelled |
| **Discovery** `radio-utils-protocol/src/discovery.rs` | a task per socket, a bounded channel, the caller's list | `discover_multi`, the parser of answers | UDP broadcast; the host program | modelled |
| **Protocol 1 client** `radio-utils-protocol/src/protocol1.rs` | settings, control rotation, sequence numbers, accumulated status, TX sample buffer and pacing | `start`, `stop`, `run`, commands | UDP to the radio; channels to the host program | both halves, one DDC |
| **IQ accumulator** `radio-utils-protocol/src/iq_accumulator.rs` | sample queue | `push`, `next_block`, `set_block_size`, `clear` | between the client and the DSP | modelled |
| **Packet codecs** `radio-utils-protocol/src/packets.rs`, `types.rs` | none | packing and unpacking | client and emulator | by what they carry |
| **Emulator server** `radio-utils-emu/src/protocol1.rs` | table of clients, one task per client, command queues (64), stop signals | start, stop, data, discovery | UDP to clients; the echo buffer behind a lock | receiving half |
| **Echo buffer** `radio-utils-emu/src/radio.rs` | recorders with reference counts; live buffers with a write offset per transmitter and a read position per client; committed loops | `start_recording`, `feed`, `stop_recording`, live playback | shared by all client tasks | without loop playback |

### How the parts interact, and what is hard about it

* **Sources, merged input, keyer thread.** A source is filled by a caller
  (keyboard), a callback (MIDI) or a thread of its own (Android); a thread per
  source waits on it and publishes what it sees; the keyer thread waits on what
  is published. Hard: three waits in a row, each with a flag or a generation of
  its own and a moment between the look and the wait; devices that vanish; the
  end, which has to get every thread out of its wait.
* **Operator, caller, thread, consumer.** The paddle input wakes the keyer
  thread; callers push commands into a bounded channel; the thread drains it,
  ticks the engine for the elapsed time, at most four ticks a pass, and pushes
  the events into a second bounded channel, dropping what finds it full.
  Hard: a mode change or a text in the middle of an element, an abort that
  finds the channel full, a stop while the thread sleeps, latches that
  outlive a session, fractions of a tick.
* **Keyer, line, decoder.** The keyer makes elements of a text and durations of
  elements; the decoder sees transitions only, and the clock when it is polled.
  Hard: a character or a space is due in the middle of a silence, by a poll, or
  at its end, by the next element, and must not come twice.
* **Discovery.** A task for each interface sends what it hears through a bounded
  channel to a caller who waits for all of them. Hard: the channel full at the
  deadline, a caller who gives up, a device heard on two interfaces.
* **Host and radio.** No datagram is acknowledged. The host sends a start, a
  first configuration, and then data packets for ever, each with the next two
  of thirteen control commands. The radio answers with packets of two
  sub-frames, each with one of four groups of readings and samples; ten seconds
  of silence end `run()`. Hard: loss, repetition and reordering, settings
  changed at any point of the rotation, the ring of samples running dry under
  voice transmission, a status put together from several packets, channels and
  queues that overflow silently.
* **Server, tasks, echo buffer.** The emulator's receive loop keeps a table of
  clients and hands packets to one task each; tasks record what their clients
  transmit into a buffer they share, and play it back. Hard: a client that stops
  and starts again has two tasks for a while; a frequency changed under PTT;
  packets dropped from a full queue, the one that releases PTT among them;
  reference counts that must come out even; write and read positions over a
  front that moves.

### What makes each part correct

* *Inputs:* no change is slept through, no state is reported that never was,
  paddles left alone are known, dropping the input returns.
* *Engine:* PTT is on under every keyed element, a tick before it and for the
  hang time after it; elements and gaps have their lengths to within a tick,
  without drift; a paddle tapped in time is sent, and nothing is sent without
  one; every text ends; left alone, the keyer comes to rest.
* *Thread:* an abort wins, calls return, the consumer knows the lines, the
  engine follows the clock.
* *Decoder:* what was sent is what is shown, each character once, in order and
  in time, whenever `poll` is called.
* *Discovery:* a call ends, leaves no task behind and lists each device once.
* *Client:* the radio ends up as set, whatever is lost; no gaps in voice;
  statuses are of one round and keep coming; loss of the radio is noticed.
* *Accumulator:* samples are lost by whole sub-frames, and between blocks.
* *Emulator:* every recording begun is ended, by its own task, and is on the
  air once the last transmitter has let go; every task can be stopped; in live
  mode all transmitters are heard, each sample by all who hear its moment.

### Not modelled

* *MIDI learn* (`input/midi.rs`, `MidiLearnState`): a list of the controls heard
  within 500 ms, fed and asked by one UI thread. `feed` ignores `is_down`, so
  the release of the key just learned is a candidate of the next window.
* *Loop playback* (`generate_echo_into`): a cursor round a constant buffer, with
  a crossfade in floating point; and the frequency shift.
* *Packet codecs* (`packets.rs`, `types.rs`, `transport.rs`): bit packing and
  wrappers round a socket; the models keep the values.
* *Sidetone* (`sidetone.rs`) and the *signal generator*: floating point.
* *Platform bindings* (`midi_web.rs`, `web_serial.rs`, `java/`, `build.rs`): glue
  to JNI, the browser and the build.
* *Command line* (`radio-utils-emu/src/main.rs`): options and one call.
* Of modelled parts: `set_wpm` of the decoder in the middle of a text, the
  `_ms` getters, defaults and serialization of the configuration, the opening of
  devices, the client's pacing, statistics and attenuator, the emulator's
  answers to discovery and its data packets.

## 2. Modules

| module | models | extends |
|---|---|---|
| `KeyerEngine` | `KeyerEngine`: one action per public method, `Tick` for `tick()` | |
| `KeyerTimed` | the engine with a stopwatch on the key line; history variables only | `KeyerEngine` |
| `KeyerText` | the same with a listener who follows the texts; history variables only | `KeyerTimed` |
| `KeyLine` | what a keyer promises to whoever reads its events | |
| `KeyerThread` | `KeyerHandle`, `keyer_loop`, both channels, owner and consumer | `KeyerEngine` |
| `PaddleInput` | the sources, the merged input with its threads, the keyer thread's waits | |
| `Morse` | the table and `text_to_elements`, as operators | |
| `KeyerTiming` | the durations of a configuration, as operators | |
| `CwDecoder` | the decoder, a sender with the keyer's elements and durations, a host that polls | `Morse`, `KeyerTiming` |
| `EchoBuffer` | recorders, reference counts, offsets and commit, as operators on one record | |
| `EmuServer` | the receive loop, the table, the client tasks | `EchoBuffer` |
| `LiveEcho` | the positions of the live buffer of one frequency | |
| `Discovery` | `discover_multi` with its tasks, and the parser of answers | |
| `P1Transmit` | the client's sending half, the network, the radio's registers | |
| `P1Session` | a host from discovery to transmission | `P1Transmit`, `Discovery` |
| `P1Receive` | the radio's data packets, the network, the client's receiving half, the accumulator | |
| `MCKeyer`, `MCKeyerText`, `MCThread`, `MCPaddle`, `MCDecoder`, `MCEmu`, `MCP1`, `MCRx` | instances for TLC | |
| `KeyerEngineProofs`, `KeyerTimedProofs`, `KeyerThreadProofs`, `PaddleInputProofs`, `CwDecoderProofs`, `EmuProofs` (of `EmuServer` and `LiveEcho`), `P1TransmitProofs`, `P1ReceiveProofs` | theorems | |

Operators named `Mutant...` are plausible bugs. They are not used by any
specification; putting one in the place of the definition below it makes the
property named for it in `PROJECT.json` fail.

### Correspondence

**KeyerEngine.** `state`, `memory`, `held`, `text_queue`, ... are the fields
of the struct. The code's absolute clock and deadline become their difference,
`phase`; a deadline a whole tick old is as good as any older one, because
`schedule_phase` then starts afresh, so `phase` stops at `-TICK`. A call's
result is left in `out`. `Tick` is split by mode as `tick()` is
(`TickStraight`, `TickBug`, `TickIambic`, `TickSinglePaddle`), and these by
state. A configuration is a record of ready durations; texts are sequences of
elements. `LiveModeChange` says whether the host may change the mode while the
engine is not idle: several properties hold only if it does not (section 6).
`KeyerTimed` adds a stopwatch on the key line; `due` is what the element on the
air should last by the configuration it began under. `KeyerText` adds a
listener: `script` is what is left of all texts sent and not aborted, as sent,
`own` whether the element on the air was taken from the queue. He strikes a
mark off when its key-up comes and the gaps before it when the next mark comes
after a silence as long as they are. Of one text, any, he counts the marks
still to come (`left`).

**KeyerThread.** `pc` walks the loop: top, wait, drain (one command a step),
batch (one tick a step). The clock is `lag`, what `last_tick` leaves over,
plus the time an iteration took, any of `Delays`. The owner's `abort_macro`
and `stop` are two steps each, since they wait. What the consumer has made of
the events is `believed`.

**PaddleInput.** A paddle state is the set of paddles down. Every critical
section under a mutex is one step, and so is each of the two halves of the
keyboard's `send` (into the channel, then the flag) and of the serial port's
`sample` (one pin, then the other). A wait may run into its timeout at any
moment. `kind` is what a source is: keyboard, midir's callback (`midi`), the
Android poll thread (`amidi`), the polled serial port of the desktop (`serial`),
the USB poll thread (`usb`). MIDI messages are bytes, parsed and matched as the
code does. `history` is the states a source's contacts have been in.

**CwDecoder, Morse, KeyerTiming.** The decoder looks at the clock only to see
how long ago the last transition was: that time is an argument. `Down`, `Up` are
the sender's, each duration off by one of `Jitter`; `Poll` is the host's. The
two tables are transcribed; `Readable` says that the thresholds can tell the
durations of a configuration apart, and the properties hold where they can. A
text is a sequence of one-character strings.

**EmuServer, EchoBuffer.** Any datagram may arrive at any time, so a network
that loses, repeats and reorders needs no variable. `task[i]` holds the part of
`ClientState` others depend on, the command queue and the sub-frames left of
the packet in hand: the lock is taken per sub-frame, so that is a step. A stop
takes the entry out of the table and signals the task, which may work off
packets first, and may overlap its successor. Samples are kept as one bit,
whether a recording has a signal in it.

**LiveEcho.** `client_offsets`, `data`, `drained`, `epoch`, `live_pos` and
`live_epoch` are the code's. A sample is its transmitter and its number, the mix
at a position the set of samples mixed. `aired` remembers what was mixed in at
each position while it was still in time, `heard` what each reader got there.
`EchoBuffer` leaves these positions out and says who has an offset; here `on`
stands for its tasks.

**Discovery, P1Session.** `stage` is where the caller is, `task[s]` the task of a
socket. Any datagram may arrive, or none, at any moment before the task ends, so
requests need no step; the deadline may come at any moment. `Cancel` is the
future dropped by its caller. `Connect` picks a device found of the kind
`P1Transmit` is about; the client starts in its initial state, and there is one
connection.

**P1Transmit.** `settings` are the fields a host program sets; `commands` says
whether `cmd_receiver` is still there, since the first `run()` takes it for
good. A setter needs the client for itself and so runs outside `run()`; inside,
the same changes come as commands. `start()` sends the start command and the
configuration, packet by packet; the first that fails ends it with an error, any
of them may. `SendHostData` is the branch
that sends: guard, two sub-frames with their control commands and samples,
the packet, the error path. `net` is the datagrams in flight; `radio` the
registers `process_control` keeps; `settled` counts the packets that arrived
in order since the last change or fault. Time is left out: the pacing says when
the next packet goes, never what is in it.

**P1Receive.** `radio` is `data_seq` and `control_idx` of a client task, and
the number of the round, which the code does not keep: a reading is modelled by
the session and the round it was taken in. `Parsed` is `parse_radio_subframe`
on a record of what it changes. A sample is its place, 1 to `SPR`, in its
sub-frame, so `iq_chan` need only count sub-frames and `buffer` shows every
gap. `heard` remembers the last three packets handled, `given` the last sample
of the block before. Log messages, and `rx_seq` with them, decide nothing.

## 3. Runs

| run | instance | shows |
|---|---|---|
| `keyer_live` | six modes switched at any moment, texts, automatic spacing, swapped paddles | types; PTT covers the key; hang time kept |
| `keyer_rest` | six modes switched at rest, texts of two marks and a gap queued one behind the other, ticking for ever | key line, events and recorded transitions agree; lengths kept; `KeyLine` implemented; texts keyed mark by mark, in order and to their ends, or aborted; the keyer comes to rest |
| `keyer_paddles` | iambic modes, paddles only | gaps kept, no phantom element, no latched paddle lost |
| `keyer_thread` | channels of one place, three lengths of an iteration | types and no drift; an abort wins; consumer in step; paddles read per element; `stop` and `abort_macro` return |
| `paddle_inputs` | two sources, every kind among three setups, two moves of paddles or cables | no change slept through; no state invented; what is left alone is known; dropping the input returns |
| `cw_decoder` | four configurations, every character, texts, code longer than the accumulator, durations a tick off, polls at any moment, one clear | at every moment what was sent is what is shown; in the end the text |
| `emu_server` | two addresses, two tasks, all echo modes | counts, recording and PTT agree; tasks reachable; loops committed; all released |
| `live_echo` | two transmitters with two sessions each, a reader, two epochs, two capacities | positions stay in the buffer; a reader hears every sample in time, and the tail to its end |
| `p1_transmit` | `P1Session`: two interfaces, three answers, a channel of one place; then one DDC, two bands to receive on, PTT, samples by half packets, one fault | a discovery ends and lists each device once; no padded voice packet; seven packets tune the radio; a host left alone ends with a tuned radio or a finished `run()` |
| `p1_receive` | one fault, one restart of the radio, channels of one place, two block sizes | statuses are of one round and keep coming; samples are lost by whole sub-frames |
| `mode_stuck`, `held_at_start` | | disagreements, section 5 |

Bounds, and why they are enough:

* *Durations* (`MCKeyer`). A tick is 2 units and no element or gap a multiple
  of it, so every phase ends with a residual; a dit and a dash span several
  ticks, so paddles move at the start, in the middle, inside the memory window
  and after an element. `U32_MAX` and `TIME_CAP` are just above the longest
  hang time: beyond it the counter and the stopwatch only saturate.
  `MAX_RECORDED_TRANSITIONS` of 1 or 2 makes the ring evict at once.
  `keyer_rest` has one text, a dit, a gap and a dash: marks of two kinds, so that
  one lost, repeated or out of turn is heard, and a gap that is dispatched.
  `MAX_TEXT` of 5 lets a second text be queued behind the first once that is
  under way, and then a third, for ever. The six modes share one speed there; a
  speed that changes under an element is in `keyer_live`, and in the theorem on
  `TimesKept`. `keyer_live` has texts of one element each, a mark or a gap, and
  a queue of one: it is about mode changes.
* *Channels* of one place are full after one message, so every overflow path
  is taken. `Delays` has less than a tick, the batch cap and a half, and
  starvation (more than the cap, where the code gives up catching up).
* *Inputs:* two sources are the least that compete for the merged state. Two
  moves make a paddle go down and up, a squeeze, a move on each source, a pulled
  cable before or after a move. `MAX_ERRORS` of 2 has a failed read that counts
  and one that ends the thread (50 in the code).
* *Decoder:* one character at a time goes through everything but the gap
  between characters, which the texts of several have. Polls come just before
  and at each threshold, and long after. A history of two is full after two
  characters. The four speeds and weights include Farnsworth gaps, the sliding
  dash ratio and a compensation.
* *Emulator:* two tasks are the least that share a recording or overlap under
  one address; the packets of `SomeFrames` switch PTT on, change the frequency
  under it and switch it off in either sub-frame; frequency 0 never is
  committed.
* *Live buffer:* a delay of 2 against capacities of 3 and 4 (1024 against at
  least 480 000 in the code) and blocks of one and two samples: a buffer
  overflows within an epoch, and a transmitter is overtaken by the front. Readers
  do not act on anything, so one of them stands for each. A second epoch finds
  a reader anywhere in the first.
* *Discovery:* three answers against a channel of one place, from two sockets:
  one waits for room while another is taken in, a device is heard twice, an
  unknown one is passed over.
* *Network:* one fault at any moment. What counts packets in sequence
  (`settled`, `heard`) starts again at each, so a second one would only bring
  the first one's successors back. In `p1_transmit` the loop sends into an empty
  network, and a start adds its five datagrams on top: datagrams overtake one
  another and come late within that burst and after it, across a change of
  settings, a stop and another start. Blocks of half a packet leave the ring
  empty, short and full. In `p1_receive` two datagrams are in flight.
* *Rounds, samples* (`p1_receive`): three rounds before their number comes
  again, so that readings a round or two apart differ; three samples in a
  sub-frame against blocks of two and four, of which none is a multiple of
  another, and a mark of two blocks.
* *Deadlock* is checked in every run.

Fairness. The keyer thread ticks as long as it runs (`WF` of `TimedTick`,
`TextTick`, `Loop`): the wait has a timeout of at most 100 ms. A blocked call goes on when
it can (`AbortSent`, `Joined`). Threads of the inputs run and their waits time
out (`Thread`, `Filler`, `PollEnds`, `Waits`); a serial port's wait goes round
two states until its deadline is over, so its return has strong fairness. The
sender of a text finishes it and the host polls at a regular cadence (`Down`,
`Up`, `Poll`). A task of the emulator goes on as long as it
has something to do (`TaskStep`): `select!` picks a ready branch and the
runtime polls woken tasks. A client reads as long as it is there
(`ReadSome`): its task builds data packets on a timer. The deadline of a
discovery comes, and its caller and tasks are polled (`Caller`, `Expire`,
`TaskStep`); the channel lets those waiting for room in first come, first
served. `select!` in `run()` chooses at random among ready
branches, so each comes round (`SendHostData`, and `ConnectionLost` against a
radio that is off, from which nothing arrives); what the network neither loses
nor repeats it delivers (`Arrive`, `Handle`). The radio's timer ticks for ever
(`Send`), and `StatusFlows` is about a host program that reads its statuses
(`TakeStatus`). No fairness is assumed of the operator, the
host program's calls or the faults.

## 4. Proofs

All for every value of the constants that meets the assumptions in the module.

| theorem | says | argument |
|---|---|---|
| `TypeCorrect` | `[]TypeOK` of the engine | inductive as it stands; one step per action and mode. `phase >= -TICK` and the ring's bound are what takes work |
| `PttCoversKeyAlways` | PTT under every keyed element, any mode change | `TypeOK` and, of each action, that it leaves PTT on or the key up outside the keyed states |
| `QueueNeverStranded` | a queued text has `text_sending` | the same way |
| `KeyFollowsStateAlways`, `EventsTrackLinesAlways`, `RingAlternatesAlways`, together `LinesAgreeAlways` | key and state, events and lines, ring and line agree | under `~LiveModeChange`; the second and third rest on the first |
| `HangRespectedAlways` | PTT goes off only after the hang time, any mode change | `HangInv`: with the key up the hang counter is never ahead of the stopwatch, or the cap of both is reached; without it `hang_counter` could be left over from another session |
| `GapKeptAlways` | elements never fuse, to within a tick | under `PaddlesOnly`. `GapInv`: with the key up, the phase and the stopwatch together are never short of the gap owed, less a tick |
| `NoPhantomAlways` | a session begins with a paddle touched since the last | under `NoLatchKept`. `LatchInv`: at rest, what is latched or in memory is held or was tapped since; every way to `Idle` wipes the rest |
| `TimesKeptAlways` | elements last as long as they should, to within a tick, and a run of them does not drift | under `SteadyTiming`, for any texts and with the speed changed at any moment. `LengthInv`: the phase and the stopwatch of an element add up to what is due, to within a tick; before the key is down, what is due is the phase less the tick PTT takes. A tick is one of ten cases |
| `RefinesKeyLine` | the engine implements `KeyLine` | under `~LiveModeChange`; step by step from the theorems above |
| `InStepAlways` | types of the thread; the engine is never more than a tick behind the clock at rest | `ThreadInv`: in a batch the time behind is `lag` and a tick for each that is left to do. The division into a budget and a remainder is a lemma |
| `LastAbortWinsAlways` | after the owner's abort no text sent before it is keyed | `AbortInv`: until the engine has taken an abort, every text in the channel has one behind it; with none left in it there is no text |
| `ConsumerInSyncAlways` | a consumer who missed no event knows key and PTT | `SyncInv`: the last event in the channel for a line is that line's state, or there is none and the consumer has it already. Needs `PttCoversKey`, as events come in pairs |
| `PaddlesReadPerElementAlways` | no element begins and ends within one batch of ticks | under `BatchFits`. `Outlasts`: an element begun in this batch has more left to run than the batch has ticks, and a single-paddle one is not let go, as the paddles are read between batches |
| `NoLostWakeAlways` | no wake-up is lost, for any sources | `WakeInv`: a keyboard's waiter past its last look has no event in the channel but one about to be notified; the keyer's generation is of the past or its state is the merged one |
| `PaddleTypeOKAlways` | types of the inputs | `Rooms`: what is drained is a keyboard's channel of events, who stands between two pins is a serial port's thread, a thread that polls has not failed too often. What a whole channel makes of the paddles is a state: induction over its length |
| `SnapshotsRealAlways` | a source shows only states its paddles have been in | under `WireIsBound`. `Real`: what a source has yet to hear leads, event by event, from what it knows to what its paddles are, through states they have been in. That `drain_events`, a fold, goes along that very path is the induction of `DrainFollowsTrail` |
| `DecodesWhatWasSentAlways` | at every moment the decoder shows what was sent | `DecoderInv`: in a mark the decoder shows what the listener of `Reference` has after the element before it; in a silence, what it has after as much of it as the decoder saw. One lemma says a gap looked at any number of times means what its last look does (`GapShown`), one that the gaps between two marks mean what their sum does (`AfterRun`), one that the elements of a text are spaced (`TextIsSpaced`). Listener, text and sum are folds: each is followed element by element, by induction over its length |
| `ServerTypeCorrect`, `RefCountAlways`, `RecordingIffPttAlways`, together `RecordersAgreeAlways` | types; counts equal recorders; recording iff PTT | `SessionInv`, their conjunction: a stop must release exactly what its task holds, so the count needs the task's recording, and that its PTT. Finite sets of tasks change by one member a step |
| `TasksReachableAlways` | every live task can be stopped | inductive with the types; it makes the clean-up of the table in `Data` a step that changes nothing |
| `LoopCommittedAlways` | what sounded is on the air after the last stop | `Committed`, of the echo buffer alone: outside loop mode nothing is recorded. One lemma per method of the buffer |
| `LiveTypeCorrect`, `HeardWholeAlways` | positions stay in the buffer; a reader hears every sample in time | `LiveInv`: the buffer is the end of what was aired, and a reader of the epoch trails by the delay while anybody transmits, so what it has passed nobody in time adds to. Rests on capacities above the delay |
| `NoPadding`, `SessionNoPadding` | no padded voice packet with one DDC | `SampleInv`: `run()` asks for twice 63 samples, and every packet in flight is one the loop or `start` builds. Refilling keeps the sum of ring and buffer and leaves a sub-frame in the buffer if there is one in both, twice over |
| `SessionTypeCorrect` | types of client, network, radio and discovery | `TxTypeInv`: every control command on the wire is one the client can build, so the radio's registers keep their types |
| `OneRotationTunesAlways` | seven packets in order after the last change or fault, the radio is as set | `RotationInv`: from some command of the rotation on, the packets still to arrive carry the next two each, up to where the client is, and every register the packets that have arrived went past is tuned; a command sets its own register and leaves the rest, so seven packets go all round. For any faults and restarts before |
| `ListExactAlways` | a finished discovery lists each device once and none that did not answer | `OnItsWay`: the addresses taken in are those in the list, in the channel and in the hands of tasks; at the end the last two are empty |
| `StatusOfOneRoundAlways` | after three packets in sequence a status is of one round | `RxInv`: every packet in flight is one the radio built, even ones opening a round and odd ones closing it; the readings of the last packet, and of the one before if it was of the other kind, are in the status put together. For any number of faults and restarts |
| `SeamsAlways` | the accumulator loses samples only between sub-frames | `AccInv`: the block given last and the buffer after it go on without a gap to the end of a sub-frame; what drops the oldest, gives out a block or appends keeps that |
| `RxTypeAlways` | `[]RxTypeOK` of the receiving side | `RxInv` and `AccInv` with the bounds of channels and counters |

Only model-checked: `TextsAreKeyed`, whose first half needs no fairness but sums
of any number of gaps, and everything with fairness (`ComesToRest`,
`LatchedIsSent`, `CallsReturn`, `Settles`, `ThreadsJoin`, `TextHeard`,
`AllReleased`, `TailHeard`, `DiscoverReturns`, `TunesAtLast`, `StatusFlows`),
which TLAPS cannot treat. Every other property of a passing run is a theorem.

Some theorems have a hypothesis, and each is there because the property is false
without it. The configurations of the runs that check the property meet it:
`MCKeyer`, `MCThread` and `MCPaddle` assume so, and TLC evaluates that.

* `~LiveModeChange`: the engine is told of a new mode only at rest. A change to the
  straight key in an element leaves the key down (`mode_stuck`, section 5).
* `PaddlesOnly`: no texts, and no change to or from the straight key. What is
  sent or touched while an element is on the air is keyed with no gap
  (`engine.rs:694`).
* `NoLatchKept`: no texts, and automatic spacing only in `IambicB`. Elsewhere
  a memory outlives its session (`engine.rs:844`).
* `SteadyTiming`: the mode changes at rest; elements are two ticks long and gaps
  one (a dit is 20 ms at 60 WPM, the ceiling `handle.rs:176` names, and a tick 1
  ms); a single-paddle dash is a tick longer than its dit, which it prolongs.
  Texts and changes of speed are not restricted. What an element owes is fixed
  when it begins: its duration then, less a tick where PTT is still off, as at
  the start of a session, or when a paddle cuts in on the gap that a text with a
  leading blank begins with: its deadline runs while PTT comes on.
* `BatchFits`: a batch of ticks is no longer than an element. `handle.rs:175`
  relies on it; no configuration is checked for it.
* `WireIsBound`: the two paddles are bound to different controls and a device
  sends for a paddle what it is bound to. Nothing keeps a user from binding both
  paddles to one control; a message then moves both.

The provers take no operator as a parameter, so the library's induction does not
serve; where a proof needs induction over a number (`PaddleInputProofs`,
`CwDecoderProofs`) it uses that the order of the naturals is well-founded
(`LeastElement`, `SetInduction`), on a set that the proof names.

`DecodesWhatWasSentAlways` rests on two assumptions of `CwDecoder`. `TablesAgree`
is about the two tables alone: the codes that fit the accumulator, one mark
more of each, and the characters at them. It has no parameter, so TLC's
evaluation of it in `cw_decoder` settles it. `DecoderAssumption` has the elements
keyed by hand `Spaced`, the gap of an element or a letter only between two marks,
as the engine keys them; that those of a text are is proved.

`NoPadding` does not cover changes of the number of DDCs, with which it is false
(section 5).

## 5. Where code and text disagree

With a run that finds it:

* `mode_stuck` (`engine.rs:509`): a change to straight-key mode in the middle
  of an element leaves key and PTT down for ever.
* `held_at_start` (`merged.rs:66`): a paddle already down when the thread of its
  source begins is taken for known, and not reported until it moves.

Read in the code, without a run.

*Keyer.*

* `engine.rs:844`: with automatic spacing, a memory left over from one session
  keys an element in the next, which the comment at line 432 is there to
  prevent.
* `engine.rs:694`: a text sent while a paddle's element is on the air, or a
  paddle pressed just after a text's element, is keyed with no gap.
  `engine.rs:220`: so is a text queued behind another, as `send_text` appends
  its elements and no text ends with a gap of letters. `TextsAreKeyed` takes
  the texts as they are sent.
* `engine.rs:192`: `set_paddle` latches memories in every mode, the straight
  key's too, and `update_config` clears none: a press there can key an element
  after a change to an iambic mode, in the middle of a text if one is under way.
* `engine.rs:287`: gaps of a text always start afresh, their residual is not
  carried.
* `handle.rs:61`: `update_config` and `send_macro` drop what finds the command
  channel full. `handle.rs:140`: a stop under a keyed element sends no `KeyUp`;
  the consumer is left with key and PTT on.
* `handle.rs:197`: an event that finds the output channel full is dropped, a
  `KeyUp` too, and nothing tells the consumer of it.
* `config.rs:108` says of the timing percentage "Only affects `IambicB` mode";
  Ultimatic uses it too.
* `morse.rs:87` promises "No trailing gaps"; the word gap of a blank at the end
  of a text stays.

*Inputs.*

* `midi_native.rs:108` (and its Android fellows) take the generation seen when
  the wait is entered: a change between two waits is slept through until the
  timeout.
* `midi_android.rs:378`: a flush message ends the poll thread like an error;
  the comment says "Negative return". A poll thread that is dead leaves the last
  state standing, a paddle held down included.
* The serial `sample()` reads its pins one after the other; `mod.rs:54` has a
  paddle state "at a point in time".
* `merged.rs:73`: the latest source's state replaces the merged one. A paddle
  held on one source is lost when another moves.
* `merged.rs:15`: "the keyer reads the authoritative snapshot via `read()`"; it
  never calls it, and takes what the wait returns.
* `midi.rs:20` and `:24` reject shorter messages "always"; one byte of a note-on
  or note-off is accepted. `midi.rs:136`: "Deduplicates by `(kind, number)`";
  the code compares the channel too.

*Decoder.*

* `LOOKUP` lacks `' ! ( ) & : ; + - _ " $ @`, which the keyer sends: nothing is
  shown for them.
* `lib.rs:57` says of `space_emitted` "Cleared on the next key-down"; it is
  cleared at key-up (`MutantOnTransition` shows why that matters). `lib.rs:170`:
  it is the eighth element that empties the accumulator.
* A weight below 25 makes dashes too short for the threshold, a large
  compensation makes dits too long, a Farnsworth gap between letters of six dits
  or more is a space: `Readable` leaves these out.

*Client and radio.*

* `protocol1.rs:341`: the guard against padded voice packets
  counts received samples per packet, which with two DDCs is 72 where 126 are
  sent.
* `protocol1.rs:252` says of the command channel "The run() loop polls this
  channel"; a second `run()` on the same client does not, as the first one took
  the receiver (`commands` in `Run`).
* `protocol1.rs:455`: `run()` ends on silence or a failed send with `running`
  set and without a stop to the radio: one that still hears the host, or comes
  back, stays keyed. The ring of samples is not emptied when PTT goes off (only
  the buffer is), so the next transmission begins with the end of the last.
* `protocol1.rs:934` says of a status "every emitted RadioStatus has fwd, rev,
  supply, etc. all sampled from the same rotation". A lost packet, or a stop and
  a start in the middle of a round (neither resets `last_status_addr`), makes
  one that mixes two. `StatusOfOneRound` says how soon that is over. PTT in it
  is always that of the round after.
* `protocol1.rs:887`: `rx_seq` is the number expected, so the difference is the
  number of packets lost, but the code warns from two on and reports one less:
  a single loss goes unsaid (`src/protocol.md:248`: "Packet loss can be detected
  by gaps in sequence numbers").
* With eight DDCs `send_config` sends the last frequency to address 0x12, the
  drive (`protocol1.rs:580`); the rotation puts it right. `nddc` above 8 wraps
  in three bits.

*Emulator.*

* `radio.rs:436`: the end of a client's old task removes the write offset of its
  new one, whose samples are then dropped.
* `radio.rs:181` says of a transmitter overtaken by the front that the late
  slice is dropped; it is written at the front.
* `radio.rs:689` has all clients on one timeline; a reader that tuned away or
  fell behind stays late for the rest of the epoch.

## 6. Assumptions worth knowing

* Properties under `~LiveModeChange` fail if the host changes modes in the
  middle of an element; `mode_stuck` shows one such failure.
* `KeyerEngine` takes durations as they come: positive, with a hang time of at
  least `HANG`, as the clamps in `config.rs` make them. `KeyerTiming` computes
  them, in integers where the code truncates quotients of `f64`.
* `KeyerThread` has a paddle input that may show anything at any time;
  `PaddleInput` has a keyer thread that only waits, stops and joins. Each stands
  for the other at the condition variable between them.
* The radio of `P1Transmit` and `P1Receive` is the emulator: its registers, its
  defaults, its answer to a second start, its rotation of readings. A real
  radio may differ.
* `P1Receive` has one DDC, subscribed to. While host and radio disagree about the
  number of DDCs the client reads samples from the wrong places.
* The producer of samples only adds to the ring, so what the guard of `run()`
  saw is still there when the packet is packed; `SendHostData` is one step.
* `AllReleased` supposes that every client says stop: the server has no timeout
  for one that vanishes (`radio-utils-emu/src/protocol1.rs:583`).

## 7. What could be added

1. In `P1Receive`, the number of DDCs: how long after `SetNddc` samples are read
   wrongly.
2. Loop playback and MIDI learn, if they come to hold more than a cursor and a
   list.
