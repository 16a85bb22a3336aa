# TLA+ verification of pipecat-esp32-xvf3800

The firmware turns an ESP32-S3 with an XVF3800 microphone array into a voice
client: it offers a WebRTC connection to a Pipecat SmallWebRTC server over
HTTP, streams Opus both ways, shows the conversation on an LED ring and updates
itself over HTTP. These modules describe the part that is hardest to get right
and hardest to test on a bench: how the audio of a lossy network becomes an
unbroken row of 20 ms slots, how those slots pass through a lock-free ring
to the loudspeaker, how the device finds its server, notices its loss and comes
back, how a server's messages reach it through a small SCTP of its own, and how
it replaces its firmware without ever being left without one. Paths below are relative to the repository root as it is
named in `PROJECT.json` (`src/` is the repository, so the firmware's own
directory is `src/src/`).

- `PROJECT.json` lists the components, the runs, the mutants, the source lines
  each definition stands for, the findings, the hazards and the theorems.
- Parse a module with `tlasany M.tla`, check a run with
  `tlc -config X.cfg M`, check the proofs with `tlapm M.tla` of the eight modules
  in section 4.

## 1. The system

| Component | State it keeps | Operations | Talks to |
| --- | --- | --- | --- |
| RTP sequence tracking, `components/peer/rtp_sequence.c` | last sequence number, timestamp, SSRC | `rtp_sequence_init`, `rtp_sequence_update` | called by `rtp_decode_generic` |
| RED depacketizer, `red_unwrap.c` | none | `red_unwrap`, `red_validate_timestamp_advance`, `red_recover_plan` | called by `rtp_decode_generic` |
| RTP audio decoding, `rtp.c` | the sequence record, statistics | `rtp_decoder_init`, `rtp_decode_generic` | called by `peer_connection_loop`, calls `on_packet` once per slot |
| Decode ladder, `src/decode_ladder.c` | `pending_gaps` | `dl_init`, `dl_on_gap`, `dl_on_frame` | called by the Opus callback; `dl_init` also from the RTVI task |
| Opus decoding callback, `src/media.cpp` | the Opus decoder, the ladder, statistics | `pipecat_audio_decode`, `queue_decode_gap`, `pipecat_reset_audio_decoder` | decodes into the playback ring |
| Playback ring and task, `src/media.cpp` | `play_ring`, its two counters, `is_playing`, `silence_count` | push, self-test push, pop, prebuffer, underrun | WebRTC thread, HTTP task, playback task, RTVI task |
| Prebuffer controller, `src/prebuffer_ctl.c` | steps, window, pending drain | `pbc_*` | called by the playback task; base set over HTTP |
| Peer connection and ICE, `peer_connection.c`, libpeer | connection state, candidate pairs, binding times | `peer_connection_loop`, offer/answer, callbacks | main loop, SRTP, SCTP |
| Main loop and WebRTC glue, `src/main.cpp`, `src/webrtc.cpp` | connected flag, watchdog ticks | boot, loop, state-change callback, restart | everything |
| RTVI messages, `src/rtvi.cpp` | a queue of 10 messages | enqueue on the WebRTC thread, handle on a task | data channel, decoder reset, LEDs |
| OTA, `src/ota.cpp` | slots, boot partition, saved hash, validation flag | upload, status, rollback, validation watchdog | HTTP, main loop, flash |
| Wi-Fi, `src/wifi.cpp` | retry counter, event group | connect, event handler | boot sequence |
| HTTP signalling, `src/http.cpp` | none | one blocking offer/answer request | peer connection |
| LED ring, `src/media.cpp` | phase and its time, beam telemetry | set phase, render | RTVI, OTA, playback |
| Capture, DSP, XVF3800 control | filters, I2C registers | numeric | I2S, I2C |
| SCTP data channel, `libpeer/src/sctp.c` | connected flag, TSN, one packet buffer | create association, incoming, outgoing | WebRTC thread, RTVI task, DTLS |
| DTLS-SRTP | vendored | | peer connection |

How they interact on the downlink:

```
network -> peer_connection_loop -> rtp_decode_generic -> on_packet per slot
           (SSRC filter)           (sequence, RED)            |
                                                   pipecat_audio_decode
                                                   (decode ladder, Opus)
                                                              |  WebRTC thread
   HTTP self-test ---------------> play_ring <----------------+
                                      |
                          pipecat_playback_task (prebuffer) -> I2S
   RTVI bot-started-speaking -> pipecat_reset_audio_decoder (reads the ring,
                                resets Opus and the ladder)
```

on the data channel:

```
server <-> DTLS <-> sctp_incoming_data -> onmessage -> rtvi_queue -> rtvi_task
                    (sctp->buf)           WebRTC thread     |        |  |  |
                         ^                                  10       |  |  LED phase
                         +---- sctp_outgoing_data <---- pong --------+  decoder reset
```

and in an update:

```
POST /ota/upload -> HTTP task -> other slot -> NVS (hash, label) -> otadata -> reboot
bootloader -> app_main: Wi-Fi, HTTP server, watchdog task, offer, main loop
                                   |                         |
                        deadline: roll back      healthy: mark valid
```

### What is hard about it, and what makes it correct

- *RTP, RED and the ladder.* Loss, duplication and reordering, 16-bit sequence
  wrap, 32-bit timestamp wrap, jumps too long to conceal, malformed RED, packets
  of another duration and a ladder at its cap come in every mixture. Correct
  means: one decode operation per slot, in the sender's order, real audio only
  in its own slot, a usable copy never wasted, and FEC data only for the slot
  it belongs to.
- *The playback ring.* Four tasks touch two counters and no lock; free-running
  counters wrap at another point than the ring. Correct means: frames leave as
  they came in, the diagnosis counters mean what they say, the decoder reset
  does not overtake audio, no reply is kept back.
- *The prebuffer controller.* Wrapping milliseconds, wrapping totals and a base
  that changes under it. Correct means: the depth stays in its bounds, each
  counted step is a real one, growth and decay follow what really happened in
  the last window, each drain gets one verdict.
- *The connection.* The watchdog of the main loop, the connectivity checks of
  each pair and the keepalive each own a part of the connection's life; the
  server may die, come back and forget in any of them, on a wrapping clock.
  Correct means: there is no state the device stays in without a server, none
  it leaves with one, and a pair that works is found.
- *The data channel.* Two threads build packets in one buffer without a lock; the
  device sends everything once, acknowledges whatever comes as if nothing were
  missing, and stops reading while its queue is full. Correct means: what is
  acknowledged was handed on or overtaken, a packet nobody interfered with is
  whole, the channel opens unless the network eats the one packet that matters,
  the last message gets through.
- *RTVI messages.* A queue whose sender is the thread that decodes the audio,
  and a decoder reset on the other thread. Correct means: the wait ends, messages
  are carried out once and in order, the ladder never holds a part of what a reset
  was to drop.
- *Updates.* Power failure between any two steps of upload, hash, boot slot,
  reboot and validation; a watchdog that may roll back while the main task
  validates; an HTTP server that serves before the trial is over. Correct means:
  there is always an image to boot and one to fall back to, an unproven image
  is on trial, a trial ends, the status names what runs.
- *Wi-Fi and LEDs.* A retry counter that is never reset, and a torn pair of
  atomics over a wrapping clock.

## 2. Modules

| Module | What it is |
| --- | --- |
| `RtpSequence` | `rtp_sequence.c` as operators over the record it keeps |
| `RedUnwrap` | `red_unwrap.c` over the chain of block headers |
| `DecodeLadder` | `decode_ladder.c` over `pending_gaps` |
| `Downlink` | composes the three with `rtp_decode_generic`, the SSRC filter of `peer_connection_loop` and `pipecat_audio_decode` |
| `DownlinkProps` | the downlink's properties |
| `MCDownlink` | the packets TLC uses |
| `ArithmeticLemmas`, `DownlinkProofs` | the proofs |
| `PlayRing`, `PlayRingProps`, `MCPlayRing` | the ring, its four tasks, their properties, and the workloads TLC uses |
| `Prebuffer`, `PrebufferProps` | the prebuffer controller in the turns of the playback task |
| `Connection`, `ConnectionProps` | boot, offer, checks, handshake, keepalive and watchdog, with the server and the network as environment |
| `Update`, `UpdateProps` | boot order, Wi-Fi events, upload, trial, rollback and watchdog over power cuts |
| `ServerCommands` | abstract: what a server may rely on once its message is taken |
| `Rtvi`, `RtviProps` | the RTVI queue, its task and the decode ladder between the two threads; implements `ServerCommands` |
| `DataChannel`, `DataChannelProps` | SCTP, its callbacks and the pong, with the network and the server as environment; composes `ServerCommands` as its inbox |
| `LedRing`, `LedRingProps` | the phase of the LED ring and its time |
| `PrebufferProofs`, `ConnectionProofs`, `UpdateProofs`, `RtviProofs`, `DataChannelProofs`, `MediaProofs` | the proofs about them; `MediaProofs` has the playback ring and the LED ring, the shared state of `media.cpp` |

How they compose: `RtpSequence`, `RedUnwrap` and `DecodeLadder` are operators of
`Downlink`; `DecodeLadder` is also the ladder of `Rtvi`, where the reset races with
it. A server's message takes the way `DataChannel` - `ServerCommands` - `Rtvi` -
`LedRing`: `DataChannel` has the network and the two threads' buffer and takes the
queue behind it to be `ServerCommands`, with a bound; `Rtvi` shows that queue, task
and callbacks are that (`ImplementsServerCommands`); the phase it stores is the one
`LedRing` reads. The reset `Rtvi` makes is guarded in `PlayRing`. `LoseConnection` of
`Update` is what `Connection` says when it happens.

### Downlink

The WebRTC thread handles a packet in one call of `peer_connection_loop`; the
callbacks it makes are the entries of `todo`, made one by one before the next
packet is taken, because another task (the decoder reset) can run in between.

| Model | Code |
| --- | --- |
| `sequence` | `rtp_decoder->sequence` |
| `pending` | `s_decode_ladder.pending_gaps` |
| `todo` | the `on_packet` calls `rtp_decode_generic` still has to make |
| `ReceiveOtherStream` | `peer_connection_loop`: the SSRC is not the one of the answer |
| `ReceiveLate` | `RTP_SEQUENCE_LATE_OR_DUPLICATE`, an early return |
| `ReceiveAccepted` | first, next, gap, long jump: sequence accepted, callbacks laid out |
| `DeferSlot`, `ConcealAtOnce` | `queue_decode_gap` with and without room in the ladder |
| `DecodeFrame` | `pipecat_audio_decode` with exactly one 20 ms frame: the ladder's operations |
| `ResetDecoder` | `dl_init` from the RTVI task |

A packet carries its true index and its true time. The device only sees them
modulo `SeqSpace` and `TsMod`; the true values are for the ghosts `newest`,
`gaps`, `played`, `owed` and `out`, which say which slot of the sender's stream
each decode operation stands for. A packet never delivered was lost, one taken
twice was duplicated, any order is a reordering. A slot's `due` time is the time
its packet has if the sender kept the 20 ms cadence.

A payload is abstracted to what the parser tells apart: the list of redundant
headers (type, offset, length), the type of the final header, the bytes behind
the headers, and whether each block is exactly one 20 ms Opus frame (Opus is
outside the model: `opus_packet_get_nb_samples` and `opus_decode` are facts
about a payload, and an error of `opus_decode` on a frame of valid length is not
modelled). `FinalCut` stands for a buffer that ends within the headers.

The guard of `pipecat_reset_audio_decoder` reads the playback ring, which this
module does not have, so `ResetDecoder` may happen at any time: more behaviours
than the code has. Its race with the inside of `dl_on_gap` and `dl_on_frame` is
in `Rtvi`.

`InReorderWindow` is the one assumption on the network: a packet is less than
half the sequence space from the newest accepted one, and its time less than
one timestamp wrap. In the code that is 32768 packets (11 minutes) and 2^32
ticks (24 hours). It is not a bound for TLC, it is what makes a 16-bit
comparison meaningful at all, and `ArrivalOrderDecided` shows it is enough.

### PlayRing

A step is one load or store of a shared counter or the access of one sample.
The tasks' locals are `pc`, `head`, `tail` (the counters as loaded), `push`
and `pop_buf`. `+=` on a `volatile` counter is a load and a store.

| Model | Code |
| --- | --- |
| `LoadHead`, `LoadTail` | the two loads of `play_ring_count`, in either order, since C++ leaves it open |
| `DecodedFrame` | `update_is_playing` and the gate in front of the push |
| `PushFits`, `PushOverruns`, `DropOldest` | the free-space test of `push_decoded_to_ring`; an overrun moves the *tail* |
| `WriteSample`, `LoadForPublish`, `Publish` | copy, barrier, `play_ring_head += n` |
| `RequestClip`, `ClipWaits`, `ClipFits` | `pipecat_play_selftest_clip` |
| `Prebuffer`, `Underrun`, `StartPop` | one poll of `pipecat_playback_task` |
| `PopSample`, `LoadForPop`, `ReleaseFrame` | the pop and the write to the I2S |
| `BotStartedSpeaking`, `GuardRing`, `GuardPlaying`, `ResetDecoder` | `pipecat_reset_audio_decoder` on the RTVI task |

Memory is sequentially consistent: the barriers of the code are where the order
of samples and counters matters. A sample is known by its producer, its position
and whether it is audible. The prebuffer threshold is any of `Thresholds`, at
every poll anew: the HTTP setting and the controller may both change it.
Frames are of 320 samples at 16 kHz; the conversion to the I2S format and the
write come after the pop and have no state of their own. `Workloads` bounds the
inputs of one behaviour (frames, clips, resets); the set has one entry for each
question, so that one run asks all of them.

### Prebuffer

All state is local to the playback task, so a turn of its loop is a step
(`Wait`, `Refill`, `PartialFrame`, `FullDrain`), and what it polls, the base,
the recovery total and the clock, changes arbitrarily between two turns. The
compile-time switch `PIPECAT_ADAPTIVE_PREBUFFER` is the field `adaptive`, as in
the code; both builds are initial states. The ghosts `recent`, `quiet` and
`drained` are histories in time that does not wrap; `recent` is how long ago each of
the last `PBC_RATE_THRESHOLD` recoveries was seen; `drained` stops at `ClockMod`, when
the clock has come round since the drain (49 days) and the code, which keeps one
wrapped time of it, cannot know its age any more. Two polls are taken not to be a
whole turn of the clock apart, less the window (`PrebufferAssumption`): after such a
pause an old window would look young.

### Connection

One task runs everything: a step is the offer of a boot or one turn of the main
loop, `peer_connection_loop` and then the watchdog. The state-change callbacks
are calls within the turn, so they are part of its action; those of `FAILED` and
`CLOSED` end in `esp_restart`, which does not return.

| Model | Code |
| --- | --- |
| `dev.state` | `pc->state`; `FAILED` and `CLOSED` are never seen, the callback restarts |
| `dev.pairs`, `dev.nominated` | `agent->candidate_pairs` (state, `conncheck`), `nominated_pair` |
| `dev.connected`, `dev.ticks` | `pipecat_webrtc_connected`, `ticks_since_boot` |
| `dev.binding_request_time` | the same, 0 after `calloc` |
| `OfferAnswered`, `OfferUnanswered` | `pipecat_init_webrtc` down to `pipecat_http_request` and `peer_connection_set_remote_description`, within the boot |
| `NewTurn`, `ChecksFail`, `CheckPair`, `Handshake`, `CompletedTurn` | the cases of `peer_connection_loop`, each with the calls it makes |
| `EndOfTurn`, `WatchdogFires` | the rest of the turn in `app_main` |
| `esp_restart` | RAM is lost, the clock is not (`gettimeofday` outlives a software reset) |
| `ServerRequest`, `ServerStops`, `ServerStarts`, `LoseDatagram` | the server and the network, external |

What the data is abstracted to:

- A pair is usable or not (`reach`, fixed for a behaviour). An answer yields
  `NPairs` pairs or, with no candidate of a known family, none.
- A datagram is a binding request or a binding response that passes the
  integrity check of this boot's credentials. Others are ignored by the code.
  A response does not name its pair: `agent_process_stun_response` compares no
  transaction, it credits `nominated_pair`. Duplicates are not kept apart; a
  second response finds the checks over, a second request counts when it is
  taken.
- A DTLS handshake is one call that ends within a turn, with the keys or with an
  error after `CONFIG_TLS_READ_TIMEOUT` attempts to read; it handles the STUN
  datagrams that arrive in between.
- Time is part of a turn: at most one unit passes in it. A turn shorter than a
  unit lets none pass. `quiet` is the same time without the wrap, as far as the
  timeout needs it, and starts at `Never`: `binding_request_time` 0 is no
  request.
- Boot failures before the offer (out of memory, a chunked answer, which is not
  supported) restart the device as it was, so they are a stutter.

### Update

Two slots, the state otadata has of each, the slot it was last told to boot, and
NVS are flash; everything else is RAM and lost in `Restart`. The bootloader and
`esp_ota_*` are external and modelled from how ESP-IDF documents them with
`CONFIG_BOOTLOADER_APP_ROLLBACK_ENABLE`: a new image is booted once as
`PENDING_VERIFY`, a second boot before it is marked valid aborts it, rejected
entries are passed over, an image that does not verify gives way to the other one.
An image is its own hash; images differ in whether they can join the access point
and whether they find the XVF3800.

| Model | Code |
| --- | --- |
| `JoinSucceeds`, `Disconnected` | `pipecat_event_handler` |
| `pipecat_init_wifi`, `pipecat_start_ota_validation_watchdog` | the same, in the order of `app_main`; mDNS and the HTTP server start in between |
| `Validated`, `ValidatedUnread`, `StartMarking`, `Unhealthy`, `MarkValid`, `MarkFails` | `pipecat_validate_ota_if_healthy`, with the health check and `esp_ota_mark_app_valid_cancel_rollback` as two steps, since other tasks run between |
| `WatchdogReads`, `WatchdogRollsBack`, `WatchdogRefused`, `WatchdogFails` | `ota_validation_watchdog_task`, its tests and its rollback as two steps; a refused or failed rollback is not looked at, and the task is over |
| `StateUnread` | `get_running_ota_state`, when otadata cannot be read: the state is taken for `UNDEFINED` |
| `BeginUpload`, `UploadFails`, `esp_ota_end`, `SaveSha`, `SaveLabel`, `SaveFails`, `esp_ota_set_boot_partition` | `ota_upload_handler`, one step for each effect on flash |
| `RebootTask`, `Rollback`, `ReportedSha` | `reboot_task`, `ota_rollback_handler`, `ota_status_handler` |

The watchdog's deadline may pass at any time: `OTA_ROLLBACK_TIMEOUT_MS` is long and
nothing relates it to the other tasks. The HTTP server has one task, so a handler
runs to its end before the next one, but the server still takes requests in the
second before the reboot. `proven`, `stray` and `unsaved` are ghosts: slots
whose image passed the check there, slots written since otadata last spoke of
them, and a hash that was not, or only half, saved.

`Fault` is one error of flash or memory, of those that can defeat a trial: a state
that cannot be read (when the watchdog is to be started, in any turn of the main
loop, at the watchdog's deadline), a watchdog task that cannot be created, a rollback
that cannot be written. `faults` counts them up to `MaxFaults`. Other errors have
actions of their own and no bound: `MarkFails`, `UploadFails`, `SaveFails`, a reboot
task that is not created. A write that fails leaves otadata as it was (it keeps two
copies), and the state that `esp_ota_begin` and the bootloader read for themselves is
taken to be the true one.

### Rtvi and ServerCommands

Steps are the loads and stores of `pending_gaps` and the operations on the queue.
`dl_on_gap` and `dl_on_frame` are a load and a store each: the loop of
`dl_on_frame` keeps its count in a register in the optimised build. The reset is
one store between them. What becomes of the pong is `DataChannel`'s; the guard
of the reset is `PlayRing`'s and free here; that Opus' own state is reset while it
decodes is not modelled (a data race on memory the models do not have).

### LedRing

Every load and store of the two atomics is a step, and so is every reading of the
clock. `Show` is the rest of the tick: the load of the time, the comparison and
the store of the state, which only this task has.

### DataChannel

The build has no usrsctp, so `sctp.c` is what runs: an association without timers,
without reordering and without retransmission. A packet has one chunk and a
message fits one packet, as with the messages this server sends. Both threads
build packets in `sctp->buf` in the steps `Compose` (the body, and no checksum),
`Sealed` (the checksum over what is there, of a length its thread knows) and
`Written` (what is there goes out). The server, an SCTP of the RFC, only takes
a packet whose checksum and length fit (`Whole`); a chunk of which a part was
overwritten while it was built is a packet it drops.

| Model | Code |
| --- | --- |
| `Receive` | `sctp_incoming_data` up to the callback: `memset`, the answer's chunk, `connected` |
| `Deliver` | `onmessage`, down to `xQueueSend`, which blocks; the acknowledgement is composed before it and sent after |
| `Open`, `SealOpen`, `WriteOpen` | `onopen`: `DATA_CHANNEL_OPEN` is built over the answer that waits in the buffer |
| `Seal`, `Write` | the header, the checksum and the write at the end of `sctp_incoming_data` |
| `ComposePong`, `SealPong`, `WritePong`, `HandleSilently` | the RTVI task: `sctp_outgoing_data` of a pong, or none |
| `initiates` | whether the server opens the association, which it does if the device's `INIT` is lost |

The TSN counter that both threads increment (`sctp->tsn++`) and the record layer,
which both call without a lock, are not modelled.

## 3. Runs

| Run | Shows |
| --- | --- |
| `downlink` | slots, order, fit, use of copies and FEC, over every loss, duplication and reordering of a stream that wraps sequence numbers and timestamps |
| `ring` | the ring at every interleaving: streamed audio with overruns, wraps and thresholds that change; self-test clips longer than the ring; bot-started-speaking at any point of a stream |
| `prebuffer` | the controller in both builds |
| `connection` | boot to boot over every death and return of the server, with lost and late datagrams, clock wraps and every set of usable pairs; safety and liveness |
| `update` | uploads of images that work, that lack the microphone array, that cannot join, over a power cut anywhere, a change of the access point and two errors; safety, and the end of every trial or the error that prevents it |
| `rtvi` | the queue and the ladder between two threads, and the refinement of `ServerCommands` |
| `led` | the phase and its time over a wrapping clock |
| `datachannel` | association, channel and messages over loss and reordering, opened by either side; safety and liveness |
| `ring_tail`, `connection_dead_server`, `wifi_gives_up`, `sctp_ordered` | findings, see 6 |

`CHECK_DEADLOCK FALSE` in the runs of the downlink, the ring, the update and the data
channel: the inputs are finite (packets come to an end of the index range, frames,
clips, resets, uploads and messages are counted), so the models do stop. In the update
a device without Wi-Fi does, too. `prebuffer`, `rtvi`, `led` and `connection` are
checked for deadlock.

Properties of `downlink`:

- `TypeOK`, with the ladder's cap; `OneOperationPerSlot`: a signalled slot is
  decoded once, deferred, or still to come, and a reset gives up just the
  deferred ones;
- `TimelineInOrder`, `OutputInOrder`: the Opus decoder is driven in the
  sender's order;
- `FramesInTheirSlots`: audio decoded as real is the audio of its slot;
- `ArrivalOrderDecided`: the 16-bit comparison agrees with the true order;
- `FecFromNextOrAfterJump`: FEC data is that of the next slot, or comes from
  behind a jump too long to conceal, and never of a neighbour a few slots off;
- `CopiesAreUsed` (action property): a missing slot with a usable copy is
  played from it.

Properties of the ring:

- `FramesIntact`: with one producer and without overruns, what is played is what
  was pushed, once and in order. The conditions are needed: finding 1 and the
  note on the self-test below show what happens outside them;
- `UnderrunMeansOverrun`: on streamed audio a partial frame is only ever left
  by an overrun, so `underruns` does not count starvation;
- `AudibleBehindSilence`: when the silence gate has closed, what is still audible in
  the ring has behind it all the silence the gate lets through (380 ms), after
  underruns and overruns too. So a threshold up to that never withholds the end of a
  reply; a higher one, which the run has as well and HTTP accepts, does (see 6);
- `ResetAfterEarlierAudio`: the reset never overtakes published audio.

Properties of the controller: `DepthInBounds`, `StepsChangeDepth`,
`GrowsAfterBurst`, `DecaysAfterQuiet`, and `OneVerdictPerDrain`: a drain is classified
at most once, and as a gap if and only if the refill is within the window, unless the
clock has come round since. A drain that outlasts the clock is in the run, and the
property says nothing of its verdict: the code's is then that of the remainder.

Properties of the connection:

- `PairBudget`: while pairs are checked, the watchdog's count is the number of
  checks of all pairs so far. Two files count turns and have to agree on them;
- `ClosedOnlyWhenSilent`, `SilentPeerIsClosed` (action properties): the keepalive
  closes the peer when the server was silent for the timeout, not later, and
  otherwise only when the clock wraps below the last request;
- `NeverIdle`: what is not connected restarts, whatever keeps it from connecting;
- `LostServerIsNoticed`: a completed connection whose server is gone restarts;
- `Heals`: with a server that stays up and a usable pair the watchdog leaves time
  for, the device is completed again and again, or for good, unless it is caught
  in a handshake (finding 2).

Properties of the update:

- `NeverBricked`: whenever power fails the bootloader finds an image, also in the
  middle of a second upload while the reboot into the first is pending;
- `UnprovenOnTrial`: what did not pass the health check in its slot is on trial,
  but for a slot filled and never switched to (`stray`; see 6);
- `FallbackKept`: during a trial the other slot can be booted. `esp_ota_begin` refuses
  an upload then; the handler does not check it itself;
- `MarksWhatRuns`: marking valid acts on otadata's preferred entry, which is the
  running slot whenever the main task marks;
- `ShaNamesRunning`: the status names the image that runs, over failed uploads,
  rollbacks and cuts, unless hash and label were not both saved;
- `TrialEnds` (liveness): a trial that reaches the main loop ends: for a healthy image
  whatever fails, for an unhealthy one unless an error left nobody to roll it back
  (`Abandoned`). The watchdog is not created, does not learn the state, or cannot write
  the rollback; or a turn of the main loop cannot read the state, which sets
  `g_validation_confirmed`, and the watchdog takes its own trial for confirmed. Each of
  the four is needed: without any one of them TLC finds the image that stays on trial.
  With `MaxFaults` 0 every trial ends.

Properties of the data channel and what is behind it:

- `LostOnlyByOvertaking`: a message the server takes for received was handed on, or
  a later one was;
- `WholeUnlessShared`: a packet goes out as built unless the other thread was in the
  buffer; the first `COOKIE_ACK` never does;
- `ChannelOpens` (liveness): the channel opens unless a packet sent once was lost;
  an association the server opens forms whatever is lost;
- `SentIsDelivered` (liveness): the server's last message gets through, over losses
  and over acknowledgements spoilt by pongs;
- `MainThreadReturns` (liveness): a full queue does not hold the WebRTC thread for
  good; `ImplementsServerCommands`: the refinement, with its liveness;
- `ResetTakesOrIsUndone`: whatever the interleaving, the ladder holds the slots
  deferred since the reset, and of those before it all (a deferral overtook the
  reset) or none;
- `QuietTickIsRight` (action property): a tick during which no phase is set shows the
  phase exactly while it is fresh.

The type invariants of `Update`, `Rtvi`, `LedRing` and `DataChannel` are proved (see 4)
and are part of the inductive invariants there; no run repeats them.

### Bounds

| Constant | Code | Runs | Why it is enough |
| --- | --- | --- | --- |
| `Half` | 32768 | 5 | `SeqSpace` 10 < `MaxIdx` 12, so the numbers wrap; 5 > `RED_MAX_GAP` + 1, so jumps too long to conceal exist; the theorems hold for every value |
| `TsMod`, `TS_STEP` | 2^32, 960 | 16, 2 | wraps within the stream; a step of 2 leaves offsets off the grid |
| `RED_MAX_BLOCKS`, `RED_MAX_GAP`, `MAX_TS_OFFSET` | 4, 16, 0x3FFF | 2, 3, 7 | gaps longer than the copies; offsets at and beyond the largest |
| `DL_MAX_PENDING_GAPS` | 16 | 3 | equal to `RED_MAX_GAP`, as in the code; filled within the stream |
| `Skews` | | 0, 1, 2 | a clock that jumps by part of a step and by a whole one |
| `PLAY_RING_SAMPLES`, `PCM_SAMPLES_PER_FRAME` | 32768, 320 | 7, 2 | as in the code a frame does not divide the ring, so frames straddle its end; overruns after three frames. The code's mask is a remainder in the model, so a size that is no power of two serves as well |
| `CounterMod` | 2^32 | 14 | counters wrap with the seventh frame and in the second clip; a multiple of the ring, which is what the power of two gives the code |
| `Thresholds` | 320..16000 | 2, 7 | one frame, and more than the gate's silence (4 samples here), so that the end of a reply is withheld |
| `PLAYBACK_SILENCE_FRAMES` | 20 | 3 | silence before, at and after the limit |
| `ClipSamples` | 124007 | 9 | longer than the ring, not a multiple of a frame |
| `Workloads` | | 7 frames; 2 clips; 4 frames and a reset | replies with their silence and the start of the next one, with overruns between them; a clip after a clip; a reset before, in and after a reply |
| `PBC_*` | 40, 40, 160, 10 s, 5, 30 s | 4, 4, 12, 3, 2, 5 | two steps above the lowest base; several windows in a quiet time |
| `ClockMod`, `TotalMod` | 2^32 | 8, 3 | wrap many times; the clock starts at 0 or about to wrap |
| `Bases` | 20..1000 | 2, 10 | below the minimum, and where a whole step exceeds the maximum |
| `NPairs` | up to 100 | 3 | one pair more than the watchdog leaves time for |
| `AGENT_CONNCHECK_MAX`, `AGENT_CONNCHECK_PERIOD` | 1000, 100 | 3, 2 | a probe at the first check and a later one, and checks without |
| `connect_deadline_ticks` | 2000 | 6 | twice the checks of a pair, as in the code |
| `KEEPALIVE_TIMEOUT`, `ClockMod` | 30 s, 2^32 ms | 2, 5 | the clock wraps between, within and after the timeout |
| `Images` | | good, sick, deaf | one that proves itself, one that joins and does not, one that never gets as far as the watchdog; the factory image is good |
| `MAX_RETRY` | 5 | 1 | a retry that succeeds, one that is the last |
| `MaxUploads` | | 3 | an update, its replacement, and an upload in the reboot of that |
| `MaxCuts`, `MaxApChanges` | | 1, 1 (0 and 2 in `wifi_gives_up`) | a cut between any two steps; the theorems hold for any number |
| `MaxFaults` | | 2 (0 in `wifi_gives_up`) | one error defeats a trial, a second one comes in the trial of the next image or on top of it; the theorems hold for any number |
| `QueueSize` | 10 | 3 in `rtvi`, 1 in `datachannel` | a queue that is empty, partly full and full; in the data channel a full queue blocks after two messages |
| `DL_MAX_PENDING_GAPS` | 16 | 3 in `rtvi` | a deferral below and at the cap on both sides of a reset |
| `Message` | | three kinds | one with a reset and a phase, one with a phase, one with neither |
| `ClockSpan`, `LED_PHASE_TTL_MS` | 2^32, 30000 | 6, 2 | the clock wraps while a phase is fresh and after |
| `MaxMessages`, `MaxInFlight` | | 2, 2 | one message overtakes another; the device's packets are reordered |

With the real geometry (a ring of 102 frames) the tail cannot be pushed past the
head by racing overruns within a few steps, as it can with a ring of three frames.
Every property that could tell the two apart is conditional on no overrun.

### Fairness

The downlink, the ring, the controller and the LED ring claim no liveness, so their
specifications state no fairness. The one liveness hazard there, audio that is
never played, is stated as the safety property `AudibleBehindSilence`: it looks at
the states in which nothing but new input can move the audio on.

`Connection` assumes

- weak fairness of the offer and of a turn of the main loop in which time passes:
  the loop is one task, every call in it has a timeout (`HTTP_TIMEOUT_MS`,
  `AGENT_POLL_TIMEOUT`, `CONFIG_TLS_READ_TIMEOUT`) and each turn ends in
  `vTaskDelay`;
- strong fairness of what needs the network: an answer to the offer, an answered
  probe, a response that is received, a handshake that ends. This is the
  fair-lossy network: what is tried again and again succeeds at some time.
  It is only enabled with the server up and the pair usable, and `Heals` alone
  needs it.

Nothing is assumed of the server: it need not send, start or stop.

`Update` assumes weak fairness of the tasks, the bootloader and the Wi-Fi events, and
strong fairness of `MarkValid`: a write to otadata that is tried again in every turn
succeeds at some time. Power, clients and the access point may do as they like, an
error need neither come nor be spared, and a connection may stay up for ever: finding 2
is one that does with nobody at the other end. `wifi_gives_up` is checked under
`SpecLossNoticed`, which adds that a connection whose link is down does end: what it
finds is the boot that waits, not a loss nobody noticed.

`Rtvi` assumes weak fairness of the RTVI task's steps and of the queue's hand-over to
a waiting sender (FreeRTOS wakes the sender when there is room). The server need not
send.

`DataChannel` assumes weak fairness of both threads, of arrival at the server and of
the server's retransmissions (its association and its last message), and strong
fairness, the fair-lossy network, of what is sent again and again: a retransmitted
message or handshake packet is received at some time, and so is one of the
device's answers. Nothing of the kind is assumed of what the device sends once, which
is why `ChannelOpens` has `setupLost`.

### Mutants

Every property of a passing run has a mutant: an operator in the module of the
definition, marked *Mutant*, that says what a plausible bug in the code would
(the missing cast to `int16_t`, an off-by-one of the ladder's cap, the oldest
copy taken for the newest, an upload taken during a trial, the LED's time
compared with a deadline, ...).
Putting it in the place of the definition makes TLC find the property violated.

## 4. Proofs

`DownlinkProofs` proves about `Downlink`, for every size of the number spaces,
every cap, every gap limit and every set of packets:

| Theorem | Property |
| --- | --- |
| `Invariance` | `Spec => []IInv` |
| `TypeCorrect` | `TypeOK` |
| `SlotsAreKept` | `OneOperationPerSlot` |
| `SlotsStayInOrder` | `TimelineInOrder` |
| `RecoveredFramesFit` | `FramesInTheirSlots` |
| `DecodesInOrder` | `OutputInOrder` |
| `WrapDecidesOrder` | `ArrivalOrderDecided` |
| `FecIsTakenFromTheNext` | `FecFromNextOrAfterJump` |
| `CarriedCopiesAreUsed` | `CopiesAreUsed` (an action property) |

The assumptions are the named ones of the modules: `HalfAssumption`,
`RedAssumption`, `LadderAssumption` (positive constants) and `PacketAssumption`
(packets have their type). The reorder window is a guard of the actions.

The properties are not inductive by themselves. `IInv` adds three facts:

- `SequenceFollowsNewest`: the receiver's `last_seq` and `last_timestamp` are
  the index and the time of the newest accepted packet modulo the number
  spaces. With the lemma `DeltaExact`, which does the modular arithmetic, it
  gives back the true distance of a packet from the wrapped one, so an
  accepted packet is ahead of everything waiting (order) and a gap is as long
  as the code takes it to be.
- `NothingBeforeFirst`: before the first packet nothing waits, which covers the
  events `FIRST` and `STREAM_RESET` that report no gap.
- `RealDataIsDue`: real data that waits in a callback is due when it was sent.
  It carries the validation of the timestamps, done when the packet comes in,
  over to the step that decodes.

Each action has one step in the proof that it keeps `IInv`, and under it one
per conjunct it can disturb. `ArithmeticLemmas` has the facts about remainders.

`FecFromNextOrAfterJump` is about a frame that is used several callbacks after the
loss it repairs was signalled, so `FecInv` adds to `IInv` how the two queues hang
together: the callbacks of one packet are consecutive and end with its own slot
(`CallbacksConsecutive`), and the slot deferred last is the newest one signalled or
the next callback is the one behind it, or one behind a jump too long to conceal
(`CallbackFollowsLadder`). `CopiesAreUsed` goes from a packet to all of its
callbacks: the copy `red_unwrap` finds first for a missing slot is the least index
that matches, which exists by well-foundedness (`LeastOf`); its timestamp offset, a
field of 14 bits, agrees with the profile once the gap is validated, so no earlier
entry of the chain is planned in its place.

`ConnectionProofs` proves about `Connection`, for every number of pairs, checks
and turns, every timeout and every clock longer than it:

| Theorem | Property |
| --- | --- |
| `InvariantHolds` | `Spec => []IInv` |
| `ConnectionTypeOK` | `TypeOK` |
| `PairBudgetHolds` | `PairBudget` |
| `LatePairsAreNeverTried` | no pair behind the watchdog's deadline is ever nominated |
| `ClosedOnlyWhenSilentHolds` | `ClosedOnlyWhenSilent` |
| `SilentPeerIsClosedHolds` | `SilentPeerIsClosed` |

The assumption is `ConnectionAssumption` (positive constants, a clock that is
longer than the timeout). `IInv` is `TypeOK`, `PairBudget`, and

- `PhaseFacts`: what each phase and state of the connection says of the rest, in
  particular that a nominated pair under check has checks left, so that the next
  scan either counts one more or moves to the next pair; `SelectFacts`, the
  lemma about one scan, rests on it;
- that the nominated pair is one the watchdog leaves time for, which follows
  from `PairBudget` at the moment it is nominated.

The two theorems about the keepalive need another invariant, `KeepaliveInv`: as
long as the silence is within the timeout, it is the difference of the clock and
`binding_request_time` modulo the clock. `SilenceGrows` is its arithmetic.

`PrebufferProofs` proves about `Prebuffer`, for every geometry, window, clock and
counter:

| Theorem | Property |
| --- | --- |
| `PrebufferInvariance` | `Spec => []PrebufferInv` |
| `PrebufferTypeOK`, `DepthInBoundsHolds`, `OneVerdictPerDrainHolds` | the invariants of the run |
| `StepsChangeDepthHolds`, `DecaysAfterQuietHolds`, `GrowsAfterBurstHolds` | the action properties |

`PrebufferInv` adds `Fits` (the steps taken fit between the current base and the
maximum, which `pbc_set_base_ms` has to restore when the base rises) and `ClockInv`
(each wrapped difference the code computes is the true time of its ghost, as long
as that is below the bound the code compares with). `GrowsAfterBurst` needs
`WindowInv` as well: a window is younger than `PBC_WINDOW_MS`, and all that
`window_events` counts was seen since it began, so that a step up is taken only
for recoveries of which even the earliest is younger than a window.

`UpdateProofs` proves about `Update`, for every set of images and any number of
retries, uploads, power cuts and errors:

| Theorem | Property |
| --- | --- |
| `UpdateInvariance` | `Spec => []UpdateInv` |
| `UpdateTypeOK` | `TypeOK` |
| `NeverBrickedHolds`, `UnprovenOnTrialHolds`, `FallbackKeptHolds`, `MarksWhatRunsHolds`, `ShaNamesRunningHolds` | the invariants of the run |

None of them is inductive. `UpdateInv` says what otadata can look like: while
an image runs (`RunInv`) it is not rejected, a trial is that of the preferred
entry and has a fallback, a `NEW` entry is the other slot's and is to be booted next;
with the power off (`OffInv`) the same of what the bootloader will make of
otadata; `UploadInv` and `SavedInv` what each step of an upload has written, `TaskInv`
what the tasks have decided. The proof has a lemma for each kind of step; the
heart is `RestartFindsImage`, that `RunInv` with `UploadInv` gives `BootFinds` at any
point where power may fail, and `BootKeeps`, the way back.

`RtviProofs` proves about `Rtvi`, for every set of messages, queue and cap:
`RtviInvariance`, `RtviTypeOK`, `ResetTakesOrIsUndoneHolds`, and
`CommandsAreImplemented`: `Spec => Commands!Init /\ [][Commands!Next]_(Commands!vars)`,
every step of the queue, the task and the callbacks is one of `ServerCommands` or a
stutter. The ladder's invariant `LadderInHand` says what a thread that has loaded
`pending_gaps` may still find there.

`MediaProofs` proves about `PlayRing`, for every size of ring, frame, clip and
counter, every set of thresholds and every workload:

| Theorem | What it states |
| --- | --- |
| `RingInvariance` | `Spec => []RingInv` |
| `RingTypeOK` | `Spec => [](OnePushes => TypeOK)` |
| `FramesAreIntact` | `Spec => [](OnePushes => FramesIntact)` |
| `UnderrunOnlyAfterOverrun` | `Spec => []UnderrunMeansOverrun` |
| `ResetIsAfterEarlierAudio` | `Spec => [](OnePushes /\ Published < CounterMod => ResetAfterEarlierAudio)` |
| `AudibleIsBehindSilence` | `Spec => []AudibleBehindSilence` |

The ring is safe because each of four tasks may act on a load that has gone stale
in one direction only, and that is what `RingInv` says for each of their steps. `RingTypes`
and `PushShape` have the types and what a task's locals look like at each step.
`RingInStep` has, for one task that pushes, `HeadIsPublished` (a producer's head is
never stale), and until the first overrun:

- `CountersInStep`: the tail a producer has loaded is one that was right and at
  most a ring behind, so that the room it computes is there; the head the playback task
  has loaded is one that was right and not ahead, so that the frame it pops is
  there; and, while only the stream pushes, both counters are at whole frames, so
  that no pop is short of a frame by a part of one;
- `GuardInStep`: the tail that `pipecat_reset_audio_decoder` loaded may be old, the head is
  what it saw;
- `ContentsInOrder`: the slots between the counters, those written beyond them and
  the frame in hand are the samples in the order in which they were pushed.

`QuietBehind` needs neither: as long as the gate of `update_is_playing` counts
silent frames, that many of the newest are silent, whatever happened to the tail.

The hypotheses are limits of the code, not of the proof. `OnePushes` (either the
stream or the self-test) and "until the first overrun" are what the run `ring_tail`
refutes the code without. `Published < CounterMod` is three days of speech in one
boot (2^32 samples): the guard of the reset compares two loads that may be any
time apart. `AudibleIsBehindSilence` has no hypothesis: the gate waits for 20 silent
frames and the one that closes it is not pushed, so 380 ms of silence are behind the
last word for any threshold. The default of 80 ms and the adaptive controller (up to
160 ms) are below that.

About `LedRing`: `LedInvariance`, `LedTypeOK` and `QuietTickShowsThePhase`
(`QuietTickIsRight`), for every clock and time to live shorter than it. `Timed` says
that the stored time is the clock less the phase's age, modulo the clock.

`DataChannelProofs`, for every number of messages and packets and every queue:
`DataChannelInvariance`, `DataChannelTypeOK`, `LostOnlyByOvertakingHolds` and
`WholeUnlessSharedHolds`. `SackInv` says that an acknowledgement, wherever it is, in
the WebRTC thread, the buffer or the network, stands for a message that is or is
about to be handed on; `BufferInv` that the buffer holds what each thread has built
in it until the other one spoils it.

All these invariants were checked by TLC on the instances of the runs before they
were proved.

Only model-checked: liveness, that is `NeverIdle`, `LostServerIsNoticed`, `Heals`,
`TrialEnds`, `MainThreadReturns`, `ChannelOpens`, `SentIsDelivered` and the fairness
of `ImplementsServerCommands` (its steps are proved), and the four properties
the code violates. Liveness and `ENABLED` are out of the prover's reach, and so is
what the fold in `DataTotal` computes for every chain (induction over data); none of
the theorems depends on the sum of the block lengths.

## 5. Not modelled, and the plan

The implementation counts some 92,800 lines, of which about 8,800 are the
firmware, the overlay of libpeer and libpeer itself; the rest is libsrtp and Opus as
published (cryptography and signal processing, no protocol between tasks) and their
headers. The share of mapped lines is small for that reason. Of the 8,800 the models
have what holds state and interleaves.

Not to be modelled: capture, DSP and XVF3800 control (numeric filters and register
traffic without a protocol), libsrtp, Opus and mbedTLS, the H.264 and uplink paths of
`rtp.c`, the other signalling of libpeer (MQTT, WHIP, which the firmware does not
call), SDP and STUN syntax, the layout of the LED ring, JSON.

Partly modelled, with what is missing: the roles of the peer connection the firmware
does not take; the body of the HTTP answer; the TSN counter and the DTLS record layer
that two threads share without a lock (the models have the buffer, whose
corruption comes before either); Opus' own state under a reset from another task; the
beam of the LED ring.

In the order of their weight:

1. A FIFO of frames as an abstract specification that `PlayRing` implements for one
   producer until the first overrun (`ContentsInOrder` is most of its refinement
   mapping), and a queue of slots for `Downlink`.
2. RED parsing at the level of bytes as a reference for `red_unwrap` over bounded
   buffers.
3. The signalling path of the boot (chunked bodies, timeouts of the offer) as a module
   below `OfferAnswered` and `OfferUnanswered`.

## 6. Findings

Each is a sentence of the repository that the program contradicts, with the run
whose counterexample shows it; `PROJECT.json` quotes them.

1. `ring_tail`: the producer writes the consumer's counter on an overrun and can
   move it back.
2. `connection_dead_server`: a server that dies between its binding response and
   the end of the handshake is never noticed; the watchdog is over and the
   keepalive is not read before `COMPLETED`.
3. `wifi_gives_up`: after five disconnections in a boot nothing tries to reconnect, and a
   boot that has not joined by then waits for ever.
4. `sctp_ordered`: the data channel is neither ordered nor reliable: messages are
   handed on as they come, a message that was overtaken is acknowledged and lost, one
   sent again is handled twice.

Divergences that need no run to see:

- A slot deferred before a jump too long to conceal is decoded with the FEC data of
  the frame behind the jump, since the ladder is not told of it;
  `FecFromNextOrAfterJump` has the case, `docs/PLAYBACK_RESILIENCE.md` ("from the
  following chronological Opus frame") does not.
- The guard of the decoder reset is read on another task than the one that decodes:
  the first frame of a reply may be decoded between the guard and the reset, which
  is not confined to an idle decoder as the same document says.
- What the prebuffer keeps when the silence gate closes stays in the ring, so the
  guard of the next reply's reset finds it and the reset is refused.
- A base above 380 ms, which `/playback/stats?prebuffer_ms=` accepts up to 1000 ms
  (`src/src/ota.cpp:397`), is deeper than the silence behind a reply: after an underrun
  near its end, or with a reply shorter than the difference, the end of it is not
  played until the next reply fills the ring. `AudibleBehindSilence` leaves exactly
  this open.
- `docs/BUILD_AND_FLASH.md:173` says "If health does not pass within 60 seconds while
  the image is pending verification, it rolls back". One error is enough that it does
  not: the watchdog is created once, with its result ignored (`src/src/ota.cpp:514-518`),
  reads the state once, and a state that cannot be read is `UNDEFINED` (78-82), no trial;
  the rollback is tried once with its result ignored (505-507); and one unreadable state
  in any turn of the main loop confirms the image (526). The image then runs unproven
  until the next boot, which aborts it. This is `Abandoned` in `TrialEnds`.
- A refill that comes 49.7 days after its drain, within the window of a wrap of the
  clock, is counted as a gap in the middle of speech.
- An upload that is complete and never switched to (power, a failed write of
  otadata) leaves an image in a slot of which otadata may still say `VALID`; a later
  rollback boots it without a trial. This is `stray` in `UnprovenOnTrial`.
- An image that cannot join the access point never reaches the validation watchdog,
  which is started after Wi-Fi: it stays on trial until someone resets the device, and
  only that reset rolls it back. `TrialEnds` starts from the main loop for this reason.
- A power cut between the two writes of `save_uploaded_sha`, with the label of an
  earlier upload, makes the status report a hash of another image (`unsaved`).
- A tick of the LED task between the stores of a phase and its time, or between its
  own reading of the clock and of the time, takes the phase for expired once (the
  difference of unsigned milliseconds wraps). After 49.7 days an old phase
  is fresh again for 30 s.
- The pong of the RTVI task and the answers of the WebRTC thread are built in the same
  buffer: the pong or the answer may be lost, which a retransmission of the server
  repairs for the answer and nothing for the pong. The first `COOKIE_ACK` is always
  lost to `DATA_CHANNEL_OPEN`.
- `docs/PLAYBACK_RESILIENCE.md` says an SSRC change starts a new epoch at once;
  the filter of `peer_connection_loop` (`ReceiveOtherStream`) drops every packet
  of another SSRC than the answer's before the RTP decoder sees it.
- The same document gives the ring a single producer; the HTTP self-test is a
  second one, without a lock, and `FramesIntact` is conditional on it.
- With 1000 checks for each pair and 2000 turns for the watchdog only the first
  two pairs are ever tried (`LatePairsAreNeverTried`), though the agent keeps
  up to 100.
- A binding response that arrives after its pair was given up is credited to the
  next one. The device is then in a handshake over a pair that may not work,
  which is finding 2 with a living server.
- The keepalive's difference is of 64 bits and its clock of 32: at the wrap, 49.7
  days after power-on, a connection is closed that is not silent. And a
  connection completed before the first binding request compares with zero.

Two statements that hold more narrowly than they read: the ladder can be full
without any caller breaking a contract, because the RTP layer bounds one gap and
not the sum of gaps between two usable frames (`queue_decode_gap`'s fallback is
reached, and keeps every slot); and `underruns` stays at zero on streamed audio
that merely starves.
