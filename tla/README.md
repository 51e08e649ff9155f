# Verification of pa_data_broadcaster

TLA+ models, TLC configurations and TLAPS proofs for the two nRF5340 Audio applications of this
repository: the **broadcast source**, which carries data from a PC in its periodic advertising
(PA), and the **broadcast sink**, an Auracast receiver driven from a phone over GATT.
`PROJECT.json` maps every definition to the source lines it models and lists runs, mutants,
findings, hazards and theorems.

## 1. Inventory

### Broadcast source

| Component | State | Operations | Hard part | Correct when |
|---|---|---|---|---|
| UART adapter (`zephyr_uart_adapter.c`) | receive buffer, position, expected length; the complete frame | receive ISR, work handler, polled send | ISR against work handler; 8-bit counters; no resynchronisation | frames arrive as sent, nothing is read past what arrived |
| Command parser (`pa_cmd_parser.c`) | none | parse, three serializers | 8-bit length arithmetic | accepted data lies in the frame |
| Data manager (`pa_data_manager.c`) | IDLE / PENDING / COMPLETE, SID, data | submit, on_pa_interval, reset | used from two handlers | one request at a time |
| PA service (`pa_service.c`) | the context | status, data send, interval callback | set_data fails half-way; timer against requests | every request is answered, every accepted one completed once |
| Timer adapter | k_timer, work item | one-shot start, expiry | expiry ISR against the work queue | the callback runs once |
| BLE PA adapter (`zephyr_ble_pa_adapter.c`) | BASE, combined PA data, `ext_adv` | set_data, get_status, is_ready, setters | three calling contexts, no lock | BASE is never lost |
| `broadcast_source/main.c` | `ext_adv`, `strm_state` | start-up wiring, buttons, LE Audio and bt_mgmt events, `streamctrl_send` | button writes beside the service | accepted data is what is aired |
| `broadcast_source.c`, `bt_le_audio_tx.c` | streams, outstanding ISO buffers | start, stop, callbacks, send | buffer pool against sent-callbacks | no buffer is lost |

The PC sends frames to the UART ISR, which submits a work item; the system work queue parses it,
drives the manager, the PA adapter and the timer, and answers over the UART. The timer's expiry
puts a second item on the same queue. `main()` and the advertising event fill the adapter; the
button thread calls it directly.

### Broadcast sink

| Component | State | Operations | Hard part | Correct when |
|---|---|---|---|---|
| `auracast_gatt.c` | command callback | write, notify | runs on the Bluetooth receive thread | a command is answered once |
| `broadcast_sink/main.c` | `receiver_state`, `command_busy`, PA sync handle, notification flags, `strm_state`, scan cache | GATT commands, PA callbacks, deferred BIS work, LE Audio thread, bt_mgmt thread | four contexts without a lock; messages handled late | the handle is live; audio follows the streams; a failed command changes nothing |
| `broadcast_sink.c` | BAP sink, stored PA sync, BIS bitfield, stream counter, `paused`, code flags | pa_sync_set, start, stop, disable, BAP callbacks, clean-up work | objects of the host die under it; counter reset by BASE | counter and pause flag are right |
| `le_audio_rx.c`, `audio_datapath.c` | frame being joined, queue; output FIFO, drift and presentation controllers | receive, decode, I2S block | producer against ISR; full equals empty | no overrun, delay converges |

### Shared library

| Component | State | Operations | Hard part | Correct when |
|---|---|---|---|---|
| `audio_system.c`, `sw_codec_select.c`, `audio_usb.c` | codec, poll signal, USB queue | start, stop, encoder thread, test tone | start, stop and the thread's sleep | no encoding without a codec; audio follows the streams |
| `bt_mgmt_adv.c` | queue of sets, work item, time-out flag | start, worker, directed time-out | merged submissions, failing host calls | reachable by everybody in the end |
| `bt_mgmt_scan*.c` | callback, search, PA sync, timers; `server_sirk`, `bonded_num` | search, sync, transfer, connect | timers against late callbacks | a search ends; a gateway never idles |
| `bt_mgmt.c` | connections | connection and security callbacks | references given back once | references follow links |
| `unicast_client.c` | a slot per headset, capability table, start queue | discover, start, stop, callbacks | procedures exclude each other | what waits is started; the last end is told |
| `unicast_server.c` | streams of endpoints | the client's operations | order of configuration and release | what is sent goes to the source |
| `bt_vol_ctlr.c` | slots of controllers | discover, set, state callback | stale slots, echoes | every headset is controlled, volumes agree |
| `bt_vol_rend.c`, `hw_codec.c` | channel, queue, register | publish, thread, codec restart | two publications on one channel | audible means right |
| `lc3_streamer.c`, `lc3_file.c` | slots, two blocks each, work items | register, next frame, load, close | pending work outlives its stream | frames in the file's order |
| `sd_card_playback.c` | ring buffer, token, mutex | play, mix | datapath preempts the thread; wrap | units in order, the thread comes back |
| `sd_card.c` | slabs, result | recursive search | errors below | blocks given back |

`PaService`, `AuracastReceiver` and `SourceStreaming` are the compositions that make up the two
applications; the others are library parts that share no state, of which neither application
builds the unicast parts, the volume controller, the LC3 streamer and the SD card.

The hazards of all of these are listed, at their lines, in `PROJECT.json`.

## 2. Modules

| Module | Models | Notes |
|---|---|---|
| `PaCmdParser` | `pa_cmd_parser.c`, `pa_protocol.h` | operators on byte sequences; the width of a byte is a constant |
| `PaDataManager` | `pa_data_manager.c` | operators on the context record |
| `PaProtocol` | — | abstract specification of what the PC is promised |
| `PaService` | `pa_service.c`, the timer, BLE PA and UART adapters, start-up and ACTION button of `main.c` | composes the two operator modules with their environment |
| `UartRx` | the receive interrupt of `zephyr_uart_adapter.c` | byte by byte |
| `BroadcastSink` | `broadcast_sink.c` and the host objects it uses | actions on its own variables only |
| `AuracastReceiver` | `broadcast_sink/main.c` | composes `BroadcastSink` with threads, commands and links |
| `AudioDatapath` | `audio_datapath.c` as the headset builds it | output FIFO, I2S interrupt, drift states, presentation compensation |
| `LeAudioRx` | `le_audio_rx.c` | joining, pool, queue, thread |
| `BroadcastSource` | `broadcast_source.c`, `bt_le_audio_tx.c` | actions on its own variables only |
| `SourceStreaming` | `main.c`, `audio_system.c`, `sw_codec_select.c`, `audio_usb.c` of the source | composes `BroadcastSource` with buttons, LE Audio thread, encoder and USB |
| `Advertising` | `bt_mgmt_adv.c`, the peripheral's callbacks of `bt_mgmt.c` | queue, worker, time-out |
| `BroadcastScan` | `bt_mgmt_scan.c`, `bt_mgmt_scan_for_broadcast.c` | search, sync, transfer |
| `ConnScan` | `bt_mgmt_scan_for_conn.c`, the central's callbacks of `bt_mgmt.c` | three searches |
| `UnicastClient`, `UnicastServer` | `unicast_client.c`, `unicast_server.c` | headsets and host procedures; stream operations |
| `VolumeControl`, `VolumeRender` | `bt_vol_ctlr.c`; `bt_vol_rend.c` with `hw_codec.c` | propagation; the way to the codec |
| `Lc3Streamer`, `SdPlayback`, `SdListing` | `lc3_streamer.c` with `lc3_file.c`; `sd_card_playback.c`; `sd_card.c` | files from the SD card |
| `AudioParts` | — | the parts of the audio side, which share no state, in one specification, the search of the card among them |
| `PaCmdParserProofs`, `PaServiceProofs`, `UartRxProofs`, `AuracastReceiverProofs`, `AudioDatapathProofs`, `LeAudioRxProofs` | — | lemmas and theorems about one module (the receiver's with `BroadcastSink`) |
| `AudioProofs`, `BluetoothProofs` | — | lemmas and theorems about the other parts of each side, and about their types together |
| `MCPaService`, `MCUartRx`, `MCAuracastReceiver`, `MCAudioDatapath` | — | small instances for TLC |
| `MCAudioParts`, `MCBluetoothParts` | — | small instances of the parts that share no state |

In a module, an operator whose comment begins with "Mutant" is a plausible mistake in the
definition that follows it; `PROJECT.json` pairs it with the property that catches it.


### How state and steps correspond

*PaService.* Variables carry the C names. `workq` is the system work queue: `k_work_submit` of a
queued item changes nothing, and one thread runs items in order. `wq_pc` says where that thread
is: it is cooperative, so a handler is one step up to the call into the Bluetooth host, where
others can run (`copy`: between parsing the lengths and copying the payload, because the ISR can
fall there; `set_data`: in `bt_le_per_adv_set_data`). The host call succeeds or fails. `timer`
and `pa_clock` count ticks; `Tick` does not pass a due expiry or PA event. `aired` records which
payloads were transmitted since the last accepted one, `log` what the PC was sent. The PC's
discipline is the constant `PcWaits`: it waits for what it is owed (`accepted`), for both frames
as the document says (`both`), or for nothing (`none`).

*UartRx.* `rx_buf` is the valid prefix of the array. The frame of the last request stays in
`rx_frame` beyond the new one's length, as in C.

*BroadcastSink.* A PA sync object is free, being created, synced or being cancelled; a BAP sink
remembers its sync and source. The one BIG is none, pending or streaming; `is_any_active_streams`
is its streaming state. Host calls return what the host may return, by choice. `le_audio_chan`
is the message queue of the LE Audio thread. BASE is reduced to whether its configuration suits
and which BIS carries this device's channel; `CONFIG_RECEIVED` messages only set codec parameters
and are left out.

*AuracastReceiver.* The receive thread and the work queue are cooperative, so each handler is one
action. The LE Audio thread is preemptible: `le_pc` splits its handlers where they block or where
a callback can fall between assignments that belong together. `pa_sync_term_cb()` is called from
inside `bt_le_per_adv_sync_delete()` when the sync is established and later when it was still
being created; `DeletePaSync` does the same. A command found busy is answered FAIL and changes
nothing, so it is no action. `bis_answer` is the last answer to BIS_SYNC_START.

*AudioDatapath.* The datapath thread is preemptible, so `stream_out()` is a sequence of steps
(`thread`): `Compensate`, one step per block inserted or removed, `Decode` or `Discard`, one step
per block copied, `Publish`; the interrupt and `Stop` fall between any two. The interrupt is the
clock: it runs once per block period, and SDUs arrive at their reference plus the latency of
their stream. The presentation arithmetic is done in scaled time with C's truncating division;
what drift compensation measures is a choice, its states and waits are the code's. SDU references
fall on block boundaries, which is what the drift lock brings about. The FIFO holds time stamps,
not samples. `fill` counts the blocks that were really put in and taken out.

*LeAudioRx.* The receive callback is one action on the cooperative receive thread; `Take` and
`Release` are the datapath thread. A frame is its time stamp, the locations joined and the number
of SDUs in it. `sdu` is the current interval: streams deliver one SDU each per interval, late,
twice or not at all.

*BroadcastSource* and *SourceStreaming.* `big` and `ep` are the host's, `in_flight` the buffers
whose sent-callback it owes. The LE Audio thread is split where it publishes its state in
several places (`le_pc`); the encoder thread, which has the higher priority, where it waits: for
the poll signal, for a block, in the tone's sleep, or in the HCI command of a send (`enc_pc`).

*Advertising.* Callbacks are actions of the receive thread; the worker is split at its host calls
(`adv_pc`), which may fail `MaxHostErrors` times. `HandedOn` counts the places that hold the
restart of the one set.

*BroadcastScan* and *ConnScan.* Sync objects and connections are the host's. Every host call may
fail; `crossed` and `gave_up` record that one did, or that searches overlapped, so that the
properties speak of what the code can answer for.

*UnicastClient.* `cap` is the host's one procedure under way; the streams in it step through
configured, QoS and streaming in any order. Slots, capability table and start queue are the
code's arrays. The preset's presentation delay is one variable, because all sink streams point
to the same QoS. *UnicastServer* has the client's operations as actions.

*VolumeControl.* Connection objects and controllers of the host are the same numbers. `volume`,
`writing` and `reported` are the headset's end. *VolumeRender* splits the thread of `hw_codec.c`
after the wait, the read of the channel, and before the register is written.

*Lc3Streamer*, *SdPlayback*, *SdListing.* Frames and units of PCM are their numbers in the file,
so that order can be stated. In `SdListing` one step is one turn of the loop
of `traverse_down()`: a path is the sequence of the places of its names, so `dir` and `token` are
the whole stack of the recursion, and a return goes to the front of the path. What the code tells
a name by (its text, its dot, what the file system answers) is its `kind`.

## 3. Runs

The passing runs:

| Run | Bounds | What it shows |
|---|---|---|
| `pa_waits` | 3 frames out of five kinds, no button | accepted = sent, completion means aired, the PC is served |
| `pa_pipelined` | 3 frames, oversize and unknown ones too, 1 press | protocol refinement, one completion under way, completion, BASE |
| `uart_noise` | 4 frames: every length class, and torn, empty or wrapping byte strings | nothing outruns what was received; well-formed frames arrive intact |
| `rx_streams` | open, encrypted and unsuitable source, 2 syncs, 2 sinks, 2 streams, 3 commands, 1 radio loss, 1 phone | the handle is live, the counter and the pause flag hold, audio stops after an announced end |
| `dp_fifo` | FIFO of 12 blocks, frames of 4, two latencies, three presentation delays (one refused), 61 interrupts, one odd event | FIFO indexes, buffers of I2S, one correction settles |
| `audio_lib` | the six parts of `MCAudioParts`, below | streaming of the source, receive queue, volume, LC3 files, SD playback, file search |
| `bt_lib` | the six parts of `MCBluetoothParts`, below | advertising, both scanners, unicast client and server, volume controller |

The parts of the last two runs share no variable. A behaviour chooses one part, which takes all
the steps, while the others keep one initial state: the run has the sum of the parts' states
instead of their product, and every property is checked in the behaviours of its part. What is
fair of a part is disabled in its initial state, so that its fairness demands nothing there.

| Part | Property | In one sentence |
|---|---|---|
| source | `HostAgrees` | buffers counted = buffers the host holds; pointer = source exists |
| | `ApplicationFollows` | state, encoder, codec and USB follow the streams; streaming is noticed |
| | `EncodeSucceedsAwake` | only the tone's sleep can lead to encoding without a codec |
| rx | `NoBufferLost`, `FramesJoinedRight` | the pool balances, no put fails; frames whole, in order, within their buffer |
| volume | `VolumeIsHeard` | audible means the service's volume, a mute silences |
| lc3 | `FilesAreStreamed` | frames in order to the end, files given back |
| sd | `FilesAreMixed` | units in order, a token means room, the thread comes back |
| listing | `FilesAreFound` | the matches in order, blocks given back |
| adv | `OneRestartAtATime`, `SetMatchesKind`, `Reachable` | one restart at a time, right parameters, open to everybody in the end |
| scan | `ScansAreAnswered` | the host's sync is the one that was told; searches and transfers end |
| conn_scan | `GatewayLooks` | without a headset it scans; a reference per connection |
| client | `HeadsetsAreStarted` | one slot each, the last end is told, what waits is started |
| server | `ServerFollowsClient` | sends to the source's stream, believes no ended stream |
| volume | `VolumeIsShared` | a discovered headset is controlled, a volume reaches all |

`PaService` and `UartRx` scale a byte to 32 values with the maximal payload scaled so that the
relation between the two (`PA_MAX_DATA_SIZE + 3 < BYTE`) is that of the code; 5 ticks of 50 ms
are the timer, 3 to 4 ticks the configured 150-200 ms PA interval. Three frames are enough for an
open request, one that finds it open, and one after its completion. In the receiver two objects
of each kind are what the configuration has and suffice for an old and a new one; three commands
reach streaming and its end, a second sync or a restart. `MaxQueue` bounds how many refused
BASEs may wait, since each report of an unsupported source adds a message.

`AudioDatapath` keeps the code's ratios: the FIFO is twice the maximal presentation delay, and as
many data points are averaged as a frame has blocks (10 and 10 in the code, 4 and 4 here). 61
interrupts reach lock, measurement, a correction, the wait after it and the second measurement.
An odd event is a restart, a lost, repeated, skewed or undecodable frame, or a lost clock lock;
`MaxBusy` says that the thread handles a frame within one more interrupt. The latencies leave at
least 3.5 blocks before the presentation moment. Both bounds matter: blocks are removed without
asking how many there are, and with less room, or with two odd events in a row (a restart that
finds the drift locked and then an undecodable frame), TLC finds the producer passing the
consumer. `PROJECT.json` lists both as hazards. `DecisionsFit` says what keeps the two apart, which
the code nowhere asks: blocks are removed only where there are as many (`CorrectionFits`), a frame
passes the overrun test only where it leaves a block free (`FrameFits`), and one correction
settles (`OneCorrection`). With two odd frames TLC finds the FIFO filled exactly, which the test's
`>` lets pass and which then reads as empty; the code's FIFO holds twelve frames where the model's
holds three, and takes more of them.

`audio_lib`: *source* has two streams of two buffers, blocks of three to a frame and a backlog of
two, two presses and one disable, which reach a restart and a deletion while the encoder sleeps;
*rx* two streams in any two locations, a pool of three and four intervals, enough for a full
queue, a late half and a restart; *volume* three of 256 volumes, both ends among them, a queue of
two of four, four changes or restarts; *lc3* two slots, files of three frames, one, none and a
file that is no LC3, three files that FatFs can open, four calls and one failing read; *sd* files
whose frames fill half of the ring of four units and all of it, three plays; *listing* cards with
names of every kind and folders too large or too deep, with slabs of two blocks, and results of
one and three.

`bt_lib`: *adv* two peers, two bonds, two failing calls; *scan* two sources of different names,
two sync objects, two searches, one request and two losses; *conn_scan* three headsets, known by
name, key, or both, two bonds, four connections, one failing scan; *client* two headsets, one with
a microphone and another delay, two slots, two connections, one failing call, two presses;
*server* ten operations; *volume* two connections used twice each, two volumes, two changes.
Each bound admits the case that the part's properties are about twice, or once and a restart.

Deadlock is checked for `PaService`, where time always passes. It is not for the other modules:
PC, phone, radio, headset and user may stop, and bounded counters end.

### Fairness

`PaService`: the work queue's thread runs while it has work (a kernel thread of the highest
priority), timer interrupts, PA events and time go on. The PC and the button owe nothing.
`AuracastReceiver`: the work queue, the LE Audio thread and the bt_mgmt thread run while they
have something to do. Callbacks of the radio, commands and links owe nothing.
`SourceStreaming`: the host calls back, the encoder thread runs while it can (weak fairness), and
the LE Audio thread, which the encoder preempts again and again but never for ever, whenever it
can infinitely often (strong fairness). `Advertising`: the worker runs and the controller ends
directed advertising after its fixed time. `BroadcastScan`: a source in range is heard again, a
sync is established or times out, timers and work items run. `UnicastClient`: the host's
procedures and disconnection callbacks come, work items run. `VolumeControl`: what is written is
taken and reported. `Lc3Streamer`: the work queue runs, and the caller goes on
asking, as the datapath does. `SdPlayback`: the playback thread runs; the datapath owes nothing.

### Findings

Each is the counterexample of a run that expects a violation; `PROJECT.json` quotes the document.

* `pa_button`: the ACTION button replaces an accepted payload before it is aired; completion is
  still sent.
* `pa_both`: a PC that waits for 0x11 and 0x12, as documented, stops after a refusal.
* `uart_longest`: the longest documented request has a total of 256, which is 0 in a `uint8_t`:
  it is dropped and framing is lost.
* `rx_failedstart`: the first BIS_SYNC_START is answered FAIL and plays.
* `rx_code`: after a start without a code the receiver is busy and refuses the code.

Seen while modelling, and followed by the models without a run of their own: the manager does not
know of BASE (`PA_BAAS_OVERHEAD` is 0), so a request beyond what Status offers is not answered
DATA_TOO_LARGE; any SID is accepted and INVALID_SID is never sent; `pa_synced_cb()` does not reset
the first-data flag, which `doc/broadcast_sink.md` says it does.

Also seen, in the library: the test tone's sleep can end in the fatal "Encode failed" when the
source is paused meanwhile (`audio_system.c:236`), a frame half collected before a pause is joined
with blocks after it, and a pause after a refused `broadcast_source_disable()` deletes the source;
a directed advertisement that times out is reverted to an open one, while `bt_mgmt.h:151-153`
speaks of directing it again, and a set whose start failed is not tried again before
the next connection event; a sync transfer that succeeds does not cancel `pa_timer`, which then
reports FAILED; `srch_brdcast_id` is never reset, and a scan that fails to start leaves its callback
registered, so that every later search is refused as running; `unicast_client.c:252` wants a common
presentation delay, which a device configured while others stream does not get (its TODO names
OCT-3111), a start that meets a stop stays in the queue, and a refused discovery keeps its slot; a
source endpoint that is released stays in `cap_tx_streams[0]`; two volume changes at once can
chase each other; a codec restart forgets a mute; a file that is no LC3 file, or whose
header cannot be read, stays open; the last frame before the end
of the SD ring buffer is cut, and the last frames of a file may never be mixed; the depth of a search is limited by its
slabs, with an error, before `curr_depth > SD_CARD_LEVELS_MAX` can be true (`sd_card.c:73`), the
error of the last folder is the result of a whole search that found everything, and a folder
larger than the buffer is left open (`sd_card.c:271`).

The document also says `uart1` and 100 ms where the code has `uart0` and 250 ms; the models follow
the code.

## 4. Proofs

TLAPS checks these for every value of the constants that satisfies the modules' assumptions: the
named `ASSUME` of each module, which says what the constants are (sets, numbers, the byte width
with `PA_MAX_DATA_SIZE + 3 < BYTE`, a receive buffer at least `BYTE` long, a value such as `NoFile`
outside the set it extends). Eight theorems have a hypothesis of their own, discussed with them.
Each argument is an inductive invariant with one lemma per action, under the name of the code.

*UartRx.* `IInv` conjoins `TypeOK`, `PositionInFrame` (the position is the length of what was
collected and, inside a frame, below the expected total), `HeaderAgrees` (the first collected byte
plus one is the expected total) and `DeliveredSelfConsistent`, with the delivered length within
the shared frame. `HeaderAgrees` is the strengthening: when the last byte arrives, position and
total meet, so the frame is as long as its first byte says. From it follow `NoOverrun`,
`FramesSelfConsistent` and, with the parser's lemma `ParsedDataInFrame` (the 8-bit cast cannot
wrap below the maximal payload), `PayloadInFrame`. `FramesDeliveredIntact` adds `SyncInv`: while
only well-formed frames were sent, the frames delivered, the bytes collected and those on the line
make up what was sent, byte for byte. Its hypothesis is that a well-formed frame is shorter than
256 bytes; the one that is not is the finding of `uart_longest`.

*PaService.* `TypeCorrect` needs that what the work queue parses is a frame's prefix of the
shared array, and that payloads are byte sequences (`PayloadType`, `OverlayType`).
`CompletionUnderWay` strengthens `OneCompletionUnderWay` by type correctness: the timer is armed
only in the step that opens a request, its expiry moves the obligation to the queue, taking the
item moves it to the handler, and only the handler closes. Two of the three can coexist only if a
request were opened while one is open, which `SubmitResult` refuses.
`ServiceImplementsProtocol` is the step simulation under the mapping `open <- Open`: each action
that sends maps to the protocol step of that message, each other one to a stutter; that a
completion finds the request open is `CompletionUnderWay`.
`BaseAlwaysSent`: whoever is inside the host call has composed `combined` when the adapter was
ready, and by then `main()` had registered BASE (`BaseInv`).
`CompletionMeansAired` relates the two clocks: while the timer is armed, the data of the request
was aired or the controller has had `ONESHOT - timer` ticks to air it (`AiredInv`). It supposes
`ONESHOT > PA_INT_MAX` (250 ms and 200 ms in the code) and that nobody presses the ACTION button,
because a press replaces the data, which is the finding of `pa_button`.
`WholeFramesAccepted` supposes a PC that waits for what it is owed (`PcWaits # "none"`), as the
document demands: from the arrival of its frame to the answer there is one frame under way and the
PC is silent, so nobody writes the array that the parser reads (`PcInv`).
`PcNeverForgotten` is the converse, and the safety half of `PcIsServed`: the PC waits for an answer
exactly while its frame is queued or in the handler, and for a completion exactly while that is in
the timer, the queue or its handler; that they then move on is fairness. It supposes a PC that
waits for what it is owed (one that waits for both frames is the finding of `pa_both`) and sends
frames that the parser accepts, since a parse error is logged and not answered.

*AuracastReceiver* and *BroadcastSink.* `IInv` has three parts. `StreamInv`: no stream is counted
while a BIG is being set up, the counter is at most what plays, the bitfield a BIG is set up with
has no more bits than there are streams, and a pending BIG is never paused, since only an active
stream can be. `PoolInv`: what the application and the sink remember are objects of the host's
pools, and the handle is one that is in use; whoever frees a sync, on whichever thread, forgets it.
`FlagInv` has the flags, in four parts: those of the commands, of the sink, of the links, and the
sets that the others range over. From it `ReceiverTypesCorrect`, `HandleAlwaysLive`,
`StreamsAlwaysBounded` and, from its induction step, the action property `PausedAlwaysSilent`.

`EndAlwaysSilences` is the safety half of `StopSilences`. `AudioInv` says that the audio system is
on only if the LE Audio thread has noted the streaming, or is between the switch and the note. `Silencing` is then kept by every step while the receiver is
paused: an end of the streams is announced, or has taken effect, and no start is announced after
it, because the only callback that announces one belongs to a pending BIG, which is never paused.

*AudioDatapath.* `DatapathTypesCorrect` says that the indexes stay in the FIFO under every
insertion, removal, loss and repetition. `AltBufferAlwaysFree`: the alternative buffers in use are
exactly those of the two buffers that I2S has, which are never the same one (`AltInv`); the
interrupt gives back what was sent before it takes one. `FifoNeverOverrun` relates the indexes of
the FIFO, which wrap, to `fill`, the blocks really put in and taken out: the producer is `fill`
blocks ahead of the consumer, and `fill` is between 1 and one less than the FIFO (`RoomInv`). The
invariant follows the thread between any two interrupts: the blocks it is still to insert or
remove (`AdjustInv`) or to copy (`CopyInv`), and what I2S is sending (`SendingInv`). The code
removes blocks without asking how many there are and lets a frame fill the FIFO exactly, so that
corrections and frames fit is a matter of timing, and is derived from it (`SteadyNeverOverrun`).
The measure is `Lag`, the time from the next frame's reference to its presentation as the fill
has it: frames and interrupts leave it alone, only a block that is missing and a correction change
it. `TsInv` says what the time stamp of each fresh block is, so that the delay measured at each
frame is `Lag` but for the jitter (`CurInv`), and so is the average of what is summed up
(`SumInv`). Hence the correction leaves the lag at the presentation delay but for jitter and
half a block (`CorrectionIsBounded`), it is never longer than what is queued, and the lag stays
below `Corrected`, which with a frame fits into the FIFO (`FrameHasRoom`). What this takes of
the configuration is `Margins`: a frame is handled before the next one comes, the shortest
presentation delay outlasts the longest latency by the jitter, the handling and half a block, and
the longest delay with the same and a frame fits into the FIFO and the latency. The code checks
none of it. With its numbers (blocks of 1 ms, frames of 10, a FIFO of 120, delays of at most
60 ms) the last one holds with room to spare; the second one limits the latency and jitter that
a headset can have. TLC evaluates `Margins` on the constants of `dp_fifo`. The theorem speaks of
the `steady` part of a stream: since a start without a drift lock no SDU was lost or skewed, no
frame failed to decode and no lock was lost, whatever went on before that start.
`FifoNeverOverrun` is its corollary, `NothingOverrun`, where every stream is steady. With an odd
event, or after a restart that keeps the drift lock, the FIFO can be overrun (section 3), and
`dp_fifo` shows only that one such event does no harm within its bounds.

*LeAudioRx.* `Accounted` adds to `NoBufferLost` that no more buffers are allocated than the pool
has. A call that finds the queue full frees one place, and puts two frames only if one was being
joined; then joined, queued and held frames together already are the pool, so the queue cannot
have been full with one being joined. `StaleAccounts` and `CheckSendAccounts` are the lemmas on
the two halves of the handler, for any queue. `FramesAlwaysJoinedRight` adds that held, queued and
joined frames are ordered by their time stamps and not ahead of the interval (`OrderInv`), that
no stream contributes twice to an interval (`PartsInv`), and that while nothing disturbs it the
frame being joined has what has arrived and the others are whole (`WholeInv`); `DropOldest` and its like say what taking and putting do to an ordered
queue.

*BroadcastSource* and *SourceStreaming.* `HostInv`: only streaming streams hold buffers, and no
stream of a source that has not started does. The encoder's send takes a buffer on both sides, the
sent-callback returns it on both, a stop drops the host's, and the start resets the library's.
`SourceBooks` follows for every number of streams and buffers and every schedule of the threads,
which touch none of this but through the sends. `StageInv` reads from the position of the LE Audio
thread which of encoder, codec and USB is on, and `EventInv` says that the last event in the queue,
or else the one handled last, is what the streams are; together they give `ApplicationAtRest`, the
safety half of `ApplicationFollows`. `EncodesWithCodec` adds that what is collected and queued
without a codec is less than a frame (`BacklogInv`). It supposes that no more than
`MaxBacklog < FRAME` blocks pile up while the encoder is in a send, asleep or stopped: a frame is
10 blocks of 1 ms, the thread has the highest priority of the application's (3), and USB is switched
off two steps after the encoder. With a longer delay a frame could be there when encoding
stops, and the next round would encode it with the codec uninitialised; nothing in the code
excludes that but its timing.

*VolumeRender.* Two publications may be merged into one message; `HeardInv` says that the channel
then has the later one, that a thread about to set has read it, that one with nothing to do has set
it, and that a restart of the codec brings back that value. `VolumeAlwaysHeard` follows.

*Lc3Streamer.* For each slot (`SlotInOrder`) either the work that reads the next frame is pending
or that frame is the one in the fifo, and the end is noticed only without either. With
`SlotIsSound` (an idle slot owns nothing, no slot more than its two blocks)
`FilesStreamedInOrder` follows for every slot that is not `upset` by a failing card or by work of
a closed stream.

*SdPlayback.* `FilesMixedForward` holds for every size of frames and ring: what is mixed rises in
the file and never passes what was copied. That nothing is left out needs `WholeFrames`: the ring
holds a whole number of frames. Then there is one frame or one token (`OneFrame`), the frame is all
that was copied and not mixed, and it never wraps inside; `FilesMixedWhole` follows, until the
datapath once finds too little. The default ring of 960 bytes makes this true of WAV at 48 kHz and
of LC3 frames of 10 ms at 8, 16, 24 and 48 kHz (160, 320, 480 and 960 bytes). With 10 ms at
32 kHz and 7.5 ms at 24 and 48 kHz (640, 360 and 720 bytes) frames are cut at the wrap, and only `FilesMixedForward` holds.

*SdListing.* `FilesAlwaysFound` needs no induction over the tree, because the stack is a path:
`Passed` orders all paths by the place where the search is, and `PassedAreGiven` says that exactly
the passed matches are in the result, unless that is full. Every step passes nothing (it skips a
name that is no match and has none below, as `MatchFacts` says), one match, or, when the result is
full, whatever the folder still has, all of which comes after what was found
(`PrecedesTransitive`). `BlocksOfStack` counts one block for each call on the stack.

*Advertising.* The restart of the set is handed on from the connection to the queue, to the
worker, to the set and back. `AdvInv` says that at most one place holds it (`OnePlace`), that
nobody does before the start or when no set is left, and that a directed set belongs to a bond and
no time-out (`DirectedByBond`). `RestartsOnce` and `SetMatches` follow.

*BroadcastScan.* `SyncsToldRight`: the ID that is told is the one written when the creation began.
`ScanInv` says that what is pending is the ID of the source being created (`PendingKnown`) and that
nothing else is under way while an offered transfer stands (`OfferKnown`), unless requests crossed.

*ConnScan.* `LinkInv` is `GatewayLooks` with the types of links and references. Each of the four
steps that end or redirect a search goes through `ScanAgain`, which leaves a running scan with its
callback or gives up (`SearchGoesOn`); a connection counts its one reference when it begins and
returns it when it ends, connected or not. `SearchNeverEnds` follows.

*UnicastClient.* `UniInv` adds to `HeadsetsKept` that a slot without a headset has no endpoints
(`EmptyWithout`) and that a stream that is configured or in a procedure belongs to a slot whose
headset is linked (`OnLink`). A discovery
takes a vacant slot only if `DeviceIndex` finds none, and whichever callback ends the last stream
tells: `HeadsetsAlwaysKept`.

*UnicastServer.* `SourceIsSent` speaks of a streaming source only, but the stream it needs was
chosen at the configuration, several steps before: `TxFollowsSource` claims the agreement for
every state but idle. `FirstVacant` shows that the first vacant stream belongs to no other
endpoint, and `KeepInv` covers the seven operations that keep the streams. `ServerFollows` follows.

*VolumeControl.* `Wired` says that only a discovered headset has volumes under way. A discovery cleans up a slot only if its controller has no connection, so a discovered headset keeps
its own: `DiscoveredAreControlled`, the first half of `VolumeIsShared`.

*The parts together.* `AudioTypesCorrect` and `BluetoothTypesCorrect` conjoin the invariants of
the parts (`AudioInv`, `PartsInv`): a step is a step of one part and leaves the others alone.

*Only model-checked:* everything under fairness (`PcIsServed`, `AcceptedCompletes`, `StopSilences`,
`Reachable`, and the last conjuncts of `ApplicationFollows`, `FilesAreStreamed`, `FilesAreMixed`,
`ScansAreAnswered`, `HeadsetsAreStarted` and `VolumeIsShared`), because liveness and ENABLED are
beyond this prover; `OneCorrection` of the datapath, and `DecisionsFit` and `NothingOverrun` once
a stream is not steady. Of `StopSilences` and `PcIsServed` the safety halves are proved.

## 5. Not modelled

Register-level I/O, the LC3 codec, logging, the encoding of GATT notifications, volume and mute
commands of the receiver, the scan cache, instruction-level races on `receiver_state`, the host
below the calls named above, the gateway's audio input, the frequency arithmetic of drift
compensation, sample-rate conversion, time stamps of sent SDUs, the composition of codec
configurations, BASE and advertising data, media control, buttons' debouncing and LEDs, DFU, shell
commands, start-up probes. The faulting call that a release with a NULL handle makes is left out
of `PaSyncRelease`.

## 6. What is left

1. `ScanCache`, volume, mute and audio output in the receiver application, and the framing of its
   notifications.
2. The gateway's input half of the datapath with its just-in-time adjustment; time stamps in
   `bt_le_audio_tx_send()`.
3. Proofs: `OneCorrection`; how much larger than `Margins` the room of the FIFO must be for one
   odd event; the gateway's input half once it is modelled.
