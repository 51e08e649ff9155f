--------------------------- MODULE SourceStreaming ---------------------------
(* broadcast_source/main.c, audio_system.c and audio_usb.c around               *)
(* BroadcastSource: play/pause, the LE Audio thread that starts and stops the   *)
(* audio system, the encoder thread, and the USB blocks it encodes.             *)
(*                                                                             *)
(* The encoder thread has a higher priority than the other two: they step only  *)
(* while it waits.  Its steps end where it waits: for the signal, for a block,  *)
(* in the sleep of the test tone, or in an HCI command.                        *)
EXTENDS BroadcastSource

CONSTANTS FRAME,            \* CONFIG_FIFO_FRAME_SPLIT_NUM: blocks of a frame, and of the queue
          MaxBacklog,       \* bound: blocks that pile up while the encoder thread is busy or stopped
          TestTone,         \* CONFIG_AUDIO_TEST_TONE, with somebody who uses it
          MaxSourcePresses, \* bound: play/pause presses
          MaxDisables       \* bound: calls of broadcast_source_disable()

ASSUME StreamingAssumption == /\ FRAME \in Nat \ {0} /\ MaxBacklog \in Nat
                              /\ HCI_ISO_BUF_PER_CHAN \in Nat

VARIABLES source_ext_adv,   \* the advertising set has been reported
          strm_state,
          le_pc,            \* where the LE Audio thread is in its handler
          encoder_sig,      \* the poll signal
          sw_codec,         \* the software codec is initialised
          usb_on,           \* audio_q_rx of audio_usb.c is not NULL
          audio_q_rx,       \* number of blocks in the queue
          enc_pc, collected, tx,
          test_tone,        \* test_tone_hz as a step of its cycle
          source_presses, disables
audioVars == <<encoder_sig, sw_codec, usb_on>>
encVars == <<audio_q_rx, enc_pc, collected, tx>>
envVars == <<source_ext_adv, source_presses, disables>>
streamingVars == <<sourceVars, audioVars, encVars, envVars, strm_state, le_pc, test_tone>>

StreamingInit == /\ SourceInit
                 /\ source_ext_adv = FALSE /\ strm_state = "PAUSED" /\ le_pc = "wait"
                 /\ encoder_sig = FALSE /\ sw_codec = FALSE /\ usb_on = FALSE
                 /\ audio_q_rx = 0 /\ enc_pc = "none" /\ collected = 0 /\ tx = {}
                 /\ test_tone = 0 /\ source_presses = 0 /\ disables = 0

\* The encoder thread can run, so that no thread of lower priority does.
EncoderReady == \/ enc_pc = "poll" /\ encoder_sig
                \/ enc_pc \in {"wait", "collect"} /\ audio_q_rx > 0
Below == ~EncoderReady /\ enc_pc # "fatal"
-----------------------------------------------------------------------------
(* main(), then the EXT_ADV_WITH_PA_READY event, which starts the source.       *)
EnableSource(ok) == /\ ~broadcast_source /\ big = "none" /\ Below
                    /\ Enable(ok)
                    /\ UNCHANGED <<audioVars, encVars, envVars, strm_state, le_pc, test_tone>>
ExtAdvReady(ok) == /\ broadcast_source /\ ~source_ext_adv /\ Below
                   /\ source_ext_adv' = TRUE /\ Start(ok)
                   /\ UNCHANGED <<audioVars, encVars, source_presses, disables, strm_state, le_pc,
                                  test_tone>>
\* For the public interface; this application never disables its source.
DisableSource(ok) == /\ disables < MaxDisables /\ disables' = disables + 1 /\ Below
                     /\ Disable(ok)
                     /\ UNCHANGED <<audioVars, encVars, source_ext_adv, source_presses, strm_state, le_pc,
                                    test_tone>>

(* button_event_handler(): play/pause and volume-down do the same.              *)
PlayPause(ok) == /\ source_presses < MaxSourcePresses /\ source_presses' = source_presses + 1 /\ Below
                 /\ IF strm_state = "STREAMING" THEN Stop(ok)
                    ELSE IF source_ext_adv THEN Start(ok) ELSE UNCHANGED sourceVars
                 /\ UNCHANGED <<audioVars, encVars, source_ext_adv, disables, strm_state, le_pc, test_tone>>
\* audio_system_encode_test_tone_step(): 1, 2 and 4 kHz, then off.
ToneStep == (test_tone + 1) % 4
VolumeUp == /\ TestTone /\ Below
            /\ strm_state = "STREAMING" /\ test_tone' = ToneStep
            /\ UNCHANGED <<sourceVars, audioVars, encVars, envVars, strm_state, le_pc>>
-----------------------------------------------------------------------------
(* le_audio_msg_sub_thread()                                                    *)
NextEvent(event, pc) == /\ le_pc = "wait" /\ le_audio_chan # <<>> /\ Below
                        /\ Head(le_audio_chan) = event
                        /\ le_audio_chan' = Tail(le_audio_chan)
                        /\ le_pc' = pc
                        /\ UNCHANGED <<sourceHostVars, libVars, iso_tx_pool_alloc, encVars, envVars,
                                       strm_state, sw_codec, usb_on, test_tone>>
LeStreaming == /\ NextEvent("STREAMING",
                            IF strm_state = "STREAMING" THEN "wait" ELSE "init_codec")
               /\ encoder_sig' = TRUE
LeNotStreaming == /\ NextEvent("NOT_STREAMING",
                               IF strm_state = "PAUSED" THEN "wait" ELSE "pause")
                  /\ encoder_sig' = FALSE

At(pc, next) == /\ le_pc = pc /\ le_pc' = next /\ Below
                /\ UNCHANGED <<sourceVars, envVars, encoder_sig, test_tone>>
\* audio_system_start(): the codec, at the first start the encoder thread, then USB.
StartCodec == /\ At("init_codec", "start_usb")
              /\ sw_codec' = TRUE /\ enc_pc' = IF enc_pc = "none" THEN "poll" ELSE enc_pc
              /\ UNCHANGED <<usb_on, audio_q_rx, collected, tx, strm_state>>
\* Mutant: the state is not set.
StartUsbOnly == /\ At("start_usb", "wait")
                /\ usb_on' = TRUE /\ UNCHANGED <<sw_codec, encVars, strm_state>>
StartUsb == /\ At("start_usb", "streaming")
            /\ usb_on' = TRUE /\ UNCHANGED <<sw_codec, encVars, strm_state>>
SetStreaming == /\ At("streaming", "wait")
                /\ strm_state' = "STREAMING" /\ UNCHANGED <<sw_codec, usb_on, encVars>>
SetPaused == /\ At("pause", IF sw_codec THEN "stop_usb" ELSE "wait")
             /\ strm_state' = "PAUSED" /\ UNCHANGED <<sw_codec, usb_on, encVars>>
\* audio_system_stop()
\* Mutant: the codec goes before USB has stopped.
StopUsbAndCodec == /\ At("stop_usb", "uninit_codec")
                   /\ sw_codec' = FALSE /\ UNCHANGED <<usb_on, encVars, strm_state>>
StopUsb == /\ At("stop_usb", "uninit_codec")
           /\ usb_on' = FALSE /\ UNCHANGED <<sw_codec, encVars, strm_state>>
StopCodec == /\ At("uninit_codec", "wait")
             /\ sw_codec' = FALSE /\ UNCHANGED <<usb_on, encVars, strm_state>>
LeThread == \/ LeStreaming \/ LeNotStreaming \/ StartCodec \/ StartUsb \/ SetStreaming
            \/ SetPaused \/ StopUsb \/ StopCodec
-----------------------------------------------------------------------------
(* data_received(): a full queue loses its oldest block.  The encoder thread    *)
(* takes less than the period of a block to react.                             *)
UsbBlock == /\ usb_on /\ Below
            /\ enc_pc \in {"poll", "sleep", "send"} => audio_q_rx < MaxBacklog
            /\ audio_q_rx' = IF audio_q_rx = FRAME THEN FRAME ELSE audio_q_rx + 1
            /\ UNCHANGED <<sourceVars, audioVars, envVars, strm_state, le_pc, test_tone,
                           enc_pc, collected, tx>>

(* encoder_thread()                                                             *)
EncoderStep == UNCHANGED <<sourceVars, audioVars, envVars, strm_state, le_pc, test_tone>>

\* sw_codec_encode(), whose failure is fatal, and the head of streamctrl_send().
EncodeAndSend == IF ~sw_codec THEN enc_pc' = "fatal" /\ tx' = {}
                 ELSE /\ tx' = IF strm_state = "STREAMING" THEN ActiveStreams ELSE {}
                      /\ enc_pc' = IF tx' = {} THEN "poll" ELSE "send"

EncoderPoll == /\ enc_pc = "poll" /\ encoder_sig /\ enc_pc' = "wait"
               /\ EncoderStep /\ UNCHANGED <<audio_q_rx, collected, tx>>
GetBlock == /\ enc_pc \in {"wait", "collect"} /\ audio_q_rx > 0
            /\ audio_q_rx' = audio_q_rx - 1
            /\ IF collected + 1 < FRAME
               THEN collected' = collected + 1 /\ enc_pc' = "collect" /\ UNCHANGED tx
               ELSE collected' = 0 /\ EncodeAndSend
            /\ EncoderStep
\* No block came in time: the tone is made here, and the thread sleeps for a frame.
MakeTone == /\ enc_pc = "wait" /\ audio_q_rx = 0 /\ test_tone # 0
            /\ enc_pc' = "sleep" /\ EncoderStep /\ UNCHANGED <<audio_q_rx, collected, tx>>
Wake == /\ enc_pc = "sleep" /\ EncodeAndSend
        /\ EncoderStep /\ UNCHANGED <<audio_q_rx, collected>>
\* bt_le_audio_tx_send(), stream by stream: after each it waits for the HCI command that
\* reads the time stamp.
SendNext(s, ok) == /\ enc_pc = "send" /\ s \in tx /\ \A t \in tx : s <= t
                   /\ iso_stream_send(s, ok)
                   /\ tx' = tx \ {s} /\ enc_pc' = IF tx = {s} THEN "poll" ELSE "send"
                   /\ UNCHANGED <<audioVars, envVars, strm_state, le_pc, test_tone, audio_q_rx,
                                  collected>>
Encoder == \/ EncoderPoll \/ GetBlock \/ MakeTone \/ Wake
           \/ \E s \in Bises, ok \in BOOLEAN : SendNext(s, ok)

HostCallback == /\ enc_pc # "fatal"
                /\ \E s \in Bises : StreamStarted(s) \/ StreamStopped(s) \/ StreamSent(s)
                /\ UNCHANGED <<audioVars, encVars, envVars, strm_state, le_pc, test_tone>>

StreamingNext == \/ \E ok \in BOOLEAN : \/ EnableSource(ok) \/ ExtAdvReady(ok) \/ DisableSource(ok)
                                        \/ PlayPause(ok)
                 \/ VolumeUp \/ LeThread \/ UsbBlock \/ Encoder \/ HostCallback

\* The threads run while they have something to do, the LE Audio thread in the time the
\* encoder leaves it; the host ends what it has begun.
StreamingFairness == /\ SF_streamingVars(LeThread) /\ WF_streamingVars(Encoder)
                     /\ WF_streamingVars(HostCallback)
StreamingSpec == StreamingInit /\ [][StreamingNext]_streamingVars /\ StreamingFairness
-----------------------------------------------------------------------------
\* The type invariant.
StreamingTypeOK == /\ SourceTypeOK
                   /\ source_ext_adv \in BOOLEAN /\ strm_state \in {"PAUSED", "STREAMING"}
                   /\ le_pc \in {"wait", "init_codec", "start_usb", "streaming", "pause", "stop_usb",
                                 "uninit_codec"}
                   /\ encoder_sig \in BOOLEAN /\ sw_codec \in BOOLEAN /\ usb_on \in BOOLEAN
                   /\ audio_q_rx \in 0..FRAME /\ collected \in 0..(FRAME - 1)
                   /\ enc_pc \in {"none", "poll", "wait", "collect", "sleep", "send", "fatal"}
                   /\ tx \subseteq Bises /\ test_tone \in 0..3

\* The count of outstanding buffers of a streaming stream is the number of SDUs the host
\* really holds, whatever was in flight when the stream stopped, so that a restarted
\* stream is neither throttled nor allowed to delay the audio.
BuffersCounted == \A s \in Bises : BisStreaming(s) => iso_tx_pool_alloc[s] = in_flight[s]

\* broadcast_sources[0] and the host agree on whether there is a source, through every
\* order of stops, disables that fail half-way and callbacks.
SourceIsHosts == broadcast_source = (big # "none")

\* ERR_CHK_MSG(ret, "Encode failed"): the encoder thread does not encode with a codec
\* that the LE Audio thread has taken away, unless it slept in the test tone meanwhile: a
\* block left from before a pause may be taken before the codec is there again, but as long
\* as less than a frame piles up no frame of them is encoded.
EncodeSucceedsAwake == [][enc_pc' = "fatal" => enc_pc \in {"sleep", "fatal"}]_streamingVars

\* What the library books about the host is what the host has.
HostAgrees == BuffersCounted /\ SourceIsHosts

\* When every event has been handled, strm_state, the encoder's signal and the audio system
\* are what the streams are, however a press and two streams' events interleaved; and a
\* source that goes on streaming is taken up by the application, encoder and all.
Handled == le_audio_chan = <<>> /\ le_pc = "wait" /\ big \in {"none", "configured", "streaming"}
Follows(on) == /\ strm_state = (IF on THEN "STREAMING" ELSE "PAUSED")
               /\ encoder_sig = on /\ sw_codec = on /\ usb_on = on
ApplicationFollows ==
  /\ [](Handled => Follows(big = "streaming"))
  /\ (big = "streaming") ~> (strm_state = "STREAMING" \/ big # "streaming" \/ enc_pc = "fatal")
=============================================================================
