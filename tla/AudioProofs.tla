----------------------------- MODULE AudioProofs -----------------------------
(* The source's streams and threads, the volume of a headset, the files that are   *)
(* mixed in or streamed, and the search for them: for any number of streams,       *)
(* buffers, blocks and frames, any volumes, files and cards, and any schedule of   *)
(* the threads.                                                                    *)
EXTENDS AudioParts, LeAudioRxProofs, SequenceTheorems,
        WellFoundedInduction, TLAPS

(* BroadcastSource and SourceStreaming: the count of buffers and the pointer of the *)
(* source agree with the host.                                                     *)

\* The types that the argument needs, without the queue of events.
HostTypes == /\ big \in {"none", "configured", "starting", "streaming", "stopping"}
             /\ ep \in [Bises -> {"none", "configured", "streaming"}]
             /\ in_flight \in [Bises -> Nat] /\ iso_tx_pool_alloc \in [Bises -> Nat]
             /\ broadcast_source \in BOOLEAN

\* The host holds buffers of streaming streams only, and no stream of a source that has
\* not been started streams.
HeldByStreaming == \A s \in Bises : in_flight[s] > 0 => BisStreaming(s)
SilentUntilStarted == big \in {"none", "configured"} => \A s \in Bises : ~BisStreaming(s)

HostInv == /\ HostTypes /\ HeldByStreaming /\ SilentUntilStarted /\ BuffersCounted /\ SourceIsHosts

LEMMA HostInit == StreamingInit => HostInv
<1> SUFFICES ASSUME StreamingInit PROVE HostInv
    OBVIOUS
<1>1. HostTypes
    BY DEF StreamingInit, SourceInit, HostTypes, EveryEp, Idle
<1>3. HeldByStreaming /\ SilentUntilStarted /\ BuffersCounted
    BY DEF StreamingInit, SourceInit, HeldByStreaming, SilentUntilStarted, BuffersCounted,
           BisStreaming, EveryEp, Idle
<1>2. SourceIsHosts
    BY DEF StreamingInit, SourceInit, SourceIsHosts
<1> QED
    BY <1>1, <1>2, <1>3 DEF HostInv

LEMMA HostUnchanged == HostInv /\ UNCHANGED <<sourceHostVars, broadcast_source, iso_tx_pool_alloc>> => HostInv'
BY DEF HostInv, HostTypes, HeldByStreaming, SilentUntilStarted, BuffersCounted, SourceIsHosts,
       BisStreaming, sourceHostVars

LEMMA EnableInv == ASSUME NEW ok \in BOOLEAN, HostInv, EnableSource(ok) PROVE HostInv'
<1>1. big = "none" /\ broadcast_source = FALSE
    BY DEF EnableSource, HostInv, HostTypes
<1>2. \A s \in Bises : ~BisStreaming(s)'
    BY DEF EnableSource, Enable, EveryEp, BisStreaming
<1>3. HeldByStreaming'
    BY <1>1 DEF HostInv, HostTypes, HeldByStreaming, SilentUntilStarted, EnableSource, Enable
<1>4. SilentUntilStarted' /\ BuffersCounted'
    BY <1>2 DEF SilentUntilStarted, BuffersCounted
<1>5. HostTypes' /\ SourceIsHosts'
    <2>1. CASE ok
        BY <1>1, <2>1 DEF EnableSource, Enable, EveryEp, HostInv, HostTypes, SourceIsHosts
    <2>2. CASE ~ok
        BY <1>1, <2>2 DEF EnableSource, Enable, EveryEp, HostInv, HostTypes, SourceIsHosts
    <2> QED
        BY <2>1, <2>2
<1> QED
    BY <1>3, <1>4, <1>5 DEF HostInv

LEMMA StartStopInv == ASSUME NEW ok \in BOOLEAN, HostInv, Start(ok) \/ Stop(ok) PROVE HostInv'
<1>1. UNCHANGED <<ep, in_flight, iso_tx_pool_alloc, broadcast_source>>
    BY DEF Start, Stop, libVars
<1>2. \/ big' = big
      \/ big = "configured" /\ big' = "starting"
      \/ big = "streaming" /\ big' = "stopping"
    BY DEF Start, Stop, HostStop
<1>3. HostTypes' /\ HeldByStreaming' /\ BuffersCounted'
    BY <1>1, <1>2 DEF HostInv, HostTypes, HeldByStreaming, BuffersCounted, BisStreaming
<1>4. SilentUntilStarted'
    BY <1>1, <1>2 DEF HostInv, SilentUntilStarted, BisStreaming
<1>5. SourceIsHosts'
    BY <1>1, <1>2 DEF HostInv, SourceIsHosts
<1> QED
    BY <1>3, <1>4, <1>5 DEF HostInv

\* A source is deleted when none of its streams streams.
LEMMA DeleteInv ==
    ASSUME HostInv, DeleteSource, UNCHANGED iso_tx_pool_alloc,
           in_flight' \in [Bises -> Nat], \A s \in Bises : in_flight'[s] = 0
    PROVE  HostInv'
<1>1. \A s \in Bises : ~BisStreaming(s)'
    BY DEF DeleteSource, EveryEp, BisStreaming
<1>2. HeldByStreaming' /\ SilentUntilStarted' /\ BuffersCounted'
    BY <1>1 DEF HeldByStreaming, SilentUntilStarted, BuffersCounted
<1>3. HostTypes' /\ SourceIsHosts'
    BY DEF DeleteSource, EveryEp, HostInv, HostTypes, SourceIsHosts
<1> QED
    BY <1>2, <1>3 DEF HostInv

LEMMA DisableInv == ASSUME NEW ok \in BOOLEAN, HostInv, Disable(ok) PROVE HostInv'
<1>1. CASE ~BisStreaming(First) /\ ok /\ big = "configured"
    <2>1. \A s \in Bises : in_flight[s] = 0
        BY <1>1 DEF HostInv, HostTypes, HeldByStreaming, SilentUntilStarted
    <2>2. DeleteSource /\ UNCHANGED <<in_flight, iso_tx_pool_alloc>>
        BY <1>1 DEF Disable
    <2> QED
        BY <2>1, <2>2, DeleteInv DEF HostInv, HostTypes
<1>2. CASE ~BisStreaming(First) /\ ~(ok /\ big = "configured")
    BY <1>2, HostUnchanged DEF Disable, sourceHostVars
<1>3. CASE BisStreaming(First)
    <2>1. UNCHANGED <<ep, in_flight, iso_tx_pool_alloc, broadcast_source>>
        BY <1>3 DEF Disable
    <2>2. big' = big \/ (big = "streaming" /\ big' = "stopping")
        BY <1>3 DEF Disable, HostStop
    <2>3. HostTypes' /\ HeldByStreaming' /\ BuffersCounted'
        BY <2>1, <2>2 DEF HostInv, HostTypes, HeldByStreaming, BuffersCounted, BisStreaming
    <2>4. SilentUntilStarted'
        BY <2>1, <2>2 DEF HostInv, SilentUntilStarted, BisStreaming
    <2>5. SourceIsHosts'
        BY <2>1, <2>2 DEF HostInv, SourceIsHosts
    <2> QED
        BY <2>3, <2>4, <2>5 DEF HostInv
<1> QED
    BY <1>1, <1>2, <1>3

LEMMA StreamStartedInv == ASSUME NEW s \in Bises, HostInv, StreamStarted(s) PROVE HostInv'
<1>1. /\ big = "starting" /\ big' \in {"starting", "streaming"} /\ ep[s] # "streaming"
      /\ ep' = [ep EXCEPT ![s] = "streaming"]
      /\ iso_tx_pool_alloc' = [iso_tx_pool_alloc EXCEPT ![s] = 0]
      /\ UNCHANGED <<in_flight, broadcast_source>>
    BY DEF StreamStarted, BisStreaming, Restarted, libVars
<1>2. HostTypes'
    BY <1>1 DEF HostInv, HostTypes
<1>3. in_flight[s] = 0
    BY <1>1 DEF HostInv, HostTypes, HeldByStreaming, BisStreaming
<1>4. HeldByStreaming' /\ BuffersCounted'
    BY <1>1, <1>3 DEF HostInv, HostTypes, HeldByStreaming, BuffersCounted, BisStreaming
<1>5. SilentUntilStarted' /\ SourceIsHosts'
    BY <1>1 DEF HostInv, SilentUntilStarted, SourceIsHosts
<1> QED
    BY <1>2, <1>4, <1>5 DEF HostInv

LEMMA StreamStoppedInv == ASSUME NEW s \in Bises, HostInv, StreamStopped(s) PROVE HostInv'
<1>1. /\ big = "stopping" /\ UNCHANGED iso_tx_pool_alloc
      /\ in_flight' = [in_flight EXCEPT ![s] = 0] /\ in_flight' \in [Bises -> Nat]
    BY DEF StreamStopped, HostInv, HostTypes
<1>2. CASE DeleteSource
    <2>1. CASE LastOf(s)
        <3>1. \A t \in Bises : in_flight'[t] = 0
            BY <1>1, <2>1 DEF LastOf, HostInv, HostTypes, HeldByStreaming
        <3> QED
            BY <1>1, <1>2, <3>1, DeleteInv
    <2>2. CASE ~LastOf(s)
        BY <1>1, <1>2, <2>2 DEF StreamStopped, DeleteSource
    <2> QED
        BY <2>1, <2>2
<1>3. CASE ~DeleteSource
    <2>1. /\ ep' = [ep EXCEPT ![s] = "configured"] /\ broadcast_source' = broadcast_source
          /\ big' = IF LastOf(s) THEN "configured" ELSE "stopping"
        BY <1>1, <1>3 DEF StreamStopped, libVars
    <2>2. HostTypes'
        BY <1>1, <2>1 DEF HostInv, HostTypes
    <2>3. HeldByStreaming' /\ BuffersCounted'
        BY <1>1, <2>1 DEF HostInv, HostTypes, HeldByStreaming, BuffersCounted, BisStreaming
    <2>4. SilentUntilStarted'
        BY <2>1 DEF HostInv, HostTypes, SilentUntilStarted, LastOf, BisStreaming
    <2>5. SourceIsHosts'
        BY <1>1, <2>1 DEF HostInv, SourceIsHosts
    <2> QED
        BY <2>2, <2>3, <2>4, <2>5 DEF HostInv
<1> QED
    BY <1>2, <1>3

LEMMA StreamSentInv == ASSUME NEW s \in Bises, HostInv, StreamSent(s) PROVE HostInv'
<1>1. /\ in_flight[s] > 0 /\ UNCHANGED <<big, ep, broadcast_source>>
      /\ in_flight' = [in_flight EXCEPT ![s] = in_flight[s] - 1]
      /\ iso_tx_pool_alloc' = [iso_tx_pool_alloc EXCEPT ![s] = iso_tx_pool_alloc[s] - 1]
    BY DEF StreamSent, libVars
<1>2. BisStreaming(s) /\ iso_tx_pool_alloc[s] = in_flight[s]
    BY <1>1 DEF HostInv, HeldByStreaming, BuffersCounted
<1>3. HostTypes'
    BY <1>1, <1>2 DEF HostInv, HostTypes
<1>4. HeldByStreaming' /\ BuffersCounted'
    BY <1>1, <1>2 DEF HostInv, HostTypes, HeldByStreaming, BuffersCounted, BisStreaming
<1>5. SilentUntilStarted' /\ SourceIsHosts'
    BY <1>1 DEF HostInv, SilentUntilStarted, SourceIsHosts, BisStreaming
<1> QED
    BY <1>3, <1>4, <1>5 DEF HostInv

LEMMA SendInv == ASSUME NEW s \in Bises, NEW ok \in BOOLEAN, HostInv, iso_stream_send(s, ok) PROVE HostInv'
<1>1. UNCHANGED <<big, ep, broadcast_source>>
    BY DEF iso_stream_send, libVars
<1>2. CASE Sendable(s) /\ ok
    <2>1. /\ in_flight' = [in_flight EXCEPT ![s] = in_flight[s] + 1]
          /\ iso_tx_pool_alloc' = [iso_tx_pool_alloc EXCEPT ![s] = iso_tx_pool_alloc[s] + 1]
          /\ BisStreaming(s)
        BY <1>2 DEF iso_stream_send, Sendable
    <2>2. HostTypes'
        BY <1>1, <2>1 DEF HostInv, HostTypes
    <2>3. HeldByStreaming' /\ BuffersCounted'
        BY <1>1, <2>1 DEF HostInv, HostTypes, HeldByStreaming, BuffersCounted, BisStreaming
    <2>4. SilentUntilStarted' /\ SourceIsHosts'
        BY <1>1 DEF HostInv, SilentUntilStarted, SourceIsHosts, BisStreaming
    <2> QED
        BY <2>2, <2>3, <2>4 DEF HostInv
<1>3. CASE ~(Sendable(s) /\ ok)
    BY <1>1, <1>3, HostUnchanged DEF iso_stream_send, sourceHostVars
<1> QED
    BY <1>2, <1>3

\* The steps of the application and of its threads.
LEMMA ApplicationInv ==
    ASSUME HostInv, \/ \E ok \in BOOLEAN : ExtAdvReady(ok) \/ DisableSource(ok) \/ PlayPause(ok)
                    \/ VolumeUp \/ LeThread \/ UsbBlock
    PROVE  HostInv'
<1>1. ASSUME NEW ok \in BOOLEAN, ExtAdvReady(ok) PROVE HostInv'
    BY <1>1, StartStopInv DEF ExtAdvReady
<1>2. ASSUME NEW ok \in BOOLEAN, DisableSource(ok) PROVE HostInv'
    BY <1>2, DisableInv DEF DisableSource
<1>3. ASSUME NEW ok \in BOOLEAN, PlayPause(ok) PROVE HostInv'
    BY <1>3, StartStopInv, HostUnchanged DEF PlayPause, sourceVars, libVars
<1>4. CASE VolumeUp \/ UsbBlock
    BY <1>4, HostUnchanged DEF VolumeUp, UsbBlock, sourceVars, libVars
<1>5. CASE LeThread
    <2>1. UNCHANGED <<sourceHostVars, broadcast_source, iso_tx_pool_alloc>>
        BY <1>5 DEF LeThread, LeStreaming, LeNotStreaming, StartCodec, StartUsb, SetStreaming, SetPaused, StopUsb,
                    StopCodec, NextEvent, At, sourceVars, libVars
    <2> QED
        BY <2>1, HostUnchanged
<1> QED
    BY <1>1, <1>2, <1>3, <1>4, <1>5

LEMMA EncoderInv == HostInv /\ Encoder => HostInv'
<1> SUFFICES ASSUME HostInv, Encoder PROVE HostInv'
    OBVIOUS
<1>1. CASE EncoderPoll \/ GetBlock \/ MakeTone \/ Wake
    BY <1>1, HostUnchanged DEF EncoderPoll, GetBlock, MakeTone, Wake, EncoderStep, sourceVars, libVars
<1>2. ASSUME NEW s \in Bises, NEW ok \in BOOLEAN, SendNext(s, ok) PROVE HostInv'
    BY <1>2, SendInv DEF SendNext
<1> QED
    BY <1>1, <1>2 DEF Encoder

LEMMA HostStep == HostInv /\ [StreamingNext]_streamingVars => HostInv'
<1> SUFFICES ASSUME HostInv, [StreamingNext]_streamingVars PROVE HostInv'
    OBVIOUS
<1>1. CASE HostCallback
    BY <1>1, StreamStartedInv, StreamStoppedInv, StreamSentInv DEF HostCallback
<1>2. CASE UNCHANGED streamingVars
    BY <1>2, HostUnchanged DEF streamingVars, sourceVars, libVars
<1> QED
    BY <1>1, <1>2, EnableInv, ApplicationInv, EncoderInv DEF StreamingNext

LEMMA HostInvariant == StreamingSpec => []HostInv
BY HostInit, HostStep, PTL DEF StreamingSpec

\* However the encoder's sends, the host's callbacks, the stops and the disables that fail
\* half-way interleave, the transmit pool counts what the host really holds, and the
\* library's pointer says whether the host has a source.
THEOREM SourceBooks == StreamingSpec => []HostAgrees
<1>1. HostInv => HostAgrees
    BY DEF HostInv, HostAgrees
<1> QED
    BY HostInvariant, <1>1, PTL
-----------------------------------------------------------------------------
(* SourceStreaming: the application follows the streams, and no frame is encoded without *)
(* a codec.                                                                              *)

\* What ApplicationFollows says of every state.
AtRest == Handled => Follows(big = "streaming")

\* The position of the LE Audio thread says what is on: it switches the codec, USB and the
\* state on in this order, and off from the state to the codec.
StageInv ==
  /\ encoder_sig \in BOOLEAN /\ sw_codec \in BOOLEAN /\ usb_on \in BOOLEAN
  /\ strm_state \in {"PAUSED", "STREAMING"}
  /\ le_pc \in {"wait", "init_codec", "start_usb", "streaming", "pause", "stop_usb", "uninit_codec"}
  /\ le_pc = "pause" => strm_state = "STREAMING"
  /\ le_pc \notin {"wait", "pause"} => strm_state = "PAUSED"
  /\ encoder_sig <=> \/ le_pc = "wait" /\ strm_state = "STREAMING"
                     \/ le_pc \in {"init_codec", "start_usb", "streaming"}
  /\ sw_codec <=> \/ strm_state = "STREAMING"
                  \/ le_pc \in {"start_usb", "streaming", "stop_usb", "uninit_codec"}
  /\ usb_on <=> strm_state = "STREAMING" \/ le_pc \in {"streaming", "stop_usb"}

LEMMA StageUnchanged == StageInv /\ UNCHANGED <<audioVars, strm_state, le_pc>> => StageInv'
BY DEF StageInv, audioVars

LEMMA StageKept == StageInv /\ [StreamingNext]_streamingVars => StageInv'
<1> SUFFICES ASSUME StageInv, [StreamingNext]_streamingVars PROVE StageInv'
    OBVIOUS
<1>1. CASE LeStreaming
    <2>1. /\ le_pc = "wait" /\ le_pc' = IF strm_state = "STREAMING" THEN "wait" ELSE "init_codec"
          /\ UNCHANGED <<strm_state, sw_codec, usb_on>>
        BY <1>1 DEF LeStreaming, NextEvent
    <2>2. encoder_sig' /\ encoder_sig' \in BOOLEAN
        BY <1>1, Zenon DEF LeStreaming
    <2> QED
        BY <2>1, <2>2 DEF StageInv
<1>2. CASE LeNotStreaming
    <2>1. /\ le_pc = "wait" /\ le_pc' = IF strm_state = "PAUSED" THEN "wait" ELSE "pause"
          /\ UNCHANGED <<strm_state, sw_codec, usb_on>>
        BY <1>2 DEF LeNotStreaming, NextEvent
    <2>2. ~encoder_sig' /\ encoder_sig' \in BOOLEAN
        BY <1>2, Zenon DEF LeNotStreaming
    <2> QED
        BY <2>1, <2>2 DEF StageInv
<1>3. CASE SetStreaming \/ SetPaused
    <2>1. UNCHANGED <<encoder_sig, sw_codec, usb_on>>
        BY <1>3 DEF SetStreaming, SetPaused, At
    <2>2. \/ le_pc = "streaming" /\ le_pc' = "wait" /\ strm_state' = "STREAMING"
          \/ /\ le_pc = "pause" /\ le_pc' = IF sw_codec THEN "stop_usb" ELSE "wait"
             /\ strm_state' = "PAUSED"
        BY <1>3 DEF SetStreaming, SetPaused, At
    <2> QED
        BY <2>1, <2>2 DEF StageInv
<1>4. CASE StartCodec \/ StopCodec
    <2>1. UNCHANGED <<encoder_sig, usb_on, strm_state>>
        BY <1>4 DEF StartCodec, StopCodec, At
    <2>2. \/ le_pc = "init_codec" /\ le_pc' = "start_usb" /\ sw_codec'
          \/ le_pc = "uninit_codec" /\ le_pc' = "wait" /\ ~sw_codec'
        BY <1>4, Zenon DEF StartCodec, StopCodec, At
    <2>3. sw_codec' \in BOOLEAN
        BY <1>4, Zenon DEF StartCodec, StopCodec
    <2> QED
        BY <2>1, <2>2, <2>3 DEF StageInv
<1>8. CASE StartUsb \/ StopUsb
    <2>1. UNCHANGED <<encoder_sig, sw_codec, strm_state>>
        BY <1>8 DEF StartUsb, StopUsb, At
    <2>2. \/ le_pc = "start_usb" /\ le_pc' = "streaming" /\ usb_on'
          \/ le_pc = "stop_usb" /\ le_pc' = "uninit_codec" /\ ~usb_on'
        BY <1>8, Zenon DEF StartUsb, StopUsb, At
    <2>3. usb_on' \in BOOLEAN
        BY <1>8, Zenon DEF StartUsb, StopUsb
    <2> QED
        BY <2>1, <2>2, <2>3 DEF StageInv
<1>5. CASE UsbBlock \/ VolumeUp \/ HostCallback \/ UNCHANGED streamingVars
    BY <1>5, StageUnchanged DEF UsbBlock, VolumeUp, HostCallback, streamingVars
<1>6. CASE Encoder
    BY <1>6, StageUnchanged DEF Encoder, EncoderPoll, GetBlock, MakeTone, Wake, SendNext, EncoderStep
<1>7. ASSUME NEW ok \in BOOLEAN,
             EnableSource(ok) \/ ExtAdvReady(ok) \/ DisableSource(ok) \/ PlayPause(ok)
      PROVE  StageInv'
    BY <1>7, StageUnchanged DEF EnableSource, ExtAdvReady, DisableSource, PlayPause
<1> QED
    BY <1>1, <1>2, <1>3, <1>4, <1>5, <1>6, <1>7, <1>8 DEF StreamingNext, LeThread

\* The last event published, or the one that was handled last, is what the streams are
\* whenever none of them is on its way.
Latest == IF le_audio_chan # <<>> THEN le_audio_chan[Len(le_audio_chan)]
          ELSE IF encoder_sig THEN "STREAMING" ELSE "NOT_STREAMING"
EventInv == /\ le_audio_chan \in Seq({"STREAMING", "NOT_STREAMING"})
            /\ big = "streaming" => Latest = "STREAMING"
            /\ big \in {"none", "configured"} => Latest = "NOT_STREAMING"

LEMMA LatestPublished ==
    ASSUME EventInv, NEW event \in {"STREAMING", "NOT_STREAMING"}, le_audio_event_publish(event)
    PROVE  Latest' = event /\ le_audio_chan' \in Seq({"STREAMING", "NOT_STREAMING"})
<1> DEFINE q == Append(le_audio_chan, event)
<1>1. /\ q \in Seq({"STREAMING", "NOT_STREAMING"}) /\ q # <<>>
      /\ q[Len(q)] = event
    BY AppendProperties DEF EventInv
<1>2. le_audio_chan' = q
    BY DEF le_audio_event_publish
<1> HIDE DEF q
<1> QED
    BY <1>1, <1>2 DEF Latest

\* Handling an event does not change the last one.
LEMMA LatestHandled ==
    ASSUME EventInv, LeStreaming \/ LeNotStreaming
    PROVE  Latest' = Latest /\ le_audio_chan' \in Seq({"STREAMING", "NOT_STREAMING"})
<1>1. /\ le_audio_chan # <<>> /\ le_audio_chan' = Tail(le_audio_chan)
      /\ le_audio_chan \in Seq({"STREAMING", "NOT_STREAMING"})
    BY DEF LeStreaming, LeNotStreaming, NextEvent, EventInv
<1>2. \/ Head(le_audio_chan) = "STREAMING" /\ encoder_sig' = TRUE
      \/ Head(le_audio_chan) = "NOT_STREAMING" /\ encoder_sig' = FALSE
    BY DEF LeStreaming, LeNotStreaming, NextEvent
<1> DEFINE q == le_audio_chan
           t == Tail(le_audio_chan)
<1>3. /\ t \in Seq({"STREAMING", "NOT_STREAMING"}) /\ Head(q) = q[1]
      /\ Len(t) \in Nat /\ Len(q) = Len(t) + 1
      /\ \A i \in 1..Len(t) : t[i] = q[i + 1]
    BY <1>1, HeadTailProperties, LenProperties
<1>4. CASE t = <<>>
    <2>1. Len(q) = 1
        <3>1. Len(t) = 0
            BY <1>3, <1>4, EmptySeq
        <3> QED
            BY <1>3, <3>1
    <2>2. Latest = q[1]
        BY <1>1, <2>1 DEF Latest
    <2>3. Latest' = q[1]
        BY <1>1, <1>2, <1>3, <1>4 DEF Latest
    <2> QED
        BY <1>1, <1>3, <2>2, <2>3
<1>5. CASE t # <<>>
    <2>1. Len(t) \in 1..Len(t)
        BY <1>3, <1>5, EmptySeq
    <2>2. t[Len(t)] = q[Len(q)]
        BY <1>3, <2>1
    <2> QED
        BY <1>1, <1>3, <1>5, <2>2 DEF Latest
<1> QED
    BY <1>4, <1>5

LEMMA EventUnchanged ==
    ASSUME EventInv, UNCHANGED <<le_audio_chan, encoder_sig>>,
           \/ big' = big \/ big' \in {"starting", "stopping"}
           \/ big \in {"none", "configured"} /\ big' \in {"none", "configured"}
    PROVE  EventInv'
BY DEF EventInv, Latest

LEMMA EventKept == HostInv /\ EventInv /\ [StreamingNext]_streamingVars => EventInv'
<1> SUFFICES ASSUME HostInv, EventInv, [StreamingNext]_streamingVars PROVE EventInv'
    OBVIOUS
<1>1. CASE LeStreaming \/ LeNotStreaming
    <2>1. big' = big
        BY <1>1 DEF LeStreaming, LeNotStreaming, NextEvent, sourceHostVars
    <2> QED
        BY <1>1, <2>1, LatestHandled DEF EventInv
<1>2. CASE StartCodec \/ StartUsb \/ SetStreaming \/ SetPaused \/ StopUsb \/ StopCodec
    BY <1>2, EventUnchanged DEF StartCodec, StartUsb, SetStreaming, SetPaused, StopUsb, StopCodec,
       At, sourceVars, sourceHostVars
<1>3. CASE UsbBlock \/ VolumeUp \/ UNCHANGED streamingVars
    BY <1>3, EventUnchanged DEF UsbBlock, VolumeUp, streamingVars, sourceVars, sourceHostVars, audioVars
<1>4. CASE Encoder
    BY <1>4, EventUnchanged DEF Encoder, EncoderPoll, GetBlock, MakeTone, Wake, SendNext, EncoderStep,
       iso_stream_send, sourceVars, sourceHostVars, audioVars
<1>5. ASSUME NEW s \in Bises, StreamStarted(s), UNCHANGED encoder_sig
      PROVE  EventInv'
    <2>1. big' \in {"starting", "streaming"} /\ le_audio_event_publish("STREAMING")
        BY <1>5 DEF StreamStarted
    <2> QED
        BY <2>1, LatestPublished DEF EventInv
<1>6. ASSUME NEW s \in Bises, StreamStopped(s), UNCHANGED encoder_sig
      PROVE  EventInv'
    <2>1. big' # "streaming" /\ le_audio_event_publish("NOT_STREAMING")
        BY <1>6 DEF StreamStopped, DeleteSource
    <2> QED
        BY <2>1, LatestPublished DEF EventInv
<1>7. ASSUME NEW s \in Bises, StreamSent(s), UNCHANGED encoder_sig
      PROVE  EventInv'
    BY <1>7, EventUnchanged DEF StreamSent
<1>8. CASE HostCallback
    BY <1>5, <1>6, <1>7, <1>8 DEF HostCallback, audioVars
<1>9. ASSUME NEW ok \in BOOLEAN, EnableSource(ok)
      PROVE  EventInv'
    BY <1>9, EventUnchanged DEF EnableSource, Enable, audioVars
<1>10. ASSUME NEW ok \in BOOLEAN, ExtAdvReady(ok) \/ PlayPause(ok)
       PROVE  EventInv'
    BY <1>10, EventUnchanged DEF ExtAdvReady, PlayPause, Start, Stop, HostStop, audioVars,
       sourceVars, sourceHostVars
<1>11. ASSUME NEW ok \in BOOLEAN, DisableSource(ok)
       PROVE  EventInv'
    BY <1>11, EventUnchanged DEF DisableSource, Disable, HostStop, DeleteSource, audioVars
<1> QED
    BY <1>1, <1>2, <1>3, <1>4, <1>8, <1>9, <1>10, <1>11 DEF StreamingNext, LeThread

\* When every event has been handled and no stream is on its way, state, encoder, codec and
\* USB are what the streams are: an event that undoes an earlier one is handled after it.
THEOREM ApplicationAtRest == StreamingSpec => []AtRest
<1>1. StreamingInit => StageInv /\ EventInv
    <2> SUFFICES ASSUME StreamingInit PROVE StageInv /\ EventInv
        OBVIOUS
    <2>1. <<>> \in Seq({"STREAMING", "NOT_STREAMING"})
        OBVIOUS
    <2> QED
        BY <2>1 DEF StreamingInit, SourceInit, StageInv, EventInv, Latest
<1>2. StageInv /\ EventInv => AtRest
    <2> SUFFICES ASSUME StageInv, EventInv, Handled
                 PROVE  Follows(big = "streaming")
        BY DEF AtRest
    <2>1. encoder_sig <=> big = "streaming"
        BY DEF Handled, EventInv, Latest
    <2>2. /\ strm_state = (IF big = "streaming" THEN "STREAMING" ELSE "PAUSED")
          /\ sw_codec <=> big = "streaming"
          /\ usb_on <=> big = "streaming"
        BY <2>1 DEF Handled, StageInv
    <2>3. encoder_sig \in BOOLEAN /\ sw_codec \in BOOLEAN /\ usb_on \in BOOLEAN
        BY DEF StageInv
    <2> QED
        BY <2>1, <2>2, <2>3, Zenon DEF Follows
<1> QED
    BY <1>1, <1>2, HostInvariant, StageKept, EventKept, PTL DEF StreamingSpec

\* The encoder's half of the types.
EncoderTypes ==
  /\ source_ext_adv \in BOOLEAN
  /\ audio_q_rx \in 0..FRAME /\ collected \in 0..(FRAME - 1)
  /\ enc_pc \in {"none", "poll", "wait", "collect", "sleep", "send", "fatal"}
  /\ tx \subseteq Bises /\ test_tone \in 0..3

EncoderUnchanged == UNCHANGED <<encVars, source_ext_adv, test_tone>>

LEMMA EncoderTyped == EncoderTypes /\ [StreamingNext]_streamingVars => EncoderTypes'
<1> USE StreamingAssumption
<1> SUFFICES ASSUME EncoderTypes, [StreamingNext]_streamingVars PROVE EncoderTypes'
    OBVIOUS
<1>1. CASE EncoderUnchanged
    BY <1>1 DEF EncoderUnchanged, encVars, EncoderTypes
<1>2. CASE UNCHANGED streamingVars
    BY <1>1, <1>2 DEF EncoderUnchanged, streamingVars, envVars
<1>3. ASSUME NEW ok \in BOOLEAN, ExtAdvReady(ok)
      PROVE  EncoderTypes'
    <2>1. source_ext_adv' \in BOOLEAN
        BY <1>3, Zenon DEF ExtAdvReady
    <2> QED
        BY <1>3, <2>1 DEF ExtAdvReady, encVars, EncoderTypes
<1>4. ASSUME NEW ok \in BOOLEAN, EnableSource(ok) \/ DisableSource(ok) \/ PlayPause(ok)
      PROVE  EncoderTypes'
    BY <1>1, <1>4 DEF EncoderUnchanged, EnableSource, DisableSource, PlayPause, envVars
<1>5. CASE VolumeUp
    <2>1. test_tone' \in 0..3
        BY <1>5 DEF VolumeUp, ToneStep, EncoderTypes
    <2> QED
        BY <1>5, <2>1 DEF VolumeUp, encVars, envVars, EncoderTypes
<1>6. CASE StartCodec
    BY <1>6 DEF StartCodec, At, envVars, EncoderTypes
<1>7. CASE LeStreaming \/ LeNotStreaming \/ StartUsb \/ SetStreaming \/ SetPaused \/ StopUsb \/ StopCodec
    BY <1>1, <1>7 DEF EncoderUnchanged, LeStreaming, LeNotStreaming, NextEvent, StartUsb, SetStreaming,
       SetPaused, StopUsb, StopCodec, At, envVars
<1>8. CASE UsbBlock
    BY <1>8 DEF UsbBlock, envVars, EncoderTypes
<1>9. CASE HostCallback
    BY <1>1, <1>9 DEF EncoderUnchanged, HostCallback, envVars
<1>10. CASE EncoderPoll \/ MakeTone
    BY <1>10 DEF EncoderPoll, MakeTone, EncoderStep, envVars, EncoderTypes
<1>11. EncodeAndSend => tx' \subseteq Bises /\ enc_pc' \in {"poll", "send", "fatal"}
    BY DEF EncodeAndSend, ActiveStreams
<1>12. CASE GetBlock
    BY <1>11, <1>12 DEF GetBlock, EncoderStep, envVars, EncoderTypes
<1>13. CASE Wake
    BY <1>11, <1>13 DEF Wake, EncoderStep, envVars, EncoderTypes
<1>14. ASSUME NEW s \in Bises, NEW ok \in BOOLEAN, SendNext(s, ok)
       PROVE  EncoderTypes'
    BY <1>14 DEF SendNext, envVars, EncoderTypes
<1> QED
    BY <1>2, <1>3, <1>4, <1>5, <1>6, <1>7, <1>8, <1>9, <1>10, <1>12, <1>13, <1>14
    DEF StreamingNext, LeThread, Encoder

\* What a stream that has its buffers counted can have out.
PoolInv == \A s \in Bises : iso_tx_pool_alloc[s] <= HCI_ISO_BUF_PER_CHAN

LEMMA PoolKept == HostInv /\ PoolInv /\ [StreamingNext]_streamingVars => PoolInv'
<1> USE StreamingAssumption
<1> SUFFICES ASSUME HostInv, PoolInv, [StreamingNext]_streamingVars PROVE PoolInv'
    OBVIOUS
<1>1. CASE UNCHANGED iso_tx_pool_alloc
    BY <1>1 DEF PoolInv
<1>2. ASSUME NEW s \in Bises, StreamStarted(s)
      PROVE  PoolInv'
    BY <1>2 DEF StreamStarted, Restarted, PoolInv, HostInv, HostTypes
<1>3. ASSUME NEW s \in Bises, StreamSent(s)
      PROVE  PoolInv'
    BY <1>3 DEF StreamSent, PoolInv, HostInv, HostTypes
<1>4. ASSUME NEW s \in Bises, StreamStopped(s)
      PROVE  PoolInv'
    BY <1>1, <1>4 DEF StreamStopped
<1>5. CASE HostCallback
    BY <1>2, <1>3, <1>4, <1>5 DEF HostCallback
<1>6. ASSUME NEW s \in Bises, NEW ok \in BOOLEAN, SendNext(s, ok)
      PROVE  PoolInv'
    <2>1. CASE Sendable(s) /\ ok
        BY <1>6, <2>1 DEF SendNext, iso_stream_send, Sendable, PoolInv, HostInv, HostTypes
    <2>2. CASE ~(Sendable(s) /\ ok)
        BY <1>1, <1>6, <2>2 DEF SendNext, iso_stream_send
    <2> QED
        BY <2>1, <2>2
<1>7. CASE EncoderPoll \/ GetBlock \/ MakeTone \/ Wake
    BY <1>1, <1>7 DEF EncoderPoll, GetBlock, MakeTone, Wake, EncoderStep, sourceVars
<1>8. CASE UsbBlock \/ VolumeUp \/ LeThread \/ UNCHANGED streamingVars
    BY <1>1, <1>8 DEF UsbBlock, VolumeUp, LeThread, LeStreaming, LeNotStreaming, NextEvent, StartCodec,
       StartUsb, SetStreaming, SetPaused, StopUsb, StopCodec, At, streamingVars, sourceVars
<1>9. ASSUME NEW ok \in BOOLEAN,
             EnableSource(ok) \/ ExtAdvReady(ok) \/ DisableSource(ok) \/ PlayPause(ok)
      PROVE  PoolInv'
    BY <1>1, <1>9 DEF EnableSource, Enable, ExtAdvReady, DisableSource, Disable, PlayPause, Start, Stop,
       sourceVars
<1> QED
    BY <1>5, <1>6, <1>7, <1>8, <1>9 DEF StreamingNext, Encoder

DeleteFlagType == delete_broadcast_src \in BOOLEAN

LEMMA DeleteFlagTyped ==
    DeleteFlagType /\ [StreamingNext]_streamingVars => DeleteFlagType'
<1> SUFFICES ASSUME DeleteFlagType, [StreamingNext]_streamingVars
             PROVE  DeleteFlagType'
    OBVIOUS
<1>1. \/ UNCHANGED delete_broadcast_src
      \/ delete_broadcast_src' = TRUE
      \/ delete_broadcast_src' = FALSE
    <2>1. ASSUME NEW s \in Bises, StreamStarted(s) \/ StreamStopped(s) \/ StreamSent(s)
          PROVE  UNCHANGED delete_broadcast_src \/ delete_broadcast_src' = FALSE
        BY <2>1 DEF StreamStarted, StreamStopped, StreamSent, libVars
    <2>2. CASE Encoder
        BY <2>2 DEF Encoder, EncoderPoll, GetBlock, MakeTone, Wake, SendNext, EncoderStep,
           iso_stream_send, sourceVars, libVars
    <2>3. CASE UsbBlock \/ VolumeUp \/ LeThread \/ UNCHANGED streamingVars
        BY <2>3 DEF UsbBlock, VolumeUp, LeThread, LeStreaming, LeNotStreaming, NextEvent, StartCodec,
           StartUsb, SetStreaming, SetPaused, StopUsb, StopCodec, At, streamingVars, sourceVars, libVars
    <2>4. ASSUME NEW ok \in BOOLEAN,
                 EnableSource(ok) \/ ExtAdvReady(ok) \/ DisableSource(ok) \/ PlayPause(ok)
          PROVE  UNCHANGED delete_broadcast_src \/ delete_broadcast_src' = TRUE
        BY <2>4 DEF EnableSource, Enable, ExtAdvReady, DisableSource, Disable, PlayPause, Start, Stop,
           sourceVars, libVars
    <2> QED
        BY <2>1, <2>2, <2>3, <2>4 DEF StreamingNext, HostCallback
<1> QED
    BY <1>1, Zenon DEF DeleteFlagType

SourceParts == HostInv /\ StageInv /\ EventInv /\ EncoderTypes /\ PoolInv /\ DeleteFlagType

LEMMA SourcePartsInit ==
    StreamingInit => StageInv /\ EventInv /\ EncoderTypes /\ PoolInv /\ DeleteFlagType
<1> SUFFICES ASSUME StreamingInit
             PROVE  /\ StageInv /\ EventInv /\ EncoderTypes /\ PoolInv
                    /\ DeleteFlagType
    OBVIOUS
<1>1. <<>> \in Seq({"STREAMING", "NOT_STREAMING"})
    OBVIOUS
<1>2. source_ext_adv \in BOOLEAN /\ DeleteFlagType
    BY Zenon DEF StreamingInit, SourceInit, DeleteFlagType
<1>3. StageInv /\ EventInv
    BY <1>1 DEF StreamingInit, SourceInit, StageInv, EventInv, Latest
<1>4. EncoderTypes
    BY <1>2, StreamingAssumption DEF StreamingInit, EncoderTypes
<1>5. PoolInv
    BY StreamingAssumption DEF StreamingInit, SourceInit, PoolInv, Idle
<1> QED
    BY <1>2, <1>3, <1>4, <1>5

LEMMA SourcePartsType ==
    HostInv /\ StageInv /\ EventInv /\ EncoderTypes /\ PoolInv /\ DeleteFlagType => StreamingTypeOK
<1> SUFFICES ASSUME HostInv, StageInv, EventInv, EncoderTypes, PoolInv,
                    DeleteFlagType
             PROVE  StreamingTypeOK
    OBVIOUS
<1>1. ASSUME NEW s \in Bises
      PROVE  /\ iso_tx_pool_alloc[s] \in 0..HCI_ISO_BUF_PER_CHAN
             /\ in_flight[s] \in 0..HCI_ISO_BUF_PER_CHAN
    <2>1. iso_tx_pool_alloc[s] \in Nat /\ in_flight[s] \in Nat
        BY DEF HostInv, HostTypes
    <2>2. iso_tx_pool_alloc[s] <= HCI_ISO_BUF_PER_CHAN
        BY DEF PoolInv
    <2>3. in_flight[s] = 0 \/ in_flight[s] = iso_tx_pool_alloc[s]
        BY <2>1 DEF HostInv, HeldByStreaming, BuffersCounted
    <2> QED
        BY <2>1, <2>2, <2>3, StreamingAssumption
<1>2. SourceTypeOK
    BY <1>1 DEF SourceTypeOK, HostInv, HostTypes, EventInv, DeleteFlagType
<1> QED
    BY <1>2 DEF StreamingTypeOK, StageInv, EncoderTypes

LEMMA SourceStarts == StreamingInit => SourceParts
BY HostInit, SourcePartsInit DEF SourceParts

LEMMA SourceStep == SourceParts /\ [StreamingNext]_streamingVars => SourceParts'
BY HostStep, StageKept, EventKept, EncoderTyped, PoolKept, DeleteFlagTyped DEF SourceParts

\* The types of the source and its threads: no stream has more SDUs out than the host has
\* buffers for it, and the queue of blocks holds a frame at most.
THEOREM SourceTypesCorrect == StreamingSpec => []StreamingTypeOK
<1>1. SourceParts => StreamingTypeOK
    BY SourcePartsType DEF SourceParts
<1> QED
    BY <1>1, SourceStarts, SourceStep, PTL DEF StreamingSpec

\* Blocks are collected in one place only, they pile up no further than the bound unless the
\* encoder is about to take them, and without a codec they are never enough for a frame.
BacklogInv ==
  /\ enc_pc # "collect" => collected = 0
  /\ enc_pc = "none" => audio_q_rx = 0 /\ ~usb_on /\ le_pc \notin {"start_usb"}
  /\ audio_q_rx <= MaxBacklog \/ (enc_pc \in {"wait", "collect"} /\ audio_q_rx = 1)
  /\ ~sw_codec => enc_pc = "fatal" \/ collected + audio_q_rx < FRAME

LEMMA BacklogUnchanged ==
    BacklogInv /\ UNCHANGED <<encVars, sw_codec, usb_on, le_pc>> => BacklogInv'
BY DEF BacklogInv, encVars

\* The encoder thread takes no more than there is, and a whole frame only with a codec.
LEMMA BacklogEncoder ==
    ASSUME MaxBacklog < FRAME, EncoderTypes, BacklogInv, Encoder
    PROVE  BacklogInv' /\ (enc_pc' = "fatal" => enc_pc = "sleep")
<1> USE StreamingAssumption
<1>1. UNCHANGED <<sw_codec, usb_on, le_pc>>
    BY DEF Encoder, EncoderPoll, GetBlock, MakeTone, Wake, SendNext, EncoderStep, audioVars
<1>2. CASE EncoderPoll
    BY <1>1, <1>2 DEF EncoderPoll, EncoderTypes, BacklogInv
<1>3. CASE MakeTone
    BY <1>1, <1>3 DEF MakeTone, EncoderTypes, BacklogInv
<1>4. EncodeAndSend => enc_pc' \in {"poll", "send"} \/ (~sw_codec /\ enc_pc' = "fatal")
    BY DEF EncodeAndSend
<1>5. CASE Wake
    BY <1>1, <1>4, <1>5 DEF Wake, EncoderTypes, BacklogInv
<1>6. CASE GetBlock
    <2>1. /\ enc_pc \in {"wait", "collect"} /\ audio_q_rx > 0 /\ audio_q_rx' = audio_q_rx - 1
          /\ audio_q_rx' <= MaxBacklog
        BY <1>6 DEF GetBlock, EncoderTypes, BacklogInv
    <2>2. CASE collected + 1 < FRAME
        <3>1. collected' = collected + 1 /\ enc_pc' = "collect"
            BY <1>6, <2>2 DEF GetBlock
        <3> QED
            BY <1>1, <2>1, <3>1 DEF EncoderTypes, BacklogInv
    <2>3. CASE ~(collected + 1 < FRAME)
        <3>1. collected' = 0 /\ EncodeAndSend
            BY <1>6, <2>3 DEF GetBlock
        <3>2. sw_codec
            BY <2>1, <2>3 DEF EncoderTypes, BacklogInv
        <3> QED
            BY <1>1, <1>4, <2>1, <3>1, <3>2 DEF EncoderTypes, BacklogInv
    <2> QED
        BY <2>2, <2>3
<1>7. ASSUME NEW s \in Bises, NEW ok \in BOOLEAN, SendNext(s, ok)
      PROVE  BacklogInv' /\ enc_pc' # "fatal"
    BY <1>1, <1>7 DEF SendNext, EncoderTypes, BacklogInv
<1> QED
    BY <1>2, <1>3, <1>5, <1>6, <1>7 DEF Encoder

LEMMA BacklogKept ==
    ASSUME MaxBacklog < FRAME, EncoderTypes, StageInv, BacklogInv, [StreamingNext]_streamingVars
    PROVE  /\ BacklogInv'
           /\ [enc_pc' = "fatal" => enc_pc \in {"sleep", "fatal"}]_streamingVars
<1> USE StreamingAssumption
<1>1. CASE Encoder
    BY <1>1, BacklogEncoder
<1>2. ASSUME UNCHANGED enc_pc
      PROVE  enc_pc' = "fatal" => enc_pc = "fatal"
    BY <1>2
<1>3. CASE UNCHANGED streamingVars
    BY <1>3, BacklogUnchanged DEF streamingVars, audioVars
<1>4. ASSUME NEW ok \in BOOLEAN,
             EnableSource(ok) \/ ExtAdvReady(ok) \/ DisableSource(ok) \/ PlayPause(ok)
      PROVE  BacklogInv' /\ UNCHANGED enc_pc
    BY <1>4, BacklogUnchanged DEF EnableSource, ExtAdvReady, DisableSource, PlayPause, audioVars, encVars
<1>5. CASE VolumeUp \/ HostCallback
    BY <1>2, <1>5, BacklogUnchanged DEF VolumeUp, HostCallback, audioVars, encVars
<1>6. CASE LeStreaming \/ LeNotStreaming
    <2>1. UNCHANGED <<encVars, sw_codec, usb_on>> /\ le_pc' # "start_usb"
        BY <1>6 DEF LeStreaming, LeNotStreaming, NextEvent
    <2> QED
        BY <1>2, <2>1 DEF BacklogInv, encVars
<1>7. CASE StartCodec
    <2>1. /\ sw_codec' /\ enc_pc' = (IF enc_pc = "none" THEN "poll" ELSE enc_pc)
          /\ UNCHANGED <<audio_q_rx, collected, usb_on>>
        BY <1>7, Zenon DEF StartCodec, At
    <2> QED
        BY <2>1 DEF EncoderTypes, BacklogInv
<1>8. CASE StartUsb
    <2>1. UNCHANGED <<encVars, sw_codec>> /\ le_pc = "start_usb" /\ le_pc' = "streaming"
        BY <1>8 DEF StartUsb, At
    <2> QED
        BY <1>2, <2>1 DEF BacklogInv, encVars
<1>9. CASE SetStreaming \/ SetPaused \/ StopUsb
    <2>1. UNCHANGED <<encVars, sw_codec>> /\ le_pc' # "start_usb"
        BY <1>9 DEF SetStreaming, SetPaused, StopUsb, At
    <2>2. usb_on' => usb_on
        BY <1>9, Zenon DEF SetStreaming, SetPaused, StopUsb
    <2> QED
        BY <1>2, <2>1, <2>2 DEF BacklogInv, encVars
<1>10. CASE StopCodec
    <2>1. UNCHANGED <<encVars, usb_on>> /\ le_pc' = "wait" /\ Below
        BY <1>10 DEF StopCodec, At
    <2>2. collected + audio_q_rx < FRAME
        BY <2>1 DEF Below, EncoderReady, EncoderTypes, BacklogInv
    <2> QED
        BY <1>2, <2>1, <2>2 DEF BacklogInv, encVars
<1>11. CASE UsbBlock
    <2>1. /\ usb_on /\ Below /\ UNCHANGED <<sw_codec, usb_on, le_pc, enc_pc, collected>>
          /\ enc_pc \in {"poll", "sleep", "send"} => audio_q_rx < MaxBacklog
          /\ audio_q_rx' = IF audio_q_rx = FRAME THEN FRAME ELSE audio_q_rx + 1
        BY <1>11 DEF UsbBlock, audioVars
    <2>2. sw_codec
        BY <2>1 DEF StageInv
    <2> QED
        BY <1>2, <2>1, <2>2 DEF Below, EncoderReady, EncoderTypes, BacklogInv
<1> QED
    BY <1>1, <1>2, <1>3, <1>4, <1>5, <1>6, <1>7, <1>8, <1>9, <1>10, <1>11 DEF StreamingNext, LeThread

\* The encoder never fails for want of a codec but after a sleep in the test tone, if blocks
\* pile up to less than a frame while it is busy: what was left from before a pause is then
\* too little to be encoded, and no block comes in before the codec is there.
THEOREM EncodesWithCodec ==
    ASSUME MaxBacklog < FRAME
    PROVE  StreamingSpec => EncodeSucceedsAwake
<1>1. StreamingInit => StageInv /\ EncoderTypes /\ BacklogInv
    <2> SUFFICES ASSUME StreamingInit PROVE StageInv /\ EncoderTypes /\ BacklogInv
        OBVIOUS
    <2>1. StageInv
        BY DEF StreamingInit, StageInv
    <2>2. source_ext_adv \in BOOLEAN /\ ~usb_on
        BY Zenon DEF StreamingInit
    <2>3. EncoderTypes
        BY <2>2, StreamingAssumption DEF StreamingInit, EncoderTypes
    <2>4. BacklogInv
        BY <2>2, StreamingAssumption DEF StreamingInit, BacklogInv
    <2> QED
        BY <2>1, <2>3, <2>4
<1>2. EncoderTypes /\ StageInv /\ BacklogInv /\ [StreamingNext]_streamingVars
          => BacklogInv' /\ [enc_pc' = "fatal" => enc_pc \in {"sleep", "fatal"}]_streamingVars
    BY BacklogKept
<1> QED
    BY <1>1, <1>2, StageKept, EncoderTyped, PTL DEF StreamingSpec, EncodeSucceedsAwake
-----------------------------------------------------------------------------
(* VolumeRender: what is heard is what the service says.                          *)

\* What the channel holds after a change: the second of two publications, or the only one.
LastPublication(state) == IF state.mute THEN Msg("VOLUME_MUTE", 0)
                          ELSE Msg("VOLUME_SET", state.volume)
RegisterOf(state) == Limited(zbus_vol_conversion(state.volume))

VolumeMsgs == [event : {"VOLUME_SET", "VOLUME_MUTE"}, volume : 0 .. 255]
RenderTypes == /\ RenderTypeOK
               /\ volume_chan \in VolumeMsgs /\ volume_msg \in VolumeMsgs
               /\ restart \in {<<>>} \cup {<<v>> : v \in 0 .. MAX_VOLUME_REG_VAL}

\* Unless the order was lost, the channel says what the service does; a thread that has read
\* the last publication is about to set it, and one with nothing to do has set it; a codec
\* that is started gets the volume of before.
HeardInv ==
  ~overtaken =>
     /\ volume_chan = LastPublication(vcs)
     /\ volume_queue = 0 /\ volume_pc = "set" => volume_msg = volume_chan
     /\ restart # <<>> => codec_reset /\ restart = <<prev_volume_reg_val>>
     /\ volume_queue = 0 /\ volume_pc = "wait" /\ ~vcs.mute
          => /\ prev_volume_reg_val = RegisterOf(vcs)
             /\ ~codec_reset => codec = [volume |-> prev_volume_reg_val, mute |-> FALSE]

LEMMA LastIsPublished == \A state : Publications(state)[Count(state)] = LastPublication(state)
BY DEF Publications, Count, LastPublication

\* The codec is given values that its register has.
LEMMA RegisterInRange ==
    ASSUME NEW v \in 0 .. 255
    PROVE  Limited(zbus_vol_conversion(v)) \in 0 .. MAX_VOLUME_REG_VAL
<1>1. zbus_vol_conversion(v) \in Nat
    BY DEF zbus_vol_conversion
<1> QED
    BY <1>1, RenderAssumption DEF Limited

LEMMA PublicationTyped ==
    ASSUME NEW state \in [volume : VcsVolumes, mute : BOOLEAN]
    PROVE  LastPublication(state) \in VolumeMsgs
<1>1. state.volume \in 0 .. 255
    BY RenderAssumption
<1> QED
    BY <1>1 DEF LastPublication, VolumeMsgs, Msg

LEMMA RenderStarts == RenderInit => RenderTypes /\ HeardInv
<1> SUFFICES ASSUME RenderInit PROVE RenderTypes /\ HeardInv
    OBVIOUS
<1>1. PICK v \in VcsVolumes :
          LET reg == Limited(zbus_vol_conversion(v)) IN
          /\ vcs = [volume |-> v, mute |-> FALSE]
          /\ volume_chan = Msg("VOLUME_SET", v) /\ volume_queue = 0
          /\ volume_pc = "wait" /\ volume_msg = Msg("VOLUME_SET", v)
          /\ codec = [volume |-> reg, mute |-> FALSE] /\ prev_volume_reg_val = reg
          /\ restart = <<>> /\ codec_reset = FALSE /\ overtaken = FALSE
    BY DEF RenderInit
<1>2. v \in 0 .. 255 /\ Limited(zbus_vol_conversion(v)) \in 0 .. MAX_VOLUME_REG_VAL
    BY RenderAssumption, RegisterInRange
<1>3. RenderTypes
    BY <1>1, <1>2, RenderAssumption DEF RenderTypes, RenderTypeOK, VolumeMsgs, Msg
<1>4. HeardInv
    BY <1>1 DEF HeardInv, LastPublication, RegisterOf
<1> QED
    BY <1>3, <1>4

\* A client changes the volume or the mute state.
LEMMA ChangeHeard ==
    ASSUME RenderTypes, HeardInv, NEW state \in [volume : VcsVolumes, mute : BOOLEAN],
           VcsChanges(state)
    PROVE  RenderTypes' /\ HeardInv'
<1>1. vcs' = state /\ UNCHANGED <<threadVars, codecVars>>
    BY DEF VcsChanges
<1>2. CASE volume_pc = "read"
    <2>1. overtaken' = TRUE /\ UNCHANGED <<volume_chan, volume_queue>>
        BY <1>2 DEF VcsChanges
    <2>2. HeardInv'
        BY <2>1 DEF HeardInv
    <2> QED
        BY <1>1, <2>1, <2>2 DEF RenderTypes, RenderTypeOK, threadVars, codecVars
<1>3. CASE volume_pc # "read"
    <2>1. /\ volume_chan' = LastPublication(state)
          /\ volume_queue' = QueueLimit(volume_queue + Count(state))
          /\ UNCHANGED overtaken
        BY <1>3, LastIsPublished DEF VcsChanges
    <2>2. volume_queue' \in 1 .. VOLUME_MSG_SUB_QUEUE_SIZE
        <3>1. Count(state) \in {1, 2}
            BY DEF Count
        <3> QED
            BY <2>1, <3>1, RenderAssumption DEF QueueLimit, RenderTypes, RenderTypeOK
    <2>3. RenderTypes'
        BY <1>1, <2>1, <2>2, PublicationTyped DEF RenderTypes, RenderTypeOK, threadVars, codecVars
    <2>4. HeardInv'
        BY <1>1, <2>1, <2>2 DEF HeardInv, threadVars, codecVars
    <2> QED
        BY <2>3, <2>4
<1> QED
    BY <1>2, <1>3

\* The thread is woken and reads the channel.
LEMMA ReadHeard ==
    ASSUME RenderTypes, HeardInv, VolumeWoken \/ VolumeRead
    PROVE  RenderTypes' /\ HeardInv'
<1>1. CASE VolumeWoken
    BY <1>1, RenderAssumption DEF VolumeWoken, RenderTypes, RenderTypeOK, HeardInv, codecVars
<1>2. CASE VolumeRead
    BY <1>2 DEF VolumeRead, RenderTypes, RenderTypeOK, HeardInv, codecVars
<1> QED
    BY <1>1, <1>2

\* What the thread does with the last publication.
LEMMA LastIsSet ==
    ASSUME RenderTypes, HeardInv, VolumeHandled, ~overtaken', volume_queue = 0
    PROVE  /\ vcs.mute => codec'.mute
           /\ ~vcs.mute => /\ prev_volume_reg_val' = RegisterOf(vcs)
                           /\ codec' = [volume |-> RegisterOf(vcs), mute |-> FALSE]
<1>1. ~overtaken /\ restart = <<>>
    BY Zenon DEF VolumeHandled
<1>2. volume_msg = LastPublication(vcs)
    BY <1>1 DEF HeardInv, VolumeHandled
<1>3. CASE vcs.mute
    <2>1. volume_msg.event = "VOLUME_MUTE"
        BY <1>2, <1>3 DEF LastPublication, Msg
    <2>2. codec' = [codec EXCEPT !.mute = TRUE]
        BY <2>1 DEF VolumeHandled, VolumeSet, VolumeMute
    <2>3. codec'.mute
        BY <2>2 DEF RenderTypes, RenderTypeOK
    <2> QED
        BY <1>3, <2>3
<1>4. CASE ~vcs.mute
    <2>1. volume_msg.event = "VOLUME_SET" /\ volume_msg.volume = vcs.volume
        BY <1>2, <1>4 DEF LastPublication, Msg
    <2>2. VolumeSet
        BY <2>1 DEF VolumeHandled, VolumeMute
    <2> QED
        BY <1>4, <2>1, <2>2 DEF VolumeSet, WriteVolume, RegisterOf
<1> QED
    BY <1>3, <1>4

LEMMA HandledHeard ==
    ASSUME RenderTypes, HeardInv, VolumeHandled
    PROVE  RenderTypes' /\ HeardInv'
<1>1. /\ volume_pc' = "wait"
      /\ UNCHANGED <<vcs, volume_chan, volume_queue, volume_msg, restart, codec_reset>>
    BY DEF VolumeHandled
<1>2. /\ codec' \in [volume : 0 .. MAX_VOLUME_REG_VAL, mute : BOOLEAN]
      /\ prev_volume_reg_val' \in 0 .. MAX_VOLUME_REG_VAL
    <2>1. CASE VolumeSet
        <3>1. Limited(zbus_vol_conversion(volume_msg.volume)) \in 0 .. MAX_VOLUME_REG_VAL
            BY RegisterInRange DEF RenderTypes, VolumeMsgs
        <3> QED
            BY <2>1, <3>1 DEF VolumeSet, WriteVolume
    <2>2. CASE VolumeMute
        BY <2>2 DEF VolumeMute, RenderTypes, RenderTypeOK
    <2> QED
        BY <2>1, <2>2 DEF VolumeHandled
<1>3. RenderTypes'
    BY <1>1, <1>2 DEF RenderTypes, RenderTypeOK
<1>4. ASSUME ~overtaken'
      PROVE  HeardInv'
    <2>1. ~overtaken /\ restart = <<>>
        BY <1>4, Zenon DEF VolumeHandled
    <2>2. ASSUME volume_queue' = 0, ~vcs'.mute
          PROVE  /\ prev_volume_reg_val' = RegisterOf(vcs')
                 /\ codec' = [volume |-> prev_volume_reg_val', mute |-> FALSE]
        BY <1>1, <1>4, <2>2, LastIsSet
    <2>3. volume_chan' = LastPublication(vcs')
        BY <1>1, <2>1 DEF HeardInv
    <2>4. RegisterOf(vcs)' = RegisterOf(vcs') /\ LastPublication(vcs)' = LastPublication(vcs')
        BY DEF RegisterOf, LastPublication
    <2> QED
        BY <1>1, <2>1, <2>2, <2>3, <2>4 DEF HeardInv
<1> QED
    BY <1>3, <1>4 DEF HeardInv

\* The codec is stopped and started with the volume it had.
LEMMA RestartHeard ==
    ASSUME RenderTypes, HeardInv, CodecStopped \/ CodecStarts \/ CodecStarted
    PROVE  RenderTypes' /\ HeardInv'
<1>1. CASE CodecStopped
    <2>1. codec' \in [volume : 0 .. MAX_VOLUME_REG_VAL, mute : BOOLEAN]
        BY <1>1, RenderAssumption DEF CodecStopped, CodecDefault
    <2> QED
        BY <1>1, <2>1 DEF CodecStopped, RenderTypes, RenderTypeOK, HeardInv, threadVars
<1>2. CASE CodecStarts
    BY <1>2 DEF CodecStarts, LastVolume, RenderTypes, RenderTypeOK, HeardInv, threadVars
<1>3. CASE CodecStarted
    <2>1. restart[1] \in 0 .. MAX_VOLUME_REG_VAL
        BY <1>3 DEF CodecStarted, RenderTypes
    <2>2. RenderTypes'
        BY <1>3, <2>1 DEF CodecStarted, RenderTypes, RenderTypeOK, threadVars
    <2>3. ~overtaken => restart[1] = prev_volume_reg_val
        BY <1>3 DEF CodecStarted, HeardInv
    <2>4. HeardInv'
        BY <1>3, <2>3 DEF CodecStarted, HeardInv, threadVars
    <2> QED
        BY <2>2, <2>4
<1> QED
    BY <1>1, <1>2, <1>3

LEMMA RenderKept == RenderTypes /\ HeardInv /\ [RenderNext]_renderVars => RenderTypes' /\ HeardInv'
<1> SUFFICES ASSUME RenderTypes, HeardInv, [RenderNext]_renderVars
             PROVE  RenderTypes' /\ HeardInv'
    OBVIOUS
<1>1. ASSUME NEW v \in VcsVolumes, NEW m \in BOOLEAN, VcsChanges([volume |-> v, mute |-> m])
      PROVE  RenderTypes' /\ HeardInv'
    BY <1>1, ChangeHeard
<1>2. CASE UNCHANGED renderVars
    BY <1>2 DEF renderVars, threadVars, codecVars, RenderTypes, RenderTypeOK, HeardInv
<1> QED
    BY <1>1, <1>2, ReadHeard, HandledHeard, RestartHeard DEF RenderNext

\* An audible headset with nothing left to do has the volume of the service in its codec,
\* and the last publication of a mute silences it, whatever publications were merged and
\* however often the codec was started anew.
THEOREM VolumeAlwaysHeard == RenderSpec => VolumeIsHeard
<1>1. RenderTypes /\ HeardInv =>
          (Settled /\ ~vcs.mute =>
             codec = [volume |-> Limited(zbus_vol_conversion(vcs.volume)), mute |-> FALSE])
    BY DEF HeardInv, Settled, RegisterOf
<1>2. RenderTypes /\ HeardInv /\ [RenderNext]_renderVars =>
          [VolumeHandled /\ Settled' /\ vcs.mute => codec'.mute]_renderVars
    <2> SUFFICES ASSUME RenderTypes, HeardInv, VolumeHandled, Settled', vcs.mute
                 PROVE  codec'.mute
        OBVIOUS
    <2>1. volume_queue = 0 /\ ~overtaken'
        BY DEF Settled, VolumeHandled
    <2> QED
        BY <2>1, LastIsSet
<1> QED
    BY <1>1, <1>2, RenderStarts, RenderKept, PTL DEF RenderSpec, VolumeIsHeard
-----------------------------------------------------------------------------
(* SdPlayback: the ring buffer between the playback thread and the datapath.       *)

SdFlags == /\ m_sem_playback \in BOOLEAN /\ m_sem_space \in BOOLEAN /\ mtx_ringbuf \in BOOLEAN
           /\ sd_card_playback_active \in BOOLEAN /\ underrun \in BOOLEAN
SdCounts == /\ playback_file \in PlayFiles /\ open_file \in PlayFiles
            /\ play_pc \in {"wait", "read", "take", "lock", "copy"}
            /\ frames_done \in 0 .. PlayLength[open_file] /\ pcm_frame_size \in 0 .. RingSize
            /\ ring \in Seq(Nat) /\ Len(ring) <= RingSize /\ ring_head \in 0 .. RingSize - 1
            /\ mixed \in Nat

\* While a file is played, its frames have its size and there is one left for the ring buffer.
OnFile == /\ play_pc # "wait" => pcm_frame_size = FrameSize[open_file]
          /\ play_pc \in {"take", "lock", "copy"} => frames_done < PlayLength[open_file]
          /\ play_pc = "wait" => ~sd_card_playback_active

\* What is in the ring buffer comes after what was mixed and rises up to what was copied.
Copied == frames_done * pcm_frame_size
Rising == play_pc # "wait" =>
  /\ mixed <= Copied
  /\ \A k \in DOMAIN ring : ring[k] <= Copied /\ (IF k = 1 THEN mixed ELSE ring[k - 1]) < ring[k]

\* What FilesAreMixed says of every state.
RingIsRight == MixedInOrder /\ TokenMeansRoom

\* There is one frame or one token: a token, a frame that is on its way, or one in the ring
\* buffer, which then holds all that was copied and not mixed, and has not wrapped inside it.
OneFrame == play_pc # "wait" /\ ~underrun =>
  /\ \/ m_sem_space /\ play_pc \notin {"lock", "copy"} /\ ring = <<>>
     \/ ~m_sem_space /\ play_pc \in {"lock", "copy"} /\ ring = <<>>
     \/ ~m_sem_space /\ play_pc \notin {"lock", "copy"} /\ Len(ring) = pcm_frame_size
  /\ mixed + Len(ring) = Copied /\ \A k \in DOMAIN ring : ring[k] = mixed + k
  /\ \E q \in Nat : ring_head = q * pcm_frame_size

SdInv == SdFlags /\ SdCounts /\ OnFile /\ Rising

LEMMA SdInitInv == SdInit => SdInv
<1> SUFFICES ASSUME SdInit PROVE SdInv
    OBVIOUS
<1>1. SdFlags
    BY Zenon DEF SdInit, SdFlags
<1>2. SdCounts
    <2>1. <<>> \in Seq(Nat) /\ Len(<<>>) = 0
        OBVIOUS
    <2>2. PlayLength[playback_file] \in Nat
        BY SdAssumption DEF SdInit
    <2> QED
        BY <2>1, <2>2, SdAssumption DEF SdInit, SdCounts
<1>3. OnFile /\ Rising
    BY DEF SdInit, OnFile, Rising
<1> QED
    BY <1>1, <1>2, <1>3 DEF SdInv

LEMMA SdFacts ==
    ASSUME SdInv
    PROVE  /\ RingSize \in Nat /\ RingSize > 0 /\ pcm_frame_size \in Nat /\ pcm_frame_size <= RingSize
           /\ frames_done \in Nat /\ mixed \in Nat /\ Copied \in Nat
           /\ ring_head \in Nat /\ ring_head < RingSize
           /\ ring \in Seq(Nat) /\ Len(ring) \in Nat /\ Len(ring) <= RingSize
           /\ DOMAIN ring = 1 .. Len(ring)
           /\ \A k \in DOMAIN ring : ring[k] \in Nat
           /\ play_pc # "wait" => pcm_frame_size > 0
<1>1. /\ RingSize \in Nat /\ RingSize > 0 /\ pcm_frame_size \in Nat /\ pcm_frame_size <= RingSize
      /\ frames_done \in Nat /\ mixed \in Nat /\ ring_head \in Nat /\ ring_head < RingSize
    <2>1. PlayLength[open_file] \in Nat
        BY SdAssumption DEF SdInv, SdCounts
    <2> QED
        BY <2>1, SdAssumption DEF SdInv, SdCounts
<1>2. frames_done * pcm_frame_size \in Nat
    BY <1>1
<1>3. ring \in Seq(Nat) /\ Len(ring) \in Nat /\ Len(ring) <= RingSize /\ DOMAIN ring = 1 .. Len(ring)
    BY LenProperties DEF SdInv, SdCounts
<1>4. \A k \in DOMAIN ring : ring[k] \in Nat
    BY <1>3, ElementOfSeq
<1>5. play_pc # "wait" => pcm_frame_size > 0
    BY <1>1, SdAssumption DEF SdInv, SdCounts, OnFile
<1> QED
    BY <1>1, <1>2, <1>3, <1>4, <1>5 DEF Copied

\* Steps that leave the ring buffer and the counts alone.
LEMMA RingLeft ==
    ASSUME SdInv, UNCHANGED <<open_file, frames_done, pcm_frame_size, ring, ring_head, mixed>>,
           playback_file' \in PlayFiles, SdFlags',
           play_pc' \in {"wait", "read", "take", "lock", "copy"},
           play_pc = "wait" => play_pc' = "wait",
           play_pc' \in {"take", "lock", "copy"} => frames_done < PlayLength[open_file],
           play_pc' = "wait" => ~sd_card_playback_active'
    PROVE  SdInv'
<1>1. SdCounts'
    BY DEF SdInv, SdCounts
<1>2. OnFile' /\ Rising'
    BY DEF SdInv, OnFile, Rising, Copied
<1> QED
    BY <1>1, <1>2 DEF SdInv

LEMMA PlayInv == ASSUME SdInv, NEW f \in PlayFiles, Play(f) PROVE SdInv'
<1>1. SdFlags'
    BY Zenon DEF Play, SdInv, SdFlags, ringVars
<1>2. play_pc = "wait" => ~sd_card_playback_active'
    BY Zenon DEF Play, SdInv, OnFile
<1> QED
    BY <1>1, <1>2, RingLeft DEF Play, ringVars, SdInv, SdCounts, OnFile

LEMMA StartPlayingInv == ASSUME SdInv, NEW ok \in BOOLEAN, StartPlaying(ok) PROVE SdInv'
<1>1. /\ play_pc = "wait" /\ m_sem_playback' = FALSE /\ ring' = <<>> /\ ring_head' = 0
      /\ m_sem_space' = TRUE /\ open_file' = playback_file /\ frames_done' = 0 /\ mixed' = 0
      /\ underrun' = FALSE
      /\ play_pc' = IF ok THEN "read" ELSE "wait"
      /\ pcm_frame_size' = IF ok THEN FrameSize[playback_file] ELSE pcm_frame_size
      /\ UNCHANGED <<playback_file, mtx_ringbuf, sd_card_playback_active>>
    BY DEF StartPlaying, RingReset
<1>2. SdFlags'
    BY <1>1, Zenon DEF SdInv, SdFlags
<1>3. FrameSize[playback_file] \in 1 .. RingSize /\ PlayLength[playback_file] \in Nat
    BY SdAssumption DEF SdInv, SdCounts
<1>4. <<>> \in Seq(Nat) /\ Len(<<>>) = 0
    OBVIOUS
<1>5. SdCounts'
    <2>1. pcm_frame_size' \in 0 .. RingSize
        BY <1>1, <1>3, SdAssumption DEF SdInv, SdCounts
    <2>2. ring_head' \in 0 .. RingSize - 1 /\ Len(ring') <= RingSize /\ ring' \in Seq(Nat)
        BY <1>1, <1>4, SdAssumption
    <2>3. frames_done' \in 0 .. PlayLength[open_file']
        BY <1>1, <1>3
    <2> QED
        BY <1>1, <2>1, <2>2, <2>3 DEF SdInv, SdCounts
<1>6. ~sd_card_playback_active'
    BY <1>1, Zenon DEF SdInv, OnFile
<1>7. OnFile'
    BY <1>1, <1>6 DEF OnFile
<1>8. Rising'
    <2>1. DOMAIN ring' = {}
        BY <1>1
    <2>2. pcm_frame_size' \in Nat
        BY <1>5, SdAssumption DEF SdCounts
    <2>3. Copied' = 0
        BY <1>1, <2>2 DEF Copied
    <2> QED
        BY <1>1, <2>1, <2>3 DEF Rising
<1> QED
    BY <1>2, <1>5, <1>7, <1>8 DEF SdInv

LEMMA ReadFrameInv == ASSUME SdInv, NEW ok \in BOOLEAN, ReadFrame(ok) PROVE SdInv'
<1>1. /\ play_pc = "read"
      /\ \/ /\ frames_done < PlayLength[open_file] /\ play_pc' = "take"
            /\ UNCHANGED sd_card_playback_active
         \/ play_pc' = "wait" /\ sd_card_playback_active' = FALSE
      /\ UNCHANGED <<m_sem_playback, playback_file, open_file, frames_done, pcm_frame_size, ring,
                     ring_head, m_sem_space, mtx_ringbuf, mixed, underrun>>
    BY DEF ReadFrame, Finish, ringVars
<1>2. SdFlags'
    BY <1>1, Zenon DEF SdInv, SdFlags
<1> QED
    BY <1>1, <1>2, RingLeft DEF SdInv, SdCounts

LEMMA TakeSpaceInv == SdInv /\ TakeSpace => SdInv'
<1> SUFFICES ASSUME SdInv, TakeSpace PROVE SdInv'
    OBVIOUS
<1>1. /\ play_pc = "take" /\ m_sem_space' = FALSE
      /\ \/ m_sem_space /\ play_pc' = "lock" /\ UNCHANGED sd_card_playback_active
         \/ ~m_sem_space /\ play_pc' = "wait" /\ sd_card_playback_active' = FALSE
      /\ UNCHANGED <<m_sem_playback, playback_file, open_file, frames_done, pcm_frame_size, ring,
                     ring_head, mtx_ringbuf, mixed, underrun>>
    BY Zenon DEF TakeSpace, GiveUp, Finish, TokenTaken
<1>2. SdFlags'
    BY <1>1, Zenon DEF SdInv, SdFlags
<1>3. frames_done < PlayLength[open_file]
    BY <1>1 DEF SdInv, OnFile
<1> QED
    BY <1>1, <1>2, <1>3, RingLeft DEF SdInv, SdCounts

LEMMA LockRingInv == SdInv /\ LockRing => SdInv'
<1> SUFFICES ASSUME SdInv, LockRing PROVE SdInv'
    OBVIOUS
<1>1. /\ play_pc = "lock" /\ play_pc' = "copy" /\ mtx_ringbuf' = TRUE
      /\ UNCHANGED <<m_sem_playback, playback_file, open_file, frames_done, pcm_frame_size, ring,
                     ring_head, m_sem_space, sd_card_playback_active, mixed, underrun>>
    BY DEF LockRing, ringVars
<1>2. SdFlags'
    BY <1>1, Zenon DEF SdInv, SdFlags
<1>3. frames_done < PlayLength[open_file]
    BY <1>1 DEF SdInv, OnFile
<1> QED
    BY <1>1, <1>2, <1>3, RingLeft DEF SdInv, SdCounts

\* The units of a frame that go into the ring buffer, and where they go.
Claimed == AtMost(pcm_frame_size, RoomToWrap)

LEMMA CopyFacts ==
    ASSUME SdInv, CopyFrame
    PROVE  /\ play_pc = "copy" /\ play_pc' = "read" /\ mtx_ringbuf' = FALSE
           /\ Claimed \in Nat /\ Claimed <= pcm_frame_size /\ Len(ring) + Claimed <= RingSize
           /\ ring' \in Seq(Nat) /\ Len(ring') = Len(ring) + Claimed
           /\ \A k \in 1 .. Len(ring) : ring'[k] = ring[k]
           /\ \A k \in Len(ring) + 1 .. Len(ring) + Claimed : ring'[k] = Copied + (k - Len(ring))
           /\ DOMAIN ring' = 1 .. Len(ring) + Claimed
           /\ ring_head' = (ring_head + Claimed) % RingSize
           /\ frames_done' = frames_done + 1 /\ Copied' = Copied + pcm_frame_size
           /\ UNCHANGED <<m_sem_playback, playback_file, open_file, pcm_frame_size, m_sem_space,
                          mixed, underrun>>
<1> DEFINE q == [k \in 1 .. Claimed |-> Copied + k]
<1>1. /\ RingSize \in Nat /\ pcm_frame_size \in Nat /\ frames_done \in Nat /\ Copied \in Nat
      /\ ring_head \in Nat /\ ring_head < RingSize
      /\ ring \in Seq(Nat) /\ Len(ring) \in Nat /\ Len(ring) <= RingSize
    BY SdFacts
<1>2. /\ play_pc = "copy" /\ play_pc' = "read" /\ mtx_ringbuf' = FALSE
      /\ ring' = ring \o q /\ ring_head' = (ring_head + Claimed) % RingSize
      /\ frames_done' = frames_done + 1
      /\ UNCHANGED <<m_sem_playback, playback_file, open_file, pcm_frame_size, m_sem_space,
                     mixed, underrun>>
    BY DEF CopyFrame, Claimed, Copied
<1>3. Claimed \in Nat /\ Claimed <= pcm_frame_size /\ Len(ring) + Claimed <= RingSize
    BY <1>1 DEF Claimed, AtMost, RoomToWrap
<1>4. q \in Seq(Nat) /\ Len(q) = Claimed /\ \A k \in 1 .. Claimed : q[k] = Copied + k
    <2>1. q \in [1 .. Claimed -> Nat]
        BY <1>1, <1>3
    <2>2. \A k \in 1 .. Claimed : q[k] = Copied + k
        OBVIOUS
    <2> HIDE DEF q
    <2>3. q \in Seq(Nat)
        BY <1>3, <2>1
    <2>4. Len(q) = Claimed
        BY <1>3, <2>1, <2>3, LenProperties
    <2> QED
        BY <2>2, <2>3, <2>4
<1> HIDE DEF q
<1>5. /\ ring \o q \in Seq(Nat) /\ Len(ring \o q) = Len(ring) + Len(q)
      /\ \A k \in 1 .. Len(ring) + Len(q) :
            (ring \o q)[k] = IF k <= Len(ring) THEN ring[k] ELSE q[k - Len(ring)]
    BY <1>1, <1>4, ConcatProperties
<1>6. ring' \in Seq(Nat) /\ Len(ring') = Len(ring) + Claimed
    BY <1>2, <1>4, <1>5
<1>7. ASSUME NEW k \in 1 .. Len(ring)
      PROVE  ring'[k] = ring[k]
    BY <1>1, <1>2, <1>3, <1>4, <1>5
<1>8. ASSUME NEW k \in Len(ring) + 1 .. Len(ring) + Claimed
      PROVE  ring'[k] = Copied + (k - Len(ring))
    <2>1. k \in 1 .. Len(ring) + Len(q) /\ ~(k <= Len(ring)) /\ k - Len(ring) \in 1 .. Claimed
        BY <1>1, <1>3, <1>4
    <2>2. (ring \o q)[k] = q[k - Len(ring)]
        BY <1>5, <2>1
    <2> QED
        BY <1>2, <1>4, <2>1, <2>2
<1>9. DOMAIN ring' = 1 .. Len(ring) + Claimed
    BY <1>6, LenProperties
<1>10. Copied' = Copied + pcm_frame_size
    <2>1. (frames_done + 1) * pcm_frame_size = frames_done * pcm_frame_size + pcm_frame_size
        BY <1>1
    <2> QED
        BY <1>2, <2>1 DEF Copied
<1> QED
    BY <1>2, <1>3, <1>6, <1>7, <1>8, <1>9, <1>10

LEMMA CopyFrameInv == SdInv /\ CopyFrame => SdInv'
<1> SUFFICES ASSUME SdInv, CopyFrame PROVE SdInv'
    OBVIOUS
<1>1. SdFlags'
    <2>1. sd_card_playback_active' \in BOOLEAN
        BY Zenon DEF CopyFrame
    <2> QED
        BY <2>1, CopyFacts, Zenon DEF SdInv, SdFlags
<1>2. frames_done < PlayLength[open_file] /\ PlayLength[open_file] \in Nat
    BY CopyFacts, SdAssumption DEF SdInv, OnFile, SdCounts
<1>3. SdCounts'
    <2>1. frames_done' \in 0 .. PlayLength[open_file']
        <3>1. /\ frames_done' = frames_done + 1 /\ open_file' = open_file /\ frames_done \in Nat
            BY CopyFacts, SdFacts, Zenon
        <3> QED
            BY ONLY <1>2, <3>1
    <2>2. ring_head' \in 0 .. RingSize - 1
        <3>1. /\ ring_head' = (ring_head + Claimed) % RingSize
              /\ ring_head \in Nat /\ Claimed \in Nat /\ RingSize \in Nat /\ RingSize > 0
            BY CopyFacts, SdFacts, Zenon
        <3> QED
            BY ONLY <3>1
    <2> QED
        BY <2>1, <2>2, CopyFacts, SdFacts DEF SdInv, SdCounts
<1>4. OnFile'
    BY CopyFacts DEF SdInv, OnFile
<1>5. Rising'
    <2>1. mixed <= Copied /\ \A k \in DOMAIN ring : /\ ring[k] <= Copied
                                                    /\ (IF k = 1 THEN mixed ELSE ring[k - 1]) < ring[k]
        BY CopyFacts DEF SdInv, Rising
    <2>2. mixed' <= Copied'
        BY <2>1, CopyFacts, SdFacts
    <2>3. ASSUME NEW k \in 1 .. Len(ring)
          PROVE  ring'[k] <= Copied' /\ (IF k = 1 THEN mixed' ELSE ring'[k - 1]) < ring'[k]
        <3>1. ring'[k] = ring[k] /\ k \in DOMAIN ring /\ ring[k] \in Nat
            BY CopyFacts, SdFacts
        <3>2. ring[k] <= Copied'
            BY <2>1, <3>1, CopyFacts, SdFacts
        <3>3. CASE k = 1
            BY <2>1, <3>1, <3>2, <3>3, CopyFacts
        <3>4. CASE k # 1
            <4>1. k - 1 \in 1 .. Len(ring)
                BY <3>4, SdFacts
            <4>2. ring'[k - 1] = ring[k - 1]
                BY <4>1, CopyFacts
            <4> QED
                BY <2>1, <3>1, <3>2, <3>4, <4>2
        <3> QED
            BY <3>3, <3>4
    <2>4. ASSUME NEW k \in Len(ring) + 1 .. Len(ring) + Claimed
          PROVE  ring'[k] <= Copied' /\ (IF k = 1 THEN mixed' ELSE ring'[k - 1]) < ring'[k]
        <3>1. ring'[k] = Copied + (k - Len(ring)) /\ k \in Nat /\ Claimed \in Nat /\ Claimed <= pcm_frame_size
            BY CopyFacts, SdFacts
        <3>2. ring'[k] <= Copied'
            BY <3>1, CopyFacts, SdFacts
        <3>3. CASE k = 1
            <4>1. mixed < ring'[k]
                BY <2>1, <3>1, <3>3, SdFacts
            <4> QED
                BY <3>2, <3>3, <4>1, CopyFacts
        <3>4. CASE k # 1 /\ k = Len(ring) + 1
            <4>1. k - 1 \in 1 .. Len(ring)
                BY <3>4, SdFacts
            <4>2. ring'[k - 1] = ring[k - 1] /\ ring[k - 1] \in Nat /\ ring[k - 1] <= Copied
                BY <2>1, <4>1, CopyFacts, SdFacts
            <4>3. ring'[k - 1] < ring'[k]
                BY <3>1, <3>4, <4>2, SdFacts
            <4> QED
                BY <3>2, <3>4, <4>3
        <3>5. CASE k # Len(ring) + 1
            <4>1. k - 1 \in Len(ring) + 1 .. Len(ring) + Claimed /\ k # 1
                BY <3>5, SdFacts, <3>1
            <4>2. ring'[k - 1] = Copied + ((k - 1) - Len(ring))
                BY <4>1, CopyFacts
            <4>3. ring'[k - 1] < ring'[k]
                BY <3>1, <4>2, SdFacts
            <4> QED
                BY <3>2, <4>1, <4>3
        <3> QED
            BY <3>3, <3>4, <3>5
    <2>5. \A k \in DOMAIN ring' : k \in 1 .. Len(ring) \/ k \in Len(ring) + 1 .. Len(ring) + Claimed
        BY CopyFacts, SdFacts
    <2> QED
        BY <2>2, <2>3, <2>4, <2>5 DEF Rising
<1> QED
    BY <1>1, <1>3, <1>4, <1>5 DEF SdInv

\* What the datapath takes from the front of the ring buffer, and what it leaves there.
Taken == AtMost(pcm_frame_size, Len(ring))

LEMMA MixFacts ==
    ASSUME SdInv, MixWithStream
    PROVE  /\ sd_card_playback_active /\ play_pc # "wait" /\ ~mtx_ringbuf
           /\ Taken \in Nat /\ Taken <= Len(ring) /\ Taken <= pcm_frame_size
           /\ Taken < pcm_frame_size => Taken = Len(ring)
           /\ ring' \in Seq(Nat) /\ Len(ring') = Len(ring) - Taken
           /\ DOMAIN ring' = 1 .. Len(ring) - Taken
           /\ \A k \in 1 .. Len(ring) - Taken : ring'[k] = ring[Taken + k]
           /\ mixed' = IF Taken > 0 THEN ring[Taken] ELSE mixed
           /\ (underrun' = (underrun \/ Taken < pcm_frame_size))
           /\ (m_sem_space' = (m_sem_space \/ RoomForFrame(ring')))
           /\ Copied' = Copied
           /\ UNCHANGED <<m_sem_playback, playback_file, play_pc, open_file, frames_done,
                          pcm_frame_size, ring_head, mtx_ringbuf, sd_card_playback_active>>
<1>1. /\ ring \in Seq(Nat) /\ Len(ring) \in Nat /\ pcm_frame_size \in Nat
    BY SdFacts
<1>2. /\ sd_card_playback_active /\ ~mtx_ringbuf /\ ring' = SubSeq(ring, Taken + 1, Len(ring))
      /\ mixed' = IF Taken > 0 THEN ring[Taken] ELSE mixed
      /\ (underrun' = (underrun \/ Taken < pcm_frame_size))
      /\ (m_sem_space' = (m_sem_space \/ RoomForFrame(ring')))
      /\ UNCHANGED <<m_sem_playback, playback_file, play_pc, open_file, frames_done,
                     pcm_frame_size, ring_head, mtx_ringbuf, sd_card_playback_active>>
    BY Zenon DEF MixWithStream, Taken
<1>3. play_pc # "wait"
    BY <1>2 DEF SdInv, OnFile
<1>4. Taken \in Nat /\ Taken <= Len(ring) /\ Taken <= pcm_frame_size
      /\ (Taken < pcm_frame_size => Taken = Len(ring))
    BY <1>1 DEF Taken, AtMost
<1>5. /\ ring' \in Seq(Nat) /\ Len(ring') = Len(ring) - Taken
      /\ \A k \in 1 .. Len(ring) - Taken : ring'[k] = ring[Taken + k]
    <2>1. \A i \in Taken + 1 .. Len(ring) : ring[i] \in Nat
        BY <1>1, <1>4, ElementOfSeq
    <2>2. ring' = [i \in 1 .. Len(ring) - Taken |-> ring[Taken + i]]
        BY <1>1, <1>2, <1>4
    <2>3. \A i \in 1 .. Len(ring) - Taken : ring[Taken + i] \in Nat
        BY <1>1, <1>4, <2>1
    <2>4. ring' \in [1 .. Len(ring) - Taken -> Nat] /\ Len(ring) - Taken \in Nat
        BY <1>1, <1>4, <2>2, <2>3
    <2>5. ring' \in Seq(Nat)
        BY <2>4
    <2>6. Len(ring') = Len(ring) - Taken
        BY <2>4, <2>5, LenProperties
    <2> QED
        BY <2>2, <2>5, <2>6
<1>6. DOMAIN ring' = 1 .. Len(ring) - Taken
    BY <1>5, LenProperties
<1>7. Copied' = Copied
    BY <1>2 DEF Copied
<1> QED
    BY <1>2, <1>3, <1>4, <1>5, <1>6, <1>7, Zenon

LEMMA MixWithStreamInv == SdInv /\ MixWithStream => SdInv'
<1> SUFFICES ASSUME SdInv, MixWithStream PROVE SdInv'
    OBVIOUS
<1>1. SdFlags'
    <2>1. m_sem_space' \in BOOLEAN /\ underrun' \in BOOLEAN
        BY MixFacts, Zenon
    <2> QED
        BY <2>1, MixFacts, Zenon DEF SdInv, SdFlags
<1>2. mixed' \in Nat
    <2>1. CASE Taken > 0
        BY <2>1, MixFacts, SdFacts
    <2>2. CASE ~(Taken > 0)
        BY <2>2, MixFacts, SdFacts
    <2> QED
        BY <2>1, <2>2
<1>3. SdCounts'
    <2>1. Len(ring') <= RingSize
        BY MixFacts, SdFacts
    <2> QED
        BY <1>2, <2>1, MixFacts DEF SdInv, SdCounts
<1>4. OnFile'
    BY MixFacts DEF SdInv, OnFile
<1>5. Rising'
    <2>1. mixed <= Copied /\ \A k \in DOMAIN ring : /\ ring[k] <= Copied
                                                    /\ (IF k = 1 THEN mixed ELSE ring[k - 1]) < ring[k]
        BY MixFacts DEF SdInv, Rising
    <2>2. mixed' <= Copied'
        <3>1. CASE Taken > 0
            BY <2>1, <3>1, MixFacts, SdFacts
        <3>2. CASE ~(Taken > 0)
            BY <2>1, <3>2, MixFacts, SdFacts
        <3> QED
            BY <3>1, <3>2
    <2>3. ASSUME NEW k \in 1 .. Len(ring) - Taken
          PROVE  ring'[k] <= Copied' /\ (IF k = 1 THEN mixed' ELSE ring'[k - 1]) < ring'[k]
        <3>. Taken \in Nat /\ Len(ring) \in Nat /\ k \in Nat /\ k >= 1 /\ DOMAIN ring = 1 .. Len(ring)
            BY MixFacts, SdFacts
        <3>1. Taken + k \in DOMAIN ring /\ ring'[k] = ring[Taken + k] /\ k >= 1
            BY MixFacts
        <3>2. ring'[k] <= Copied'
            BY <2>1, <3>1, MixFacts
        <3>3. CASE k = 1 /\ Taken = 0
            BY <2>1, <3>1, <3>2, <3>3, MixFacts
        <3>4. CASE k = 1 /\ Taken > 0
            <4>1. Taken + 1 \in DOMAIN ring /\ Taken + 1 # 1 /\ (Taken + 1) - 1 = Taken
                BY <3>1, <3>4
            <4>2. ring[Taken] < ring[Taken + 1]
                BY <2>1, <4>1
            <4> QED
                BY <3>1, <3>2, <3>4, <4>2, MixFacts
        <3>5. CASE k # 1
            <4>1. k - 1 \in 1 .. Len(ring) - Taken /\ Taken + k # 1
                  /\ (Taken + k) - 1 = Taken + (k - 1)
                BY <3>5
            <4>2. ring'[k - 1] = ring[Taken + (k - 1)]
                BY <4>1, MixFacts
            <4>3. ring[Taken + (k - 1)] < ring[Taken + k]
                BY <2>1, <3>1, <4>1
            <4> QED
                BY <3>1, <3>2, <3>5, <4>2, <4>3
        <3> QED
            BY <3>3, <3>4, <3>5
    <2> QED
        BY <2>2, <2>3, MixFacts DEF Rising
<1> QED
    BY <1>1, <1>3, <1>4, <1>5 DEF SdInv

LEMMA SdUnchanged == SdInv /\ UNCHANGED sdVars => SdInv'
BY DEF sdVars, ringVars, SdInv, SdFlags, SdCounts, OnFile, Rising, Copied

LEMMA SdKept == SdInv /\ [SdNext]_sdVars => SdInv'
<1> SUFFICES ASSUME SdInv, [SdNext]_sdVars PROVE SdInv'
    OBVIOUS
<1>1. ASSUME NEW f \in PlayFiles, Play(f) PROVE SdInv'
    BY <1>1, PlayInv
<1>2. ASSUME NEW ok \in BOOLEAN, StartPlaying(ok) PROVE SdInv'
    BY <1>2, StartPlayingInv
<1>3. ASSUME NEW ok \in BOOLEAN, ReadFrame(ok) PROVE SdInv'
    BY <1>3, ReadFrameInv
<1> QED
    BY <1>1, <1>2, <1>3, TakeSpaceInv, LockRingInv, CopyFrameInv, MixWithStreamInv, SdUnchanged, Zenon
    DEF SdNext, PlaybackThread

(* One frame or one token: for this the ring buffer must hold a whole number of frames. *)
WholeFrames == \A f \in PlayFiles : \E m \in Nat : RingSize = m * FrameSize[f]

LEMMA NextMultiple ==
    ASSUME NEW q \in Nat, NEW m \in Nat, NEW p \in Nat, p > 0, q * p < m * p
    PROVE  (q + 1) * p = q * p + p /\ q * p + p <= m * p
<1>1. (q + 1) * p = q * p + p
    OBVIOUS
<1>2. q < m
    <2> SUFFICES ASSUME q >= m PROVE FALSE
        OBVIOUS
    <2>1. PICK d \in Nat : q = m + d
        <3>1. q - m \in Nat /\ q = m + (q - m)
            OBVIOUS
        <3> QED
            BY <3>1
    <2>2. q * p = m * p + d * p
        BY <2>1
    <2>3. d * p \in Nat /\ m * p \in Nat
        OBVIOUS
    <2> QED
        BY <2>2, <2>3
<1>3. PICK d \in Nat : m = (q + 1) + d
    <2>1. m - (q + 1) \in Nat /\ m = (q + 1) + (m - (q + 1))
        BY <1>2
    <2> QED
        BY <2>1
<1>4. m * p = (q + 1) * p + d * p
    BY <1>3
<1>5. d * p \in Nat /\ q * p \in Nat
    OBVIOUS
<1> QED
    BY <1>1, <1>4, <1>5

LEMMA ZeroIsNeutral == \A n \in Nat : 0 * n = 0 /\ n + 0 = n
OBVIOUS

LEMMA OneFrameInit == SdInit => OneFrame
BY DEF SdInit, OneFrame

LEMMA OneFramePlay == ASSUME OneFrame, NEW f \in PlayFiles, Play(f) PROVE OneFrame'
BY DEF Play, ringVars, OneFrame, Copied

LEMMA OneFrameStart ==
    ASSUME SdInv, NEW ok \in BOOLEAN, StartPlaying(ok)
    PROVE  OneFrame'
<1>1. SdInv'
    BY StartPlayingInv
<1>2. /\ ring' = <<>> /\ ring_head' = 0 /\ m_sem_space' = TRUE /\ frames_done' = 0 /\ mixed' = 0
      /\ play_pc' = IF ok THEN "read" ELSE "wait"
    BY DEF StartPlaying, RingReset
<1>3. pcm_frame_size' \in Nat
    BY <1>1, SdAssumption DEF SdInv, SdCounts
<1>4. Copied' = 0 /\ ring_head' = 0 * pcm_frame_size'
    <2>1. 0 * pcm_frame_size' = 0
        BY <1>3, ZeroIsNeutral, Zenon
    <2>2. Copied' = frames_done' * pcm_frame_size'
        BY DEF Copied
    <2> QED
        BY <1>2, <2>1, <2>2
<1>5. mixed' + Len(ring') = Copied' /\ DOMAIN ring' = {}
    BY <1>2, <1>4
<1> QED
    BY <1>2, <1>4, <1>5 DEF OneFrame

LEMMA OneFrameRead == ASSUME OneFrame, NEW ok \in BOOLEAN, ReadFrame(ok) PROVE OneFrame'
<1>1. /\ play_pc = "read" /\ play_pc' \in {"take", "wait"}
      /\ UNCHANGED <<frames_done, pcm_frame_size, ring, ring_head, m_sem_space, mixed, underrun>>
    BY DEF ReadFrame, Finish, ringVars
<1> QED
    BY <1>1 DEF OneFrame, Copied

LEMMA OneFrameTake == OneFrame /\ TakeSpace => OneFrame'
<1> SUFFICES ASSUME OneFrame, TakeSpace PROVE OneFrame'
    OBVIOUS
<1>1. /\ play_pc = "take" /\ m_sem_space' = FALSE
      /\ \/ m_sem_space /\ play_pc' = "lock"
         \/ play_pc' = "wait"
      /\ UNCHANGED <<frames_done, pcm_frame_size, ring, ring_head, mixed, underrun>>
    BY Zenon DEF TakeSpace, GiveUp, Finish, TokenTaken
<1> QED
    BY <1>1 DEF OneFrame, Copied

LEMMA OneFrameLock == OneFrame /\ LockRing => OneFrame'
BY DEF LockRing, ringVars, OneFrame, Copied

LEMMA OneFrameCopy ==
    ASSUME WholeFrames, SdInv, OneFrame, CopyFrame
    PROVE  OneFrame'
<1> SUFFICES ASSUME ~underrun PROVE OneFrame'
    BY CopyFacts DEF OneFrame
<1>1. /\ play_pc = "copy" /\ ~m_sem_space /\ ring = <<>> /\ mixed + Len(ring) = Copied
      /\ \E q \in Nat : ring_head = q * pcm_frame_size
    BY CopyFacts DEF OneFrame
<1>2. PICK q \in Nat : ring_head = q * pcm_frame_size
    BY <1>1
<1>3. PICK m \in Nat : RingSize = m * pcm_frame_size
    BY <1>1 DEF WholeFrames, SdInv, SdCounts, OnFile
<1>4. /\ RingSize \in Nat /\ RingSize > 0 /\ pcm_frame_size \in Nat /\ pcm_frame_size > 0
      /\ pcm_frame_size <= RingSize /\ ring_head \in Nat /\ ring_head < RingSize
      /\ mixed \in Nat /\ Copied \in Nat /\ Len(ring) = 0
    BY <1>1, SdFacts
<1>5. (q + 1) * pcm_frame_size = ring_head + pcm_frame_size /\ ring_head + pcm_frame_size <= RingSize
    BY <1>2, <1>3, <1>4, NextMultiple
<1>6. Claimed = pcm_frame_size
    BY <1>4, <1>5 DEF Claimed, AtMost, RoomToWrap
<1>7. Len(ring') = pcm_frame_size' /\ mixed' + Len(ring') = Copied'
    BY <1>1, <1>4, <1>6, CopyFacts
<1>8. \A k \in DOMAIN ring' : ring'[k] = mixed' + k
    <2> SUFFICES ASSUME NEW k \in 1 .. pcm_frame_size PROVE ring'[k] = mixed + k
        BY <1>4, <1>6, CopyFacts
    <2>1. ring'[k] = Copied + (k - Len(ring))
        BY <1>4, <1>6, CopyFacts
    <2> QED
        BY <1>1, <1>4, <2>1
<1>9. \E r \in Nat : ring_head' = r * pcm_frame_size'
    <2>1. ring_head' = (ring_head + pcm_frame_size) % RingSize /\ pcm_frame_size' = pcm_frame_size
        BY <1>6, CopyFacts
    <2>2. CASE ring_head + pcm_frame_size < RingSize
        <3>1. ring_head' = ring_head + pcm_frame_size
            BY <1>4, <2>1, <2>2
        <3>2. ring_head' = (q + 1) * pcm_frame_size' /\ q + 1 \in Nat
            BY <1>5, <2>1, <3>1
        <3> QED
            BY <3>2
    <2>3. CASE ring_head + pcm_frame_size = RingSize
        <3>1. ring_head' = 0
            BY <1>4, <2>1, <2>3
        <3>2. ring_head' = 0 * pcm_frame_size'
            BY <1>4, <2>1, <3>1
        <3> QED
            BY <3>2
    <2> QED
        BY <1>4, <1>5, <2>2, <2>3
<1>10. play_pc' = "read" /\ ~m_sem_space'
    BY <1>1, CopyFacts
<1> QED
    BY <1>7, <1>8, <1>9, <1>10 DEF OneFrame

LEMMA OneFrameMix == ASSUME SdInv, OneFrame, MixWithStream PROVE OneFrame'
<1> SUFFICES ASSUME ~underrun' PROVE OneFrame'
    BY DEF OneFrame
<1>1. ~underrun /\ ~(Taken < pcm_frame_size) /\ play_pc # "wait"
    BY MixFacts, Zenon
<1>2. /\ RingSize \in Nat /\ pcm_frame_size \in Nat /\ pcm_frame_size > 0 /\ pcm_frame_size <= RingSize
      /\ Len(ring) \in Nat /\ DOMAIN ring = 1 .. Len(ring) /\ Taken \in Nat /\ Taken <= Len(ring)
      /\ Taken <= pcm_frame_size
    BY <1>1, SdFacts, MixFacts
<1>3. Len(ring) > 0 /\ Taken = pcm_frame_size
    BY <1>1, <1>2
<1>4. ring # <<>>
    BY <1>3
<1>5. play_pc \notin {"lock", "copy"} /\ Len(ring) = pcm_frame_size
      /\ mixed + Len(ring) = Copied /\ (\A k \in DOMAIN ring : ring[k] = mixed + k)
      /\ \E q \in Nat : ring_head = q * pcm_frame_size
    BY <1>1, <1>4 DEF OneFrame
<1>6. Len(ring') = 0 /\ ring' \in Seq(Nat)
    BY <1>2, <1>3, <1>5, MixFacts
<1>7. ring' = <<>>
    BY <1>6, EmptySeq
<1>8. mixed' = Copied' /\ mixed' \in Nat
    <2>1. mixed' = ring[Taken] /\ Taken \in DOMAIN ring
        <3>1. mixed' = IF Taken > 0 THEN ring[Taken] ELSE mixed
            BY MixFacts
        <3> QED
            BY <1>2, <1>3, <3>1
    <2>2. ring[Taken] = mixed + Taken /\ Copied' = Copied /\ mixed \in Nat /\ Copied \in Nat
        BY <1>5, <2>1, MixFacts, SdFacts
    <2> QED
        BY <1>3, <1>5, <2>1, <2>2
<1>9. RoomForFrame(ring')
    BY <1>2, <1>6 DEF RoomForFrame
<1>10. m_sem_space'
    BY <1>9, MixFacts, Zenon
<1>11. play_pc' \notin {"lock", "copy"} /\ pcm_frame_size' = pcm_frame_size /\ ring_head' = ring_head
    BY <1>5, MixFacts
<1> QED
    <2>1. DOMAIN ring' = {}
        BY <1>7
    <2>2. mixed' + Len(ring') = Copied'
        BY <1>6, <1>8, ZeroIsNeutral, Zenon
    <2> QED
        BY <1>5, <1>7, <1>10, <1>11, <2>1, <2>2 DEF OneFrame

LEMMA OneFrameKept == ASSUME WholeFrames PROVE SdInv /\ OneFrame /\ [SdNext]_sdVars => OneFrame'
<1> SUFFICES ASSUME SdInv, OneFrame, [SdNext]_sdVars PROVE OneFrame'
    OBVIOUS
<1>1. ASSUME NEW f \in PlayFiles, Play(f) PROVE OneFrame'
    BY <1>1, OneFramePlay
<1>2. ASSUME NEW ok \in BOOLEAN, StartPlaying(ok) PROVE OneFrame'
    BY <1>2, OneFrameStart
<1>3. ASSUME NEW ok \in BOOLEAN, ReadFrame(ok) PROVE OneFrame'
    BY <1>3, OneFrameRead
<1>4. ASSUME UNCHANGED sdVars PROVE OneFrame'
    BY <1>4 DEF sdVars, ringVars, OneFrame, Copied
<1> QED
    BY <1>1, <1>2, <1>3, <1>4, OneFrameTake, OneFrameLock, OneFrameCopy, OneFrameMix, Zenon
    DEF SdNext, PlaybackThread

LEMMA SdTypesFollow == SdInv => SdTypeOK
BY DEF SdInv, SdFlags, SdCounts, SdTypeOK

LEMMA RingFollows == SdInv /\ OneFrame => RingIsRight
<1> SUFFICES ASSUME SdInv, OneFrame PROVE RingIsRight
    OBVIOUS
<1>1. MixedInOrder
    <2> SUFFICES ASSUME play_pc # "wait", NEW k \in DOMAIN ring,
                        NEW before, before = IF k = 1 THEN mixed ELSE ring[k - 1]
                 PROVE  before < ring[k] /\ ring[k] <= frames_done * pcm_frame_size
                        /\ (underrun \/ ring[k] = before + 1)
        BY Zenon DEF MixedInOrder
    <2>1. before < ring[k] /\ ring[k] <= frames_done * pcm_frame_size
        BY DEF SdInv, Rising, Copied
    <2>2. CASE ~underrun
        <3>1. \A j \in DOMAIN ring : ring[j] = mixed + j
            BY <2>2 DEF OneFrame
        <3>2. mixed \in Nat /\ k \in Nat /\ k >= 1 /\ (k # 1 => k - 1 \in DOMAIN ring)
            BY SdFacts
        <3>3. ring[k] = before + 1
            BY <3>1, <3>2
        <3> QED
            BY <2>1, <3>3
    <2> QED
        BY <2>1, <2>2
<1>2. TokenMeansRoom
    <2> SUFFICES ASSUME play_pc \in {"lock", "copy"}, ~underrun
                 PROVE  RingSize - Len(ring) >= pcm_frame_size
        BY Zenon DEF TokenMeansRoom
    <2>1. Len(ring) = 0
        BY DEF OneFrame
    <2> QED
        BY <2>1, SdFacts
<1> QED
    BY <1>1, <1>2 DEF RingIsRight

\* While a file is played, what the datapath mixes from the ring buffer comes from that file
\* and in its order, whatever the sizes of frames and ring buffer, the errors of the card and
\* the commands that arrive (sd_card_playback_ringbuf_write(), _mix_with_stream()).
THEOREM FilesMixedForward == SdSpec => [](SdTypeOK /\ Rising)
<1>1. SdInv => SdTypeOK /\ Rising
    BY SdTypesFollow DEF SdInv
<1> QED
    BY <1>1, SdInitInv, SdKept, PTL DEF SdSpec

\* When the ring buffer holds a whole number of frames, nothing of the file is left out and
\* every frame that is copied finds room, until the datapath has once run out of audio.
THEOREM FilesMixedWhole == ASSUME WholeFrames PROVE SdSpec => []RingIsRight
<1>1. SdInit => SdInv /\ OneFrame
    BY SdInitInv, OneFrameInit
<1>2. SdInv /\ OneFrame /\ [SdNext]_sdVars => SdInv' /\ OneFrame'
    BY SdKept, OneFrameKept
<1> QED
    BY <1>1, <1>2, RingFollows, PTL DEF SdSpec
-----------------------------------------------------------------------------
(* Lc3Streamer: files streamed through two blocks.                                 *)

Stream == [state : {"idle", "playing", "last_frame", "ended"}, loop : BOOLEAN, active : BOOLEAN,
           file : Files \cup {NoFile}, name : Files \cup {NoFile}, pos : Nat, fifo : Seq(Nat),
           ready : BOOLEAN]

\* A stream never uses more blocks than it has, none when it is idle, and one that plays
\* has a file.
SlotIsSound(s) == /\ BlocksUsed(s) <= BUFFER_NUM_FRAMES
                  /\ s.state = "idle" => s.file = NoFile /\ BlocksUsed(s) = 0
                  /\ IsPlaying(s) => s.ready /\ s.file \in Files

\* The frame after frame d of a file, which starts again after its last one.
After(s, d) == IF d = FramesOf[s.file] THEN 1 ELSE d + 1

\* A stream whose caller has frame d: either the work that reads the next frame is pending
\* or that frame is in the fifo, and the last frame is noticed when there is none.
SlotInOrder(s, d, pending) ==
  /\ pending => s.state = "playing" /\ s.fifo = <<>>
  /\ IsPlaying(s) => /\ FramesOf[s.file] > 0
                     /\ \/ s.fifo = <<>> /\ s.pos = d
                        \/ s.fifo = <<s.pos>> /\ s.pos = After(s, d)
  /\ s.state = "last_frame" => ~s.loop /\ s.fifo = <<>> /\ s.pos = FramesOf[s.file]

Lc3Types == /\ lc3_streams \in [StreamSlots -> Stream] /\ load_work \subseteq StreamSlots
            /\ upset \subseteq StreamSlots /\ lost_files \in Nat /\ delivered \in [StreamSlots -> Nat]
Sound == \A i \in StreamSlots : SlotIsSound(lc3_streams[i])
StreamsInOrder == \A i \in StreamSlots \ upset : SlotInOrder(lc3_streams[i], delivered[i], i \in load_work)
Lc3Inv == Lc3Types /\ Sound /\ StreamsInOrder

LEMMA StreamFields ==
    ASSUME NEW s \in Stream
    PROVE  /\ s.pos \in Nat /\ s.fifo \in Seq(Nat) /\ Len(s.fifo) \in Nat /\ s.file \in Files \cup {NoFile}
           /\ s.name \in Files \cup {NoFile} /\ s.state \in {"idle", "playing", "last_frame", "ended"}
           /\ s.active \in BOOLEAN /\ s.loop \in BOOLEAN /\ s.ready \in BOOLEAN
           /\ BlocksUsed(s) \in Nat /\ Len(s.fifo) <= BlocksUsed(s)
<1>1. /\ s.pos \in Nat /\ s.fifo \in Seq(Nat) /\ s.file \in Files \cup {NoFile}
      /\ s.name \in Files \cup {NoFile} /\ s.state \in {"idle", "playing", "last_frame", "ended"}
      /\ s.active \in BOOLEAN /\ s.loop \in BOOLEAN /\ s.ready \in BOOLEAN
    BY Zenon DEF Stream
<1>2. Len(s.fifo) \in Nat
    BY <1>1, LenProperties
<1>3. BlocksUsed(s) \in Nat /\ Len(s.fifo) <= BlocksUsed(s)
    <2>1. CASE s.active
        <3>1. BlocksUsed(s) = Len(s.fifo) + 1
            BY <2>1, Zenon DEF BlocksUsed
        <3> QED
            BY <1>2, <3>1
    <2>2. CASE ~s.active
        <3>1. BlocksUsed(s) = Len(s.fifo) + 0
            BY <2>2, Zenon DEF BlocksUsed
        <3> QED
            BY <1>2, <3>1
    <2> QED
        BY <2>1, <2>2
<1> QED
    BY <1>1, <1>2, <1>3

\* A frame is put into the fifo of a stream that has a file, a free block and a frame left.
LEMMA PutFacts ==
    ASSUME NEW s \in Stream, SlotIsSound(s), NEW ok \in BOOLEAN, PutResult(s, ok) = "ok",
           NEW t, t = PutNextFrame(s, ok)
    PROVE  /\ s.ready /\ s.file \in Files /\ BlocksUsed(s) < BUFFER_NUM_FRAMES
           /\ s.pos # FramesOf[s.file] /\ s.state # "idle"
           /\ t \in Stream /\ SlotIsSound(t)
           /\ t.state = s.state /\ (t.loop = s.loop) /\ (t.active = s.active) /\ t.file = s.file
           /\ t.pos = s.pos + 1 /\ t.fifo = Append(s.fifo, s.pos + 1)
<1>1. /\ s.ready /\ s.file # NoFile /\ BlocksUsed(s) # BUFFER_NUM_FRAMES /\ ok
      /\ s.pos # FramesOf[s.file]
    BY DEF PutResult
<1>2. t = [s EXCEPT !.pos = @ + 1, !.fifo = Append(@, s.pos + 1)]
    BY DEF PutNextFrame
<1>3. s.file \in Files /\ s.state # "idle"
    BY <1>1, StreamFields DEF SlotIsSound
<1>4. BlocksUsed(s) < BUFFER_NUM_FRAMES
    BY <1>1, StreamFields DEF SlotIsSound, BUFFER_NUM_FRAMES
<1>5. /\ Append(s.fifo, s.pos + 1) \in Seq(Nat) /\ Len(Append(s.fifo, s.pos + 1)) = Len(s.fifo) + 1
      /\ s.pos + 1 \in Nat
    BY StreamFields, AppendProperties
<1>6. /\ t.state = s.state /\ (t.loop = s.loop) /\ (t.active = s.active) /\ t.file = s.file
      /\ (t.ready = s.ready) /\ t.pos = s.pos + 1 /\ t.fifo = Append(s.fifo, s.pos + 1)
    BY <1>2 DEF Stream
<1>7. t \in Stream
    BY <1>2, <1>5 DEF Stream
<1>8. BlocksUsed(t) = BlocksUsed(s) + 1
    <2>1. PICK one \in {0, 1} : one = IF s.active THEN 1 ELSE 0
        BY Zenon
    <2>2. BlocksUsed(s) = Len(s.fifo) + one /\ BlocksUsed(t) = Len(t.fifo) + one
        BY <1>6, <2>1, Zenon DEF BlocksUsed
    <2>3. Len(s.fifo) \in Nat /\ Len(t.fifo) = Len(s.fifo) + 1
        BY <1>5, <1>6, StreamFields
    <2> QED
        BY <2>2, <2>3
<1>9. SlotIsSound(t)
    <2>1. BlocksUsed(t) <= BUFFER_NUM_FRAMES
        BY <1>4, <1>8, StreamFields DEF BUFFER_NUM_FRAMES
    <2> QED
        BY <1>1, <1>3, <1>6, <2>1, Zenon DEF SlotIsSound
<1> QED
    BY <1>1, <1>3, <1>4, <1>6, <1>7, <1>9

\* Which of the results of a read a sound stream that has a file and room can meet.
LEMMA PutWithRoom ==
    ASSUME NEW s \in Stream, s.ready, s.file \in Files, BlocksUsed(s) < BUFFER_NUM_FRAMES
    PROVE  PutResult(s, TRUE) = IF s.pos = FramesOf[s.file] THEN "no data" ELSE "ok"
<1>1. s.file # NoFile /\ BlocksUsed(s) # BUFFER_NUM_FRAMES
    BY Lc3Assumption, StreamFields DEF BUFFER_NUM_FRAMES
<1> QED
    BY <1>1 DEF PutResult

LEMMA RewoundFacts ==
    ASSUME NEW s \in Stream, SlotIsSound(s), NEW t, t = Rewound(s)
    PROVE  /\ t \in Stream /\ SlotIsSound(t) /\ BlocksUsed(t) = BlocksUsed(s)
           /\ t.state = s.state /\ (t.loop = s.loop) /\ t.file = s.file /\ (t.ready = s.ready)
           /\ t.fifo = s.fifo /\ t.pos = 0
<1>1. t = [s EXCEPT !.pos = 0]
    BY DEF Rewound
<1>2. /\ t.state = s.state /\ (t.loop = s.loop) /\ t.file = s.file /\ (t.ready = s.ready)
      /\ t.fifo = s.fifo /\ t.pos = 0 /\ (t.active = s.active)
    BY <1>1 DEF Stream
<1>3. t \in Stream
    BY <1>1 DEF Stream
<1>4. BlocksUsed(t) = BlocksUsed(s)
    BY <1>2 DEF BlocksUsed
<1> QED
    BY <1>2, <1>3, <1>4 DEF SlotIsSound, IsPlaying

LEMMA EndedFacts ==
    ASSUME NEW s \in Stream, SlotIsSound(s), NEW f \in {s.file, NoFile}
    PROVE  /\ [s EXCEPT !.state = "ended", !.file = f] \in Stream
           /\ SlotIsSound([s EXCEPT !.state = "ended", !.file = f])
<1> DEFINE t == [s EXCEPT !.state = "ended", !.file = f]
<1>1. t.state = "ended" /\ t.fifo = s.fifo /\ (t.active = s.active)
    BY DEF Stream
<1>2. t \in Stream
    BY DEF Stream
<1> HIDE DEF t
<1>3. BlocksUsed(t) = BlocksUsed(s)
    BY <1>1 DEF BlocksUsed
<1>4. SlotIsSound(t)
    BY <1>1, <1>3 DEF SlotIsSound, IsPlaying
<1> QED
    BY <1>2, <1>4 DEF t

LEMMA LoadedSound ==
    ASSUME NEW s \in Stream, SlotIsSound(s), NEW ok \in BOOLEAN, NEW again \in Rereads
    PROVE  Loaded(s, ok, again) \in Stream /\ SlotIsSound(Loaded(s, ok, again))
<1>1. CASE PutResult(s, ok) = "ok"
    <2>1. Loaded(s, ok, again) = PutNextFrame(s, ok)
        BY <1>1, Zenon DEF Loaded
    <2> QED
        BY <1>1, <2>1, PutFacts
<1>2. CASE PutResult(s, ok) = "error"
    <2>1. Loaded(s, ok, again) = [s EXCEPT !.state = "ended"]
        BY <1>2 DEF Loaded
    <2>2. [s EXCEPT !.state = "ended"] = [s EXCEPT !.state = "ended", !.file = s.file]
        BY DEF Stream
    <2> DEFINE t == [s EXCEPT !.state = "ended", !.file = s.file]
    <2>3. t \in Stream /\ SlotIsSound(t)
        BY EndedFacts
    <2>4. Loaded(s, ok, again) = t
        BY <2>1, <2>2
    <2> HIDE DEF t
    <2> QED
        BY <2>3, <2>4
<1>3. CASE PutResult(s, ok) = "no data"
    <2>0. s.ready /\ s.file \in Files
        BY <1>3, StreamFields DEF PutResult
    <2>1. CASE ~s.loop
        <3> DEFINE t == [s EXCEPT !.state = "last_frame"]
        <3>1. Loaded(s, ok, again) = t
            BY <1>3, <2>1 DEF Loaded, EndState
        <3>2. /\ t.state = "last_frame" /\ t.fifo = s.fifo /\ (t.active = s.active)
              /\ t.file = s.file /\ (t.ready = s.ready)
            BY DEF Stream
        <3>3. t \in Stream
            BY DEF Stream
        <3> HIDE DEF t
        <3>4. BlocksUsed(t) = BlocksUsed(s)
            BY <3>2 DEF BlocksUsed
        <3>5. SlotIsSound(t)
            BY <2>0, <3>2, <3>4 DEF SlotIsSound, IsPlaying
        <3> QED
            BY <3>1, <3>3, <3>5
    <2> DEFINE reread == again = "frame" /\ PutResult(Rewound(s), TRUE) = "ok"
    <2>2. CASE s.loop /\ reread
        <3>1. Loaded(s, ok, again) = PutNextFrame(Rewound(s), TRUE)
            BY <1>3, <2>2 DEF Loaded
        <3> QED
            BY <2>2, <3>1, RewoundFacts, PutFacts
    <2>3. CASE s.loop /\ ~reread
        <3>1. PICK f \in {Rewound(s).file, NoFile} :
                  Loaded(s, ok, again) = [Rewound(s) EXCEPT !.state = "ended", !.file = f]
            <4>1. Rewound(s) \in Stream
                BY RewoundFacts
            <4>2. [Rewound(s) EXCEPT !.state = "ended"]
                    = [Rewound(s) EXCEPT !.state = "ended", !.file = Rewound(s).file]
                BY <4>1 DEF Stream
            <4> QED
                BY <1>3, <2>3, <4>2, Zenon DEF Loaded
        <3>2. Rewound(s) \in Stream /\ SlotIsSound(Rewound(s))
            BY RewoundFacts
        <3>3. PICK t : t = [Rewound(s) EXCEPT !.state = "ended", !.file = f]
            OBVIOUS
        <3>4. t \in Stream /\ SlotIsSound(t)
            BY <3>2, <3>3, EndedFacts, Zenon
        <3> QED
            BY <3>1, <3>3, <3>4, Zenon
    <2> QED
        BY <2>1, <2>2, <2>3
<1> QED
    BY <1>1, <1>2, <1>3 DEF PutResult

\* Without an error, a read that was asked for keeps the order, and it ends no stream.
LEMMA LoadedInOrder ==
    ASSUME NEW s \in Stream, SlotIsSound(s), NEW d \in Nat, SlotInOrder(s, d, TRUE)
    PROVE  SlotInOrder(Loaded(s, TRUE, "frame"), d, FALSE) /\ Loaded(s, TRUE, "frame").state # "ended"
<1>1. /\ s.state = "playing" /\ s.fifo = <<>> /\ s.ready /\ s.file \in Files
      /\ FramesOf[s.file] > 0 /\ s.pos = d
    <2>1. s.state = "playing" /\ s.fifo = <<>>
        BY Zenon DEF SlotInOrder
    <2>2. IsPlaying(s)
        BY <2>1 DEF IsPlaying
    <2>3. s.ready /\ s.file \in Files
        BY <2>2, Zenon DEF SlotIsSound
    <2>4. FramesOf[s.file] > 0 /\ (s.fifo = <<s.pos>> \/ s.pos = d)
        BY <2>2, Zenon DEF SlotInOrder
    <2> QED
        BY <2>1, <2>3, <2>4
<1>2. BlocksUsed(s) < BUFFER_NUM_FRAMES
    BY <1>1 DEF BlocksUsed, BUFFER_NUM_FRAMES
<1>3. PutResult(s, TRUE) = IF s.pos = FramesOf[s.file] THEN "no data" ELSE "ok"
    BY <1>1, <1>2, PutWithRoom
<1>4. FramesOf[s.file] \in Nat
    BY <1>1, Lc3Assumption
<1>5. CASE s.pos # FramesOf[s.file]
    <2>1. PICK t : t = PutNextFrame(s, TRUE)
        OBVIOUS
    <2>2. t.state = s.state /\ t.file = s.file /\ t.pos = s.pos + 1 /\ t.fifo = Append(s.fifo, s.pos + 1)
        BY <1>3, <1>5, <2>1, PutFacts
    <2>3. t.fifo = <<t.pos>>
        BY <1>1, <2>2
    <2>4. t.pos = After(t, d)
        BY <1>1, <1>5, <2>2 DEF After
    <2>5. SlotInOrder(t, d, FALSE)
        BY <1>1, <2>2, <2>3, <2>4 DEF SlotInOrder, IsPlaying
    <2>6. Loaded(s, TRUE, "frame") = t
        BY <1>3, <1>5, <2>1, Zenon DEF Loaded
    <2> QED
        BY <1>1, <2>2, <2>5, <2>6
<1>6. CASE s.pos = FramesOf[s.file] /\ ~s.loop
    <2> DEFINE t == [s EXCEPT !.state = "last_frame"]
    <2>1. Loaded(s, TRUE, "frame") = t
        BY <1>3, <1>6 DEF Loaded, EndState
    <2>2. /\ t.state = "last_frame" /\ t.fifo = s.fifo /\ t.pos = s.pos /\ t.file = s.file
          /\ (t.loop = s.loop)
        BY DEF Stream
    <2> HIDE DEF t
    <2>3. SlotInOrder(t, d, FALSE)
        BY <1>1, <1>6, <2>2 DEF SlotInOrder, IsPlaying
    <2> QED
        BY <2>1, <2>2, <2>3
<1>7. CASE s.pos = FramesOf[s.file] /\ s.loop
    <2>1. PICK r : r = Rewound(s)
        OBVIOUS
    <2>2. /\ r \in Stream /\ SlotIsSound(r) /\ BlocksUsed(r) = BlocksUsed(s) /\ r.state = s.state
          /\ r.file = s.file /\ (r.ready = s.ready) /\ r.fifo = s.fifo /\ r.pos = 0
        BY <2>1, RewoundFacts
    <2>3. PutResult(r, TRUE) = "ok"
        <3>1. r.ready /\ r.file \in Files /\ BlocksUsed(r) < BUFFER_NUM_FRAMES
            BY <1>1, <1>2, <2>2, Zenon
        <3>2. PutResult(r, TRUE) = IF r.pos = FramesOf[r.file] THEN "no data" ELSE "ok"
            BY <2>2, <3>1, PutWithRoom
        <3>3. r.pos = 0 /\ r.file = s.file
            BY <2>2, Zenon
        <3>4. 0 # FramesOf[s.file]
            <4>1. FramesOf[s.file] > 0
                BY <1>1, Zenon
            <4> QED
                BY <1>4, <4>1
        <3> QED
            BY <3>2, <3>3, <3>4, Zenon
    <2>4. PICK t : t = PutNextFrame(r, TRUE)
        OBVIOUS
    <2>5. t.state = r.state /\ t.file = r.file /\ t.pos = r.pos + 1 /\ t.fifo = Append(r.fifo, r.pos + 1)
        <3>1. r \in Stream /\ SlotIsSound(r)
            BY <2>2, Zenon
        <3> QED
            BY <2>3, <2>4, <3>1, PutFacts
    <2>6. t.fifo = <<t.pos>> /\ t.pos = 1
        BY <1>1, <2>2, <2>5
    <2>7. t.pos = After(t, d)
        BY <1>1, <1>7, <2>2, <2>5, <2>6 DEF After
    <2>8. SlotInOrder(t, d, FALSE)
        BY <1>1, <2>2, <2>5, <2>6, <2>7 DEF SlotInOrder, IsPlaying
    <2>9. Loaded(s, TRUE, "frame") = t
        BY <1>3, <1>7, <2>1, <2>3, <2>4 DEF Loaded
    <2> QED
        BY <1>1, <2>2, <2>5, <2>8, <2>9
<1> QED
    BY <1>5, <1>6, <1>7

\* A step that writes one slot.
LEMMA OneSlot ==
    ASSUME Lc3Inv, NEW i \in StreamSlots, NEW r \in Stream, SlotIsSound(r),
           lc3_streams' = [lc3_streams EXCEPT ![i] = r],
           delivered' \in [StreamSlots -> Nat], lost_files' \in Nat,
           upset' \subseteq StreamSlots, load_work' \subseteq StreamSlots,
           \A j \in StreamSlots \ {i} : /\ delivered'[j] = delivered[j]
                                        /\ j \in load_work' <=> j \in load_work
                                        /\ j \notin upset' => j \notin upset,
           i \notin upset' => SlotInOrder(r, delivered'[i], i \in load_work')
    PROVE  Lc3Inv'
<1>1. lc3_streams' \in [StreamSlots -> Stream] /\ lc3_streams'[i] = r
      /\ \A j \in StreamSlots \ {i} : lc3_streams'[j] = lc3_streams[j]
    BY DEF Lc3Inv, Lc3Types
<1>2. Lc3Types'
    BY <1>1 DEF Lc3Types
<1>3. Sound'
    <2> SUFFICES ASSUME NEW j \in StreamSlots PROVE SlotIsSound(lc3_streams'[j])
        BY Zenon DEF Sound
    <2>1. CASE j = i
        BY <1>1, <2>1, Zenon
    <2>2. CASE j # i
        BY <1>1, <2>2, Zenon DEF Lc3Inv, Sound
    <2> QED
        BY <2>1, <2>2
<1>4. StreamsInOrder'
    <2> SUFFICES ASSUME NEW j \in StreamSlots \ upset'
                 PROVE  SlotInOrder(lc3_streams'[j], delivered'[j], j \in load_work')
        BY Zenon DEF StreamsInOrder
    <2>1. CASE j = i
        BY <1>1, <2>1, Zenon
    <2>2. CASE j # i
        <3>1. j \in StreamSlots \ upset
            BY <2>2
        <3>2. SlotInOrder(lc3_streams[j], delivered[j], j \in load_work)
            BY <3>1, Zenon DEF Lc3Inv, StreamsInOrder
        <3>3. lc3_streams'[j] = lc3_streams[j] /\ delivered'[j] = delivered[j]
              /\ (j \in load_work' <=> j \in load_work)
            BY <1>1, <2>2
        <3> QED
            BY <3>2, <3>3, Zenon DEF SlotInOrder
    <2> QED
        BY <2>1, <2>2
<1> QED
    BY <1>2, <1>3, <1>4 DEF Lc3Inv

LEMMA SlotFacts ==
    ASSUME Lc3Inv, NEW i \in StreamSlots
    PROVE  /\ lc3_streams[i] \in Stream /\ SlotIsSound(lc3_streams[i]) /\ delivered[i] \in Nat
           /\ i \notin upset => SlotInOrder(lc3_streams[i], delivered[i], i \in load_work)
<1>1. lc3_streams[i] \in Stream /\ delivered[i] \in Nat
    BY DEF Lc3Inv, Lc3Types
<1>2. SlotIsSound(lc3_streams[i])
    BY Zenon DEF Lc3Inv, Sound
<1>3. i \notin upset => SlotInOrder(lc3_streams[i], delivered[i], i \in load_work)
    <2> SUFFICES ASSUME i \in StreamSlots \ upset
                 PROVE  SlotInOrder(lc3_streams[i], delivered[i], i \in load_work)
        OBVIOUS
    <2> QED
        BY Zenon DEF Lc3Inv, StreamsInOrder
<1> QED
    BY <1>1, <1>2, <1>3

\* What the order of a stream says of its next frame and of its end.
StepInOrder == \A i \in StreamSlots \ upset' : NextInOrder(i)

LEMMA NextFrameLoadInv ==
    ASSUME Lc3Inv, NEW i \in StreamSlots, NEW ok \in BOOLEAN, NEW again \in Rereads,
           NextFrameLoad(i, ok, again)
    PROVE  Lc3Inv' /\ StepInOrder
<1> DEFINE s == lc3_streams[i]
           r == Loaded(s, ok, again)
<1>1. /\ i \in load_work /\ load_work' = load_work \ {i}
      /\ lc3_streams' = [lc3_streams EXCEPT ![i] = r]
      /\ upset' = IF ok /\ again = "frame" THEN upset ELSE upset \cup {i}
      /\ lost_files' = lost_files /\ delivered' = delivered
    BY DEF NextFrameLoad
<1>2. s \in Stream /\ SlotIsSound(s) /\ delivered[i] \in Nat
      /\ (i \notin upset => SlotInOrder(s, delivered[i], i \in load_work))
    BY SlotFacts
<1> HIDE DEF s
<1>3. r \in Stream /\ SlotIsSound(r)
    BY <1>2, LoadedSound
<1>4. ASSUME i \notin upset'
      PROVE  SlotInOrder(r, delivered'[i], i \in load_work') /\ r.state # "ended"
    <2>1. ok = TRUE /\ again = "frame" /\ i \notin upset
        BY <1>1, <1>4
    <2>2. SlotInOrder(s, delivered[i], TRUE)
        BY <1>1, <1>2, <2>1, Zenon DEF SlotInOrder
    <2>3. SlotInOrder(r, delivered[i], FALSE) /\ r.state # "ended"
        BY <1>2, <2>1, <2>2, LoadedInOrder
    <2>4. i \notin load_work'
        BY <1>1
    <2> QED
        BY <1>1, <2>3, <2>4, Zenon DEF SlotInOrder
<1> HIDE DEF r
<1>5. Lc3Inv'
    <2>1. delivered' \in [StreamSlots -> Nat] /\ lost_files' \in Nat /\ upset' \subseteq StreamSlots
          /\ load_work' \subseteq StreamSlots
        BY <1>1 DEF Lc3Inv, Lc3Types
    <2>2. \A j \in StreamSlots \ {i} : /\ delivered'[j] = delivered[j]
                                       /\ j \in load_work' <=> j \in load_work
                                       /\ j \notin upset' => j \notin upset
        BY <1>1
    <2>3. i \notin upset' => SlotInOrder(r, delivered'[i], i \in load_work')
        BY <1>4
    <2> QED
        BY <1>1, <1>3, <2>1, <2>2, <2>3, OneSlot
<1>6. StepInOrder
    <2> SUFFICES ASSUME NEW j \in StreamSlots \ upset', IsPlaying(lc3_streams[j]),
                        lc3_streams'[j].state = "ended"
                 PROVE  FALSE
        BY <1>1 DEF StepInOrder, NextInOrder
    <2>1. CASE j = i
        <3>1. lc3_streams'[j] = r
            BY <1>1, <2>1 DEF Lc3Inv, Lc3Types
        <3> QED
            BY <1>4, <2>1, <3>1
    <2>2. CASE j # i
        <3>1. lc3_streams'[j] = lc3_streams[j]
            BY <1>1, <2>2 DEF Lc3Inv, Lc3Types
        <3> QED
            BY <3>1 DEF IsPlaying
    <2> QED
        BY <2>1, <2>2
<1> QED
    BY <1>5, <1>6

\* A step that leaves the slots that play as they are, or closes them.
LEMMA ClosedInOrder ==
    ASSUME \A i \in StreamSlots \ upset' : IsPlaying(lc3_streams[i]) =>
             lc3_streams'[i].state # "ended" /\ delivered'[i] \in {delivered[i], 0}
    PROVE  StepInOrder
BY DEF StepInOrder, NextInOrder

LEMMA BlocksFollow ==
    ASSUME NEW s \in Stream, NEW t \in Stream
    PROVE  BlocksUsed(t) = Len(t.fifo) + (IF t.active THEN 1 ELSE 0)
           /\ (~t.active => BlocksUsed(t) = Len(t.fifo)) /\ (t.active => BlocksUsed(t) = Len(t.fifo) + 1)
           /\ (t.fifo = s.fifo /\ ~t.active => BlocksUsed(t) <= BlocksUsed(s))
<1>1. Len(t.fifo) \in Nat
    BY StreamFields
<1>2. CASE t.active
    <2>1. BlocksUsed(t) = Len(t.fifo) + 1
        BY <1>2, Zenon DEF BlocksUsed
    <2> QED
        BY <1>2, <2>1, Zenon
<1>3. CASE ~t.active
    <2>1. BlocksUsed(t) = Len(t.fifo) + 0
        BY <1>3, Zenon DEF BlocksUsed
    <2>2. BlocksUsed(t) = Len(t.fifo)
        BY <1>1, <2>1
    <2>3. t.fifo = s.fifo => BlocksUsed(t) <= BlocksUsed(s)
        BY <2>2, StreamFields
    <2> QED
        BY <1>3, <2>1, <2>2, <2>3, Zenon
<1> QED
    BY <1>2, <1>3

\* The three answers to a caller who asks for a frame.
LEMMA NoMoreFrames ==
    ASSUME NEW s \in Stream, SlotIsSound(s), s.state = "last_frame",
           NEW r, r = [FreeActive(s) EXCEPT !.state = "ended"]
    PROVE  r \in Stream /\ SlotIsSound(r) /\ r.state = "ended"
<1>1. r = [s EXCEPT !.active = FALSE, !.state = "ended"]
    BY DEF FreeActive, Stream
<1>2. r.state = "ended" /\ r.fifo = s.fifo /\ r.active = FALSE
    BY <1>1 DEF Stream
<1>3. r \in Stream
    BY <1>1 DEF Stream
<1>4. BlocksUsed(r) <= BUFFER_NUM_FRAMES
    <2>1. BlocksUsed(r) <= BlocksUsed(s)
        BY <1>2, <1>3, BlocksFollow
    <2>2. BlocksUsed(s) <= BUFFER_NUM_FRAMES
        BY Zenon DEF SlotIsSound
    <2> QED
        BY <1>3, <2>1, <2>2, StreamFields DEF BUFFER_NUM_FRAMES
<1> QED
    BY <1>2, <1>3, <1>4 DEF SlotIsSound, IsPlaying

LEMMA NoFrameYet ==
    ASSUME NEW s \in Stream, SlotIsSound(s), s.state = "playing", s.fifo = <<>>,
           NEW r, r = FreeActive(s)
    PROVE  /\ r \in Stream /\ SlotIsSound(r) /\ r.state = "playing"
           /\ \A d, pending : SlotInOrder(s, d, pending) => SlotInOrder(r, d, pending)
<1>1. r = [s EXCEPT !.active = FALSE]
    BY DEF FreeActive
<1>2. /\ r.state = s.state /\ r.fifo = s.fifo /\ r.active = FALSE /\ r.file = s.file
      /\ (r.ready = s.ready) /\ (r.loop = s.loop) /\ r.pos = s.pos
    BY <1>1 DEF Stream
<1>3. r \in Stream
    BY <1>1 DEF Stream
<1>4. BlocksUsed(r) <= BUFFER_NUM_FRAMES
    <2>1. BlocksUsed(r) <= BlocksUsed(s)
        BY <1>2, <1>3, BlocksFollow
    <2>2. BlocksUsed(s) <= BUFFER_NUM_FRAMES
        BY Zenon DEF SlotIsSound
    <2> QED
        BY <1>3, <2>1, <2>2, StreamFields DEF BUFFER_NUM_FRAMES
<1>5. SlotIsSound(r)
    BY <1>2, <1>4 DEF SlotIsSound, IsPlaying
<1>6. ASSUME NEW d, NEW pending, SlotInOrder(s, d, pending)
      PROVE  SlotInOrder(r, d, pending)
    BY <1>2, <1>6, Zenon DEF SlotInOrder, IsPlaying, After
<1> QED
    BY <1>2, <1>3, <1>5, <1>6

LEMMA FrameGiven ==
    ASSUME NEW s \in Stream, SlotIsSound(s), s.state = "playing", s.fifo # <<>>,
           NEW r, r = [FreeActive(s) EXCEPT !.active = TRUE, !.fifo = Tail(@)]
    PROVE  /\ r \in Stream /\ SlotIsSound(r) /\ r.state = "playing" /\ Head(s.fifo) \in Nat
           /\ \A d, pending : SlotInOrder(s, d, pending) =>
                /\ SlotInOrder(r, Head(s.fifo), TRUE) /\ Head(s.fifo) = After(s, d)
<1>1. r = [s EXCEPT !.active = TRUE, !.fifo = Tail(@)]
    BY DEF FreeActive, Stream
<1>2. s.fifo \in Seq(Nat)
    BY StreamFields
<1>3. Head(s.fifo) \in Nat /\ Tail(s.fifo) \in Seq(Nat) /\ Len(Tail(s.fifo)) = Len(s.fifo) - 1
      /\ Len(s.fifo) \in Nat /\ Len(s.fifo) > 0
    BY <1>2, HeadTailProperties, EmptySeq
<1>4. /\ r.state = s.state /\ r.fifo = Tail(s.fifo) /\ r.active = TRUE /\ r.file = s.file
      /\ (r.ready = s.ready) /\ (r.loop = s.loop) /\ r.pos = s.pos
    BY <1>1 DEF Stream
<1>5. r \in Stream
    BY <1>1, <1>3 DEF Stream
<1>6. BlocksUsed(r) <= BUFFER_NUM_FRAMES
    <2>1. BlocksUsed(r) = Len(r.fifo) + 1
        BY <1>4, <1>5, BlocksFollow
    <2>2. BlocksUsed(s) <= BUFFER_NUM_FRAMES
        BY Zenon DEF SlotIsSound
    <2>3. Len(r.fifo) = Len(s.fifo) - 1
        BY <1>3, <1>4
    <2>4. Len(s.fifo) <= BlocksUsed(s) /\ BlocksUsed(s) \in Nat
        BY StreamFields
    <2> QED
        BY <1>3, <2>1, <2>2, <2>3, <2>4 DEF BUFFER_NUM_FRAMES
<1>7. SlotIsSound(r)
    BY <1>4, <1>6 DEF SlotIsSound, IsPlaying
<1>8. ASSUME NEW d, NEW pending, SlotInOrder(s, d, pending)
      PROVE  SlotInOrder(r, Head(s.fifo), TRUE) /\ Head(s.fifo) = After(s, d)
    <2>1. IsPlaying(s)
        BY DEF IsPlaying
    <2>2. FramesOf[s.file] > 0 /\ s.fifo = <<s.pos>> /\ s.pos = After(s, d)
        BY <1>8, <2>1, Zenon DEF SlotInOrder
    <2>3. Head(s.fifo) = s.pos /\ r.fifo = <<>>
        BY <1>4, <2>2
    <2> QED
        BY <1>4, <2>2, <2>3 DEF SlotInOrder, IsPlaying
<1> QED
    BY <1>3, <1>4, <1>5, <1>7, <1>8

LEMMA NextFrameGetInv ==
    ASSUME Lc3Inv, NEW i \in StreamSlots, NextFrameGet(i)
    PROVE  Lc3Inv' /\ StepInOrder
<1> DEFINE s == lc3_streams[i]
           d == delivered[i]
<1>1. s \in Stream /\ SlotIsSound(s) /\ d \in Nat
      /\ (i \notin upset => SlotInOrder(s, d, i \in load_work))
    BY SlotFacts
<1>2. UNCHANGED <<lost_files, upset>>
    BY DEF NextFrameGet
<1>3. /\ delivered \in [StreamSlots -> Nat] /\ lost_files' \in Nat /\ upset' \subseteq StreamSlots
      /\ load_work \subseteq StreamSlots /\ lc3_streams \in [StreamSlots -> Stream]
    BY <1>2 DEF Lc3Inv, Lc3Types
<1>4. CASE /\ s.state = "last_frame" /\ lc3_streams' = [lc3_streams EXCEPT ![i] =
                                                          [FreeActive(s) EXCEPT !.state = "ended"]]
           /\ UNCHANGED <<load_work, delivered>>
    <2>1. PICK r : r = [FreeActive(s) EXCEPT !.state = "ended"]
        OBVIOUS
    <2> HIDE DEF s, d
    <2>2. r \in Stream /\ SlotIsSound(r) /\ r.state = "ended"
        BY <1>1, <1>4, <2>1, NoMoreFrames
    <2>3. i \notin upset' => SlotInOrder(r, delivered'[i], i \in load_work')
        <3>1. i \notin upset => i \notin load_work
            BY <1>1, <1>4 DEF SlotInOrder
        <3> QED
            BY <1>2, <1>4, <2>2, <3>1 DEF SlotInOrder, IsPlaying
    <2>4. Lc3Inv'
        BY <1>2, <1>3, <1>4, <2>1, <2>2, <2>3, OneSlot
    <2>5. StepInOrder
        <3> SUFFICES ASSUME NEW j \in StreamSlots \ upset', IsPlaying(lc3_streams[j]),
                            lc3_streams'[j].state = "ended"
                     PROVE  ~lc3_streams[j].loop /\ delivered[j] = FramesOf[lc3_streams[j].file]
            BY <1>4 DEF StepInOrder, NextInOrder
        <3>1. j = i
            BY <1>3, <1>4 DEF IsPlaying
        <3>2. SlotInOrder(s, d, i \in load_work)
            BY <1>1, <1>2, <3>1, Zenon
        <3>3. ~s.loop /\ s.fifo = <<>> /\ s.pos = FramesOf[s.file]
            BY <1>4, <3>2, Zenon DEF SlotInOrder
        <3>4. s.pos = d
            <4>1. IsPlaying(s)
                BY <1>4 DEF IsPlaying
            <4>2. s.pos = d \/ s.fifo = <<s.pos>>
                BY <3>2, <4>1, Zenon DEF SlotInOrder
            <4> QED
                BY <3>3, <4>2
        <3> QED
            BY <3>1, <3>3, <3>4, Zenon DEF s, d
    <2> QED
        BY <2>4, <2>5
<1>5. CASE /\ s.state = "playing" /\ s.fifo = <<>>
           /\ lc3_streams' = [lc3_streams EXCEPT ![i] = FreeActive(s)]
           /\ UNCHANGED <<load_work, delivered>>
    <2>1. PICK r : r = FreeActive(s)
        OBVIOUS
    <2> HIDE DEF s, d
    <2>2. /\ r \in Stream /\ SlotIsSound(r) /\ r.state = "playing"
          /\ SlotInOrder(s, d, i \in load_work) => SlotInOrder(r, d, i \in load_work)
        BY <1>1, <1>5, <2>1, NoFrameYet, Zenon
    <2>3. i \notin upset' => SlotInOrder(r, delivered'[i], i \in load_work')
        BY <1>1, <1>2, <1>5, <2>2, Zenon DEF d
    <2>4. Lc3Inv'
        BY <1>2, <1>3, <1>5, <2>1, <2>2, <2>3, OneSlot
    <2>5. ASSUME NEW j \in StreamSlots, IsPlaying(lc3_streams[j])
          PROVE  lc3_streams'[j].state # "ended" /\ delivered'[j] = delivered[j]
        <3>1. j = i => lc3_streams'[j] = r
            BY <1>3, <1>5, <2>1
        <3>2. j # i => lc3_streams'[j] = lc3_streams[j]
            BY <1>3, <1>5
        <3> QED
            BY <1>5, <2>2, <2>5, <3>1, <3>2 DEF IsPlaying
    <2> QED
        BY <2>4, <2>5, ClosedInOrder
<1>6. CASE /\ s.state = "playing" /\ s.fifo # <<>>
           /\ lc3_streams' = [lc3_streams EXCEPT ![i] =
                                [FreeActive(s) EXCEPT !.active = TRUE, !.fifo = Tail(@)]]
           /\ delivered' = [delivered EXCEPT ![i] = Head(s.fifo)]
           /\ load_work' = load_work \cup {i}
    <2>1. PICK r : r = [FreeActive(s) EXCEPT !.active = TRUE, !.fifo = Tail(@)]
        OBVIOUS
    <2> HIDE DEF s, d
    <2>2. /\ r \in Stream /\ SlotIsSound(r) /\ r.state = "playing" /\ Head(s.fifo) \in Nat
          /\ SlotInOrder(s, d, i \in load_work) =>
                SlotInOrder(r, Head(s.fifo), TRUE) /\ Head(s.fifo) = After(s, d)
        BY <1>1, <1>6, <2>1, FrameGiven, Zenon
    <2>3. /\ delivered' \in [StreamSlots -> Nat] /\ delivered'[i] = Head(s.fifo) /\ i \in load_work'
          /\ \A j \in StreamSlots \ {i} : delivered'[j] = delivered[j]
          /\ lc3_streams' = [lc3_streams EXCEPT ![i] = r]
        BY <1>3, <1>6, <2>1, <2>2
    <2>4. i \notin upset' => SlotInOrder(r, delivered'[i], i \in load_work')
        BY <1>1, <1>2, <2>2, <2>3, Zenon DEF SlotInOrder
    <2>5. load_work' \subseteq StreamSlots
          /\ \A j \in StreamSlots \ {i} : j \in load_work' <=> j \in load_work
        BY <1>3, <1>6
    <2>6. Lc3Inv'
        BY <1>2, <1>3, <2>2, <2>3, <2>4, <2>5, OneSlot
    <2>7. StepInOrder
        <3> SUFFICES ASSUME NEW j \in StreamSlots \ upset', IsPlaying(lc3_streams[j])
                     PROVE  /\ lc3_streams'[j].state # "ended"
                            /\ delivered'[j] \in {delivered[j], After(lc3_streams[j], delivered[j])}
            BY DEF StepInOrder, NextInOrder, After
        <3>1. CASE j = i
            <4>1. lc3_streams'[j].state # "ended"
                BY <1>3, <2>2, <2>3, <3>1
            <4>2. SlotInOrder(s, d, i \in load_work)
                BY <1>1, <1>2, <3>1, Zenon
            <4> QED
                BY <2>2, <2>3, <3>1, <4>1, <4>2 DEF s, d
        <3>2. CASE j # i
            BY <1>3, <2>3, <3>2 DEF IsPlaying
        <3> QED
            BY <3>1, <3>2
    <2> QED
        BY <2>6, <2>7
<1> QED
    BY <1>4, <1>5, <1>6 DEF NextFrameGet

LEMMA CompatibleCheckInv ==
    ASSUME Lc3Inv, NEW f \in Files, NEW header \in BOOLEAN, CompatibleCheck(f, header)
    PROVE  Lc3Inv' /\ StepInOrder
<1>1. UNCHANGED <<lc3_streams, load_work, delivered, upset>>
      /\ lost_files' = lost_files + (IF Refused(f, header) THEN 1 ELSE 0)
    BY DEF CompatibleCheck
<1>2. lost_files' \in Nat
    BY <1>1 DEF Lc3Inv, Lc3Types
<1>3. Lc3Types'
    BY <1>1, <1>2 DEF Lc3Inv, Lc3Types
<1>4. Sound' /\ StreamsInOrder'
    BY <1>1, Zenon DEF Lc3Inv, Sound, StreamsInOrder
<1>5. StepInOrder
    BY <1>1, ClosedInOrder DEF IsPlaying
<1> QED
    BY <1>3, <1>4, <1>5 DEF Lc3Inv

\* A slot that was closed.
LEMMA CloseFacts ==
    ASSUME NEW s \in Stream, NEW r, r = StreamClose(s)
    PROVE  /\ r \in Stream /\ SlotIsSound(r) /\ r.state = "idle" /\ r.pos = 0 /\ r.fifo = <<>>
           /\ r.active = FALSE /\ (r.loop = s.loop)
           /\ \A d : SlotInOrder(r, d, FALSE)
<1>1. <<>> \in Seq(Nat) /\ Len(<<>>) = 0 /\ s.loop \in BOOLEAN
    BY StreamFields
<1>2. r = [state |-> "idle", loop |-> s.loop, active |-> FALSE, file |-> NoFile, name |-> NoFile,
           pos |-> 0, fifo |-> <<>>, ready |-> FALSE]
    BY DEF StreamClose, Closed
<1>3. r \in Stream
    BY <1>1, <1>2 DEF Stream
<1>4. /\ r.state = "idle" /\ r.file = NoFile /\ r.pos = 0 /\ r.fifo = <<>> /\ r.active = FALSE
      /\ (r.loop = s.loop)
    BY <1>2
<1>5. BlocksUsed(r) = 0
    BY <1>1, <1>4 DEF BlocksUsed
<1>6. SlotIsSound(r)
    BY <1>4, <1>5 DEF SlotIsSound, IsPlaying, BUFFER_NUM_FRAMES
<1>7. ASSUME NEW d PROVE SlotInOrder(r, d, FALSE)
    BY <1>4 DEF SlotInOrder, IsPlaying
<1> QED
    BY <1>3, <1>4, <1>6, <1>7

LEMMA CloseStreamInv ==
    ASSUME Lc3Inv, NEW i \in StreamSlots, CloseStream(i)
    PROVE  Lc3Inv' /\ StepInOrder
<1>1. /\ lc3_streams' = [lc3_streams EXCEPT ![i] = StreamClose(lc3_streams[i])]
      /\ delivered' = [delivered EXCEPT ![i] = 0]
      /\ upset' = IF i \in load_work THEN upset \cup {i} ELSE upset
      /\ UNCHANGED <<load_work, lost_files>>
    BY DEF CloseStream
<1>2. PICK r : r = StreamClose(lc3_streams[i])
    OBVIOUS
<1>3. /\ r \in Stream /\ SlotIsSound(r) /\ r.state = "idle" /\ \A d : SlotInOrder(r, d, FALSE)
    BY <1>2, SlotFacts, CloseFacts
<1>4. /\ lc3_streams \in [StreamSlots -> Stream] /\ delivered \in [StreamSlots -> Nat]
      /\ lost_files' \in Nat /\ load_work' \subseteq StreamSlots /\ upset' \subseteq StreamSlots
    BY <1>1 DEF Lc3Inv, Lc3Types
<1>5. /\ delivered' \in [StreamSlots -> Nat]
      /\ \A j \in StreamSlots \ {i} : delivered'[j] = delivered[j]
    BY <1>1, <1>4
<1>6. i \notin upset' => SlotInOrder(r, delivered'[i], i \in load_work')
    <2>1. i \notin upset' => i \notin load_work'
        BY <1>1
    <2> QED
        BY <1>3, <2>1, Zenon DEF SlotInOrder
<1>7. \A j \in StreamSlots \ {i} : /\ j \in load_work' <=> j \in load_work
                                   /\ j \notin upset' => j \notin upset
    BY <1>1
<1>8. Lc3Inv'
    <2>1. lc3_streams' = [lc3_streams EXCEPT ![i] = r]
        BY <1>1, <1>2
    <2> QED
        BY <1>3, <1>4, <1>5, <1>6, <1>7, <2>1, OneSlot
<1>9. ASSUME NEW j \in StreamSlots, IsPlaying(lc3_streams[j])
      PROVE  lc3_streams'[j].state # "ended" /\ delivered'[j] \in {delivered[j], 0}
    <2>1. CASE j = i
        BY <1>1, <1>2, <1>3, <1>4, <2>1
    <2>2. CASE j # i
        BY <1>1, <1>4, <1>9, <2>2 DEF IsPlaying
    <2> QED
        BY <2>1, <2>2
<1> QED
    BY <1>8, <1>9, ClosedInOrder

LEMMA CloseAllStreamsInv ==
    ASSUME Lc3Inv, CloseAllStreams
    PROVE  Lc3Inv' /\ StepInOrder
<1>1. /\ load_work = {} /\ lc3_streams' = [i \in StreamSlots |-> StreamClose(lc3_streams[i])]
      /\ delivered' = [i \in StreamSlots |-> 0] /\ upset' = {}
      /\ UNCHANGED <<load_work, lost_files>>
    BY DEF CloseAllStreams
<1>2. ASSUME NEW i \in StreamSlots
      PROVE  /\ lc3_streams'[i] \in Stream /\ SlotIsSound(lc3_streams'[i]) /\ lc3_streams'[i].state = "idle"
             /\ SlotInOrder(lc3_streams'[i], delivered'[i], FALSE)
    <2>1. lc3_streams'[i] = StreamClose(lc3_streams[i])
        BY <1>1
    <2> QED
        BY <2>1, SlotFacts, CloseFacts
<1>3. Lc3Types'
    <2>1. lc3_streams' \in [StreamSlots -> Stream]
        BY <1>1, <1>2
    <2> QED
        BY <1>1, <2>1 DEF Lc3Inv, Lc3Types
<1>4. Sound'
    BY <1>2, Zenon DEF Sound
<1>5. StreamsInOrder'
    <2> SUFFICES ASSUME NEW i \in StreamSlots
                 PROVE  SlotInOrder(lc3_streams'[i], delivered'[i], i \in load_work')
        BY Zenon DEF StreamsInOrder
    <2>1. i \notin load_work'
        BY <1>1
    <2> QED
        BY <1>2, <2>1, Zenon DEF SlotInOrder
<1>6. \A i \in StreamSlots : lc3_streams'[i].state # "ended" /\ delivered'[i] \in {delivered[i], 0}
    BY <1>1, <1>2
<1> QED
    BY <1>3, <1>4, <1>5, <1>6, ClosedInOrder DEF Lc3Inv

\* A set of slots that is not empty has a first one.
LEMMA FirstSlot ==
    ASSUME NEW S \in SUBSET Nat, S # {}
    PROVE  \E i \in S : \A j \in S : i <= j
<1>1. PICK i \in S : \A j \in S : ~(<<j, i>> \in OpToRel(<, Nat))
    BY WFMin, NatLessThanWellFounded, Zenon
<1>2. \A j \in S : ~(j < i)
    BY <1>1 DEF OpToRel
<1> QED
    BY <1>2

LEMMA OneFifo == /\ Len(<<>>) = 0 /\ 0 + 1 = 1 /\ Append(<<>>, 1) = <<1>>
                 /\ <<1>> \in Seq(Nat) /\ Len(<<1>>) = 1
OBVIOUS

\* The stream of a file that was just opened, and what a registration makes of it: a stream
\* that holds the first frame, or one that has ended.
Opened(s, f) == [StreamClose(s) EXCEPT !.file = f, !.name = f, !.ready = TRUE]

IsFresh(o, f) == /\ o \in Stream /\ BlocksUsed(o) = 0 /\ o.state = "idle" /\ o.file = f /\ o.ready
                 /\ o.pos = 0 /\ o.fifo = <<>> /\ o.active = FALSE

LEMMA OpenedFacts ==
    ASSUME NEW s \in Stream, NEW f \in Files, NEW o, o = Opened(s, f)
    PROVE  IsFresh(o, f)
<1>1. PICK c : c = StreamClose(s)
    OBVIOUS
<1>2. c \in Stream /\ c.state = "idle" /\ c.pos = 0 /\ c.fifo = <<>> /\ c.active = FALSE
    BY <1>1, CloseFacts
<1>3. o = [c EXCEPT !.file = f, !.name = f, !.ready = TRUE]
    BY <1>1 DEF Opened
<1>4. /\ o.state = c.state /\ o.file = f /\ o.ready = TRUE /\ o.pos = c.pos /\ o.fifo = c.fifo
      /\ (o.active = c.active)
    BY <1>2, <1>3 DEF Stream
<1>5. o \in Stream
    BY <1>2, <1>3 DEF Stream
<1>6. o.state = "idle" /\ o.file = f /\ o.ready /\ o.pos = 0 /\ o.fifo = <<>> /\ o.active = FALSE
    BY <1>2, <1>4, Zenon
<1>7. BlocksUsed(o) = 0
    <2>1. BlocksUsed(o) = Len(o.fifo)
        BY <1>5, <1>6, BlocksFollow, Zenon
    <2> QED
        BY <1>6, <2>1, OneFifo, Zenon
<1> QED
    BY <1>5, <1>6, <1>7, Zenon DEF IsFresh

RegisteredAs(o, loop, ok) == IF PutResult(o, ok) = "ok"
                             THEN [FirstFrame(o, ok) EXCEPT !.state = "playing", !.loop = loop]
                             ELSE [o EXCEPT !.state = "ended"]

LEMMA RegisteredFacts ==
    ASSUME NEW o \in Stream, NEW f \in Files, NEW loop \in BOOLEAN, NEW ok \in BOOLEAN,
           BlocksUsed(o) = 0, o.state = "idle", o.file = f, o.ready, o.pos = 0, o.fifo = <<>>,
           o.active = FALSE, NEW r, r = RegisteredAs(o, loop, ok)
    PROVE  r \in Stream /\ SlotIsSound(r) /\ SlotInOrder(r, 0, FALSE)
<1>1. CASE PutResult(o, ok) # "ok"
    <2>1. r = [o EXCEPT !.state = "ended"]
        BY <1>1, Zenon DEF RegisteredAs
    <2>2. r \in Stream
        BY <2>1 DEF Stream
    <2>3. r.state = "ended" /\ r.fifo = o.fifo /\ (r.active = o.active)
        BY <2>1 DEF Stream
    <2>4. r.state = "ended" /\ r.fifo = <<>> /\ r.active = FALSE
        BY <2>3, Zenon
    <2>5. BlocksUsed(r) = 0
        BY <2>4 DEF BlocksUsed
    <2> QED
        BY <2>2, <2>4, <2>5 DEF SlotIsSound, SlotInOrder, IsPlaying, BUFFER_NUM_FRAMES
<1>2. CASE PutResult(o, ok) = "ok"
    <2>1. PICK t : t = PutNextFrame(o, ok)
        OBVIOUS
    <2>2. t = [o EXCEPT !.pos = @ + 1, !.fifo = Append(@, o.pos + 1)]
        BY <1>2, <2>1, Zenon DEF PutNextFrame
    <2>3. o.pos + 1 = 1 /\ Append(o.fifo, o.pos + 1) = <<1>> /\ <<1>> \in Seq(Nat) /\ Len(<<1>>) = 1
        <3>1. o.pos + 1 = 1
            BY OneFifo, Zenon
        <3>2. Append(o.fifo, o.pos + 1) = Append(<<>>, 1)
            BY <3>1, Zenon
        <3> QED
            BY OneFifo, <3>1, <3>2, Zenon
    <2>4. t \in Stream
        <3>1. Append(o.fifo, o.pos + 1) \in Seq(Nat) /\ o.pos + 1 \in Nat
            BY StreamFields, AppendProperties
        <3> QED
            BY <2>2, <3>1 DEF Stream
    <2>5. /\ t.pos = o.pos + 1 /\ t.fifo = Append(o.fifo, o.pos + 1) /\ t.file = o.file
          /\ (t.ready = o.ready) /\ (t.active = o.active)
        BY <2>2 DEF Stream
    <2>6. t.pos = 1 /\ t.fifo = <<1>> /\ t.file = f /\ t.ready /\ t.active = FALSE
        BY <2>3, <2>5, Zenon
    <2>7. r = [t EXCEPT !.state = "playing", !.loop = loop]
        BY <1>2, <2>1, Zenon DEF RegisteredAs, FirstFrame
    <2>8. r \in Stream
        BY <2>4, <2>7 DEF Stream
    <2>9. /\ r.state = "playing" /\ r.pos = t.pos /\ r.fifo = t.fifo /\ r.file = t.file
          /\ (r.ready = t.ready) /\ (r.active = t.active)
        BY <2>4, <2>7 DEF Stream
    <2>10. /\ r.state = "playing" /\ r.pos = 1 /\ r.fifo = <<1>> /\ r.file = f
           /\ r.ready /\ r.active = FALSE
        BY <2>6, <2>9, Zenon
    <2>11. FramesOf[f] # 0
        <3>1. o.pos # FramesOf[o.file]
            BY <1>2 DEF PutResult
        <3> QED
            BY <3>1
    <2>12. BlocksUsed(r) = 1
        BY <2>3, <2>10 DEF BlocksUsed
    <2>13. SlotIsSound(r)
        BY <2>10, <2>12 DEF SlotIsSound, IsPlaying, BUFFER_NUM_FRAMES
    <2>14. FramesOf[f] > 0
        BY <2>11, Lc3Assumption
    <2>15. After(r, 0) = 1
        BY <2>10, <2>11 DEF After
    <2>16. SlotInOrder(r, 0, FALSE)
        BY <2>10, <2>14, <2>15 DEF SlotInOrder, IsPlaying
    <2> QED
        BY <2>8, <2>13, <2>16
<1> QED
    BY <1>1, <1>2

LEMMA RegisterInv ==
    ASSUME Lc3Inv, NEW f \in Files, NEW loop \in BOOLEAN, NEW header \in BOOLEAN,
           NEW ok \in BOOLEAN, Register(f, loop, header, ok)
    PROVE  Lc3Inv' /\ StepInOrder
<1> DEFINE idle == {j \in StreamSlots : lc3_streams[j].state = "idle"}
           i == CHOOSE j \in idle : \A k \in idle : j <= k
           o == Opened(lc3_streams[i], f)
<1>1. /\ idle # {}
      /\ \/ Refused(f, header) /\ ok /\ lost_files' = lost_files + 1 /\ UNCHANGED lc3_streams
         \/ /\ lc3_streams' = [lc3_streams EXCEPT ![i] = RegisteredAs(o, loop, ok)]
            /\ UNCHANGED lost_files
      /\ delivered' = [delivered EXCEPT ![i] = 0]
      /\ upset' = IF i \in load_work \/ ~header \/ ~ok THEN upset \cup {i} ELSE upset \ {i}
      /\ UNCHANGED load_work
    BY Zenon DEF Register, RegisteredAs, Opened
<1>2. i \in StreamSlots /\ lc3_streams[i].state = "idle"
    <2>1. idle \in SUBSET Nat
        BY Lc3Assumption
    <2>2. \E j \in idle : \A k \in idle : j <= k
        BY <1>1, <2>1, FirstSlot
    <2>3. i \in idle
        BY <2>2, Zenon
    <2> QED
        BY <2>3
<1> HIDE DEF i
<1>3. /\ lc3_streams \in [StreamSlots -> Stream] /\ delivered \in [StreamSlots -> Nat]
      /\ lost_files \in Nat /\ load_work \subseteq StreamSlots /\ upset \subseteq StreamSlots
    BY DEF Lc3Inv, Lc3Types
<1>4. lc3_streams[i] \in Stream /\ SlotIsSound(lc3_streams[i])
    BY <1>2, SlotFacts
<1>5. /\ delivered' \in [StreamSlots -> Nat] /\ delivered'[i] = 0
      /\ \A j \in StreamSlots \ {i} : delivered'[j] = delivered[j]
    BY <1>1, <1>2, <1>3
<1>6. /\ upset' \subseteq StreamSlots /\ load_work' \subseteq StreamSlots
      /\ i \notin upset' => i \notin load_work'
      /\ \A j \in StreamSlots \ {i} : /\ j \in load_work' <=> j \in load_work
                                      /\ j \notin upset' => j \notin upset
    <2>1. UNCHANGED load_work /\ upset' \in {upset \cup {i}, upset \ {i}}
          /\ (i \notin upset' => i \notin load_work)
        BY <1>1
    <2> QED
        BY <1>2, <1>3, <2>1
<1>7. CASE UNCHANGED lc3_streams /\ lost_files' = lost_files + 1
    <2>1. lc3_streams' = [lc3_streams EXCEPT ![i] = lc3_streams[i]]
        BY <1>2, <1>3, <1>7
    <2>2. i \notin upset' => SlotInOrder(lc3_streams[i], delivered'[i], i \in load_work')
        BY <1>2, <1>6 DEF SlotInOrder, IsPlaying
    <2>3. lost_files' \in Nat
        BY <1>3, <1>7
    <2>4. Lc3Inv'
        BY <1>2, <1>4, <1>5, <1>6, <2>1, <2>2, <2>3, OneSlot
    <2>5. ASSUME NEW j \in StreamSlots, IsPlaying(lc3_streams[j])
          PROVE  lc3_streams'[j].state # "ended" /\ delivered'[j] \in {delivered[j], 0}
        <3>1. delivered'[j] \in {delivered[j], 0}
            BY <1>5
        <3>2. lc3_streams'[j] = lc3_streams[j]
            BY ONLY <1>7
        <3>3. lc3_streams[j].state # "ended"
            BY <2>5, Zenon DEF IsPlaying
        <3> QED
            BY <3>1, <3>2, <3>3, Zenon
    <2>6. \A j \in StreamSlots \ upset' : IsPlaying(lc3_streams[j]) =>
            lc3_streams'[j].state # "ended" /\ delivered'[j] \in {delivered[j], 0}
        BY <2>5, Zenon
    <2> QED
        BY <2>4, <2>6, ClosedInOrder, Zenon
<1>8. CASE /\ lc3_streams' = [lc3_streams EXCEPT ![i] = RegisteredAs(o, loop, ok)]
           /\ UNCHANGED lost_files
    <2>0. o = Opened(lc3_streams[i], f)
        OBVIOUS
    <2> HIDE DEF o
    <2>1. /\ o \in Stream /\ BlocksUsed(o) = 0 /\ o.state = "idle" /\ o.file = f /\ o.ready
          /\ o.pos = 0 /\ o.fifo = <<>> /\ o.active = FALSE
        <3>1. lc3_streams[i] \in Stream
            BY <1>4
        <3>2. IsFresh(o, f)
            BY ONLY <2>0, <3>1, f \in Files, OpenedFacts, Zenon
        <3> QED
            BY ONLY <3>2 DEF IsFresh
    <2>2. PICK r : r = RegisteredAs(o, loop, ok)
        OBVIOUS
    <2>3. r \in Stream /\ SlotIsSound(r) /\ SlotInOrder(r, 0, FALSE)
        BY <2>1, <2>2, RegisteredFacts
    <2>4. i \notin upset' => SlotInOrder(r, delivered'[i], i \in load_work')
        BY <1>5, <1>6, <2>3, Zenon DEF SlotInOrder
    <2>5. Lc3Inv'
        <3>1. lc3_streams' = [lc3_streams EXCEPT ![i] = r] /\ lost_files' \in Nat
            BY <1>3, <1>8, <2>2
        <3> QED
            BY <1>2, <1>5, <1>6, <2>3, <2>4, <3>1, OneSlot
    <2>6. ASSUME NEW j \in StreamSlots, IsPlaying(lc3_streams[j])
          PROVE  lc3_streams'[j].state # "ended" /\ delivered'[j] \in {delivered[j], 0}
        <3>1. j # i
            BY <1>2, <2>6 DEF IsPlaying
        <3>2. lc3_streams'[j] = lc3_streams[j] /\ delivered'[j] = delivered[j]
            BY <1>3, <1>5, <1>8, <3>1
        <3> QED
            BY <2>6, <3>2 DEF IsPlaying
    <2> QED
        BY <2>5, <2>6, ClosedInOrder
<1> QED
    BY <1>1, <1>7, <1>8, Zenon

LEMMA Lc3InitInv == Lc3Init => Lc3Inv
<1> SUFFICES ASSUME Lc3Init PROVE Lc3Inv
    OBVIOUS
<1>1. /\ lc3_streams = [i \in StreamSlots |-> Closed] /\ load_work = {} /\ lost_files = 0
      /\ delivered = [i \in StreamSlots |-> 0] /\ upset = {}
    BY DEF Lc3Init
<1>2. <<>> \in Seq(Nat) /\ Len(<<>>) = 0
    OBVIOUS
<1>3. Closed \in Stream
    BY <1>2 DEF Closed, Stream
<1>4. Closed.state = "idle" /\ Closed.file = NoFile /\ BlocksUsed(Closed) = 0
    BY <1>2 DEF Closed, BlocksUsed
<1>5. SlotIsSound(Closed) /\ SlotInOrder(Closed, 0, FALSE)
    BY <1>4 DEF SlotIsSound, SlotInOrder, IsPlaying, BUFFER_NUM_FRAMES
<1>6. Lc3Types
    BY <1>1, <1>3 DEF Lc3Types
<1>7. Sound
    BY <1>1, <1>5 DEF Sound
<1>8. StreamsInOrder
    <2> SUFFICES ASSUME NEW i \in StreamSlots
                 PROVE  SlotInOrder(lc3_streams[i], delivered[i], i \in load_work)
        BY Zenon DEF StreamsInOrder
    <2>1. lc3_streams[i] = Closed /\ delivered[i] = 0 /\ i \notin load_work
        BY <1>1
    <2> QED
        BY <1>5, <2>1, Zenon DEF SlotInOrder
<1> QED
    BY <1>6, <1>7, <1>8 DEF Lc3Inv

LEMMA Lc3Unchanged == Lc3Inv /\ UNCHANGED lc3Vars => Lc3Inv'
BY Zenon DEF lc3Vars, Lc3Inv, Lc3Types, Sound, StreamsInOrder

LEMMA Lc3Step == Lc3Inv /\ Lc3Next => Lc3Inv' /\ StepInOrder
<1> SUFFICES ASSUME Lc3Inv, Lc3Next PROVE Lc3Inv' /\ StepInOrder
    OBVIOUS
<1>1. ASSUME NEW i \in StreamSlots, NextFrameGet(i) PROVE Lc3Inv' /\ StepInOrder
    BY <1>1, NextFrameGetInv
<1>2. ASSUME NEW i \in StreamSlots, CloseStream(i) PROVE Lc3Inv' /\ StepInOrder
    BY <1>2, CloseStreamInv
<1>3. ASSUME NEW i \in StreamSlots, NEW ok \in BOOLEAN, NEW again \in Rereads,
             NextFrameLoad(i, ok, again)
      PROVE  Lc3Inv' /\ StepInOrder
    BY <1>3, NextFrameLoadInv
<1>4. ASSUME NEW f \in Files, NEW header \in BOOLEAN, CompatibleCheck(f, header)
      PROVE  Lc3Inv' /\ StepInOrder
    BY <1>4, CompatibleCheckInv
<1>5. ASSUME NEW f \in Files, NEW loop \in BOOLEAN, NEW header \in BOOLEAN, NEW ok \in BOOLEAN,
             Register(f, loop, header, ok)
      PROVE  Lc3Inv' /\ StepInOrder
    BY <1>5, RegisterInv
<1>6. CloseAllStreams => Lc3Inv' /\ StepInOrder
    BY CloseAllStreamsInv
<1> QED
    BY <1>1, <1>2, <1>3, <1>4, <1>5, <1>6, Zenon DEF Lc3Next

LEMMA Lc3Follows == Lc3Inv => Lc3TypeOK /\ IdleOwnsNothing /\ ReadHasRoom
<1> SUFFICES ASSUME Lc3Inv PROVE Lc3TypeOK /\ IdleOwnsNothing /\ ReadHasRoom
    OBVIOUS
<1>1. \A i \in StreamSlots : BlocksUsed(lc3_streams[i]) <= BUFFER_NUM_FRAMES
    BY Zenon DEF Lc3Inv, Sound, SlotIsSound
<1>2. Lc3TypeOK
    BY <1>1, Zenon DEF Lc3Inv, Lc3Types, Lc3TypeOK, Stream
<1>3. IdleOwnsNothing
    BY Zenon DEF Lc3Inv, Sound, SlotIsSound, IdleOwnsNothing
<1>4. ReadHasRoom
    <2> SUFFICES ASSUME NEW i \in StreamSlots \ upset, IsPlaying(lc3_streams[i])
                 PROVE  BlocksUsed(lc3_streams[i]) + (IF i \in load_work THEN 1 ELSE 0) <= BUFFER_NUM_FRAMES
        BY Zenon DEF ReadHasRoom
    <2>1. lc3_streams[i] \in Stream /\ SlotInOrder(lc3_streams[i], delivered[i], i \in load_work)
        BY SlotFacts
    <2>2. BlocksUsed(lc3_streams[i]) \in Nat /\ BlocksUsed(lc3_streams[i]) <= BUFFER_NUM_FRAMES
        BY <1>1, <2>1, StreamFields
    <2>3. CASE i \in load_work
        <3>1. lc3_streams[i].fifo = <<>>
            BY <2>1, <2>3, Zenon DEF SlotInOrder
        <3>2. Len(lc3_streams[i].fifo) = 0
            BY <3>1
        <3>3. BlocksUsed(lc3_streams[i]) <= 1
            BY <3>2 DEF BlocksUsed
        <3> QED
            BY <2>2, <2>3, <3>3 DEF BUFFER_NUM_FRAMES
    <2>4. CASE i \notin load_work
        BY <2>2, <2>4 DEF BUFFER_NUM_FRAMES
    <2> QED
        BY <2>3, <2>4
<1> QED
    BY <1>2, <1>3, <1>4

\* Closing a stream gives its file and its blocks back, a frame that is read always finds a
\* block, the frames of a file come in its order, and a stream ends after its last frame only:
\* for any number of streams and files, as long as the card did not fail and no work of a
\* stream that was closed runs in the slot (lc3_streamer_next_frame_get(), next_frame_load()).
THEOREM FilesStreamedInOrder ==
    Lc3Spec => /\ [](Lc3TypeOK /\ IdleOwnsNothing /\ ReadHasRoom)
               /\ [][\A i \in StreamSlots \ upset' : NextInOrder(i)]_lc3Vars
<1>1. Lc3Inv /\ [Lc3Next]_lc3Vars => Lc3Inv'
    BY Lc3Step, Lc3Unchanged
<1>2. Lc3Inv /\ [Lc3Next]_lc3Vars => [\A i \in StreamSlots \ upset' : NextInOrder(i)]_lc3Vars
    BY Lc3Step DEF StepInOrder
<1> QED
    BY <1>1, <1>2, Lc3InitInv, Lc3Follows, PTL DEF Lc3Spec
-----------------------------------------------------------------------------
(* SdListing: the search of the card.                                             *)

\* m is d or lies below it.
Under(d, m) == Len(d) <= Len(m) /\ \A j \in 1 .. Len(d) : m[j] = d[j]

LEMMA PathPlaces ==
  ASSUME NEW d \in Paths PROVE Len(d) \in Nat /\ \A j \in 1 .. Len(d) : d[j] \in Nat \ {0}
    BY DEF Paths

LEMMA PathFacts ==
  ASSUME NEW d \in Paths, NEW i \in Nat \ {0}
  PROVE  /\ Append(d, i) \in Paths /\ Len(Append(d, i)) = Len(d) + 1
         /\ Append(d, i)[Len(d) + 1] = i /\ \A j \in 1 .. Len(d) : Append(d, i)[j] = d[j]
    BY DEF Paths

\* What comes before a name of a folder comes before the folder, or is in it at a lower place.
LEMMA PrecedesName ==
  ASSUME NEW m \in Paths, NEW d \in Paths, NEW i \in Nat \ {0}
  PROVE  Precedes(m, Append(d, i))
         <=> Precedes(m, d) \/ (Under(d, m) /\ Len(d) < Len(m) /\ m[Len(d) + 1] < i)
<1> DEFINE n == Append(d, i)
<1>1. /\ Len(d) \in Nat /\ Len(m) \in Nat /\ Len(n) = Len(d) + 1 /\ n[Len(d) + 1] = i
      /\ \A j \in 1 .. Len(d) : n[j] = d[j]
    BY PathFacts, PathPlaces
<1> HIDE DEF n
<1>2. ASSUME Precedes(m, d) PROVE Precedes(m, n)
    BY <1>1, <1>2 DEF Precedes
<1>3. ASSUME Under(d, m), Len(d) < Len(m), m[Len(d) + 1] < i PROVE Precedes(m, n)
    <2>1. Len(d) + 1 \in 1 .. Len(m) /\ Len(d) + 1 <= Len(n) /\ m[Len(d) + 1] < n[Len(d) + 1]
        BY <1>1, <1>3
    <2>2. \A j \in 1 .. (Len(d) + 1) - 1 : m[j] = n[j]
        BY <1>1, <1>3 DEF Under
    <2> QED
        BY <2>1, <2>2 DEF Precedes
<1>4. ASSUME Precedes(m, n)
      PROVE  Precedes(m, d) \/ (Under(d, m) /\ Len(d) < Len(m) /\ m[Len(d) + 1] < i)
    <2>1. PICK k \in 1 .. Len(m) : k <= Len(n) /\ m[k] < n[k] /\ \A j \in 1 .. k - 1 : m[j] = n[j]
        BY <1>4 DEF Precedes
    <2>2. CASE k <= Len(d)
        BY <1>1, <2>1, <2>2 DEF Precedes
    <2>3. CASE k = Len(d) + 1
        BY <1>1, <2>1, <2>3 DEF Under
    <2> QED
        BY <1>1, <2>1, <2>2, <2>3
<1> QED
    BY <1>2, <1>3, <1>4 DEF n

\* What comes before the next name comes before this one, or is this one or below it.
LEMMA PrecedesNext ==
  ASSUME NEW m \in Paths, NEW d \in Paths, NEW i \in Nat \ {0}
  PROVE  Precedes(m, Append(d, i + 1)) <=> Precedes(m, Append(d, i)) \/ Under(Append(d, i), m)
<1>1. Len(d) \in Nat /\ Len(m) \in Nat /\ \A j \in 1 .. Len(m) : m[j] \in Nat
    BY PathPlaces
<1>2. Under(Append(d, i), m) <=> Under(d, m) /\ Len(d) < Len(m) /\ m[Len(d) + 1] = i
    <2> DEFINE n == Append(d, i)
    <2>1. Len(n) = Len(d) + 1 /\ n[Len(d) + 1] = i /\ \A j \in 1 .. Len(d) : n[j] = d[j]
        BY PathFacts
    <2> HIDE DEF n
    <2>2. ASSUME Under(n, m) PROVE Under(d, m) /\ Len(d) < Len(m) /\ m[Len(d) + 1] = i
        BY <1>1, <2>1, <2>2 DEF Under
    <2>3. ASSUME Under(d, m), Len(d) < Len(m), m[Len(d) + 1] = i PROVE Under(n, m)
        <3>1. Len(n) <= Len(m)
            BY <1>1, <2>1, <2>3
        <3>2. ASSUME NEW j \in 1 .. Len(n) PROVE m[j] = n[j]
            <4>1. j = Len(d) + 1 \/ j \in 1 .. Len(d)
                BY <1>1, <2>1
            <4> QED
                BY <2>1, <2>3, <4>1 DEF Under
        <3> QED
            BY <3>1, <3>2 DEF Under
    <2> QED
        BY <2>2, <2>3 DEF n
<1>3. i + 1 \in Nat \ {0}
    OBVIOUS
<1>4. Len(d) < Len(m) => (m[Len(d) + 1] < i + 1 <=> m[Len(d) + 1] < i \/ m[Len(d) + 1] = i)
    BY <1>1
<1> HIDE DEF Under
<1> QED
    BY <1>2, <1>3, <1>4, PrecedesName

LEMMA PrecedesTransitive ==
  ASSUME NEW p \in Paths, NEW q \in Paths, NEW r \in Paths,
         Precedes(p, q), Precedes(q, r) \/ Under(q, r)
  PROVE  Precedes(p, r)
<1>1. /\ Len(p) \in Nat /\ Len(q) \in Nat /\ Len(r) \in Nat
      /\ \A j \in 1 .. Len(p) : p[j] \in Nat
      /\ \A j \in 1 .. Len(q) : q[j] \in Nat
      /\ \A j \in 1 .. Len(r) : r[j] \in Nat
    BY PathPlaces
<1>2. PICK k \in 1 .. Len(p) : k <= Len(q) /\ p[k] < q[k] /\ \A j \in 1 .. k - 1 : p[j] = q[j]
    BY DEF Precedes
<1>3. CASE Under(q, r)
    BY <1>1, <1>2, <1>3 DEF Precedes, Under
<1>4. CASE Precedes(q, r)
    <2>1. PICK l \in 1 .. Len(q) : l <= Len(r) /\ q[l] < r[l] /\ \A j \in 1 .. l - 1 : q[j] = r[j]
        BY <1>4 DEF Precedes
    <2>2. CASE k <= l
        <3>1. k <= Len(r) /\ p[k] < r[k] /\ \A j \in 1 .. k - 1 : p[j] = r[j]
            <4>1. k \in 1 .. Len(r) /\ p[k] \in Nat /\ q[k] \in Nat /\ r[k] \in Nat
                BY <1>1, <1>2, <2>1, <2>2
            <4>2. p[k] < r[k]
                BY <1>2, <2>1, <2>2, <4>1
            <4>3. ASSUME NEW j \in 1 .. k - 1 PROVE p[j] = r[j]
                BY <1>2, <2>1, <2>2
            <4> QED
                BY <4>1, <4>2, <4>3
        <3> QED
            BY <3>1 DEF Precedes
    <2>3. CASE l < k
        <3>1. l \in 1 .. Len(p) /\ p[l] < r[l] /\ \A j \in 1 .. l - 1 : p[j] = r[j]
            BY <1>1, <1>2, <2>1, <2>3
        <3> QED
            BY <2>1, <3>1 DEF Precedes
    <2> QED
        BY <1>1, <1>2, <2>1, <2>2, <2>3
<1> QED
    BY <1>3, <1>4

\* What the search has gone past: all that comes before the place where it is, and what is
\* below the folder it is about to leave.
Passed(m) == \/ listing_pc = "done"
             \/ Precedes(m, dir)
             \/ listing_pc = "names" /\ Precedes(m, Name)
             \/ listing_pc = "cleanup" /\ Under(dir, m)

\* The calls on the stack are for folders that are read, and are no deeper than allowed.
StackIsRead ==
  /\ Len(dir) <= LEVELS_MAX /\ tree[dir].kind \in {"folder", "file", "broken"}
  /\ \A k \in 1 .. Len(dir) : IsRead(SubSeq(dir, 1, k - 1))
  /\ token \in Nat \ {0}
  /\ listing_pc = "names" => IsRead(dir) /\ token <= tree[dir].size + 1

\* Every call on the stack has its block, but one that has only begun.
BlocksOfStack ==
  /\ listing_pc = "call" => blocks = Len(dir)
  /\ listing_pc \in {"names", "cleanup"} => blocks = Len(dir) + 1 /\ Len(dir) < LEVELS_MAX
  /\ listing_pc = "done" => blocks = 0

\* What was found was passed, and no match was passed without being found, unless the
\* result was full.
PassedAreGiven ==
  /\ \A i \in 1 .. Len(result) : Passed(result[i])
  /\ \A m \in Matches : Passed(m) => Given(m)

ListingInv == ListingTypeOK /\ StackIsRead /\ BlocksOfStack /\ FoundInOrder /\ PassedAreGiven

LEMMA ListingStarts == ListingInit => ListingInv
<1> SUFFICES ASSUME ListingInit PROVE ListingInv
    OBVIOUS
<1>1. IsCard(tree) /\ result_max \in Nat \ {0} /\ LEVELS_MAX \in Nat \ {0}
    BY ListingAssumption DEF ListingInit
<1>2. dir = <<>> /\ Len(dir) = 0 /\ dir \in Paths /\ result = <<>> /\ Len(result) = 0
    BY DEF ListingInit, Paths
<1>3. ListingTypeOK /\ StackIsRead /\ BlocksOfStack
    BY <1>1, <1>2 DEF ListingInit, ListingTypeOK, StackIsRead, BlocksOfStack, IsCard
<1>4. FoundInOrder
    BY <1>1, <1>2 DEF FoundInOrder
<1>5. ASSUME NEW m \in Matches PROVE ~Passed(m)
    BY <1>2 DEF ListingInit, Passed, Precedes
<1> QED
    BY <1>2, <1>3, <1>4, <1>5 DEF ListingInv, PassedAreGiven

LEMMA ListingUnchanged == ListingInv /\ UNCHANGED listingVars => ListingInv'
BY DEF ListingInv, ListingTypeOK, StackIsRead, BlocksOfStack, FoundInOrder, PassedAreGiven,
       Passed, Given, Matches, IsRead, Name, listingVars

\* Matches are paths, and what is in a folder has one of its places.
LEMMA MatchFacts ==
  ASSUME ListingTypeOK, NEW m \in Matches
  PROVE  /\ m \in Paths /\ m \in DOMAIN tree /\ tree[m].kind = "match"
         /\ Len(m) \in Nat /\ Len(m) <= LEVELS_MAX
         /\ \A d \in Paths : Under(d, m) => m = d \/
              /\ Len(d) < Len(m) /\ IsRead(d)
              /\ m[Len(d) + 1] \in 1 .. tree[d].size
<1>1. IsCard(tree)
    BY ListingAssumption DEF ListingTypeOK
<1>2. /\ m \in Paths /\ m \in DOMAIN tree /\ tree[m].kind = "match" /\ Len(m) <= LEVELS_MAX
      /\ \A k \in 1 .. Len(m) : IsRead(SubSeq(m, 1, k - 1))
      /\ \A k \in 1 .. Len(m) : m[k] \in 1 .. tree[SubSeq(m, 1, k - 1)].size
    BY <1>1 DEF Matches, IsCard
<1>3. Len(m) \in Nat
    BY <1>2, PathPlaces
<1>4. ASSUME NEW d \in Paths, Under(d, m), m # d
      PROVE  Len(d) < Len(m) /\ IsRead(d) /\ m[Len(d) + 1] \in 1 .. tree[d].size
    <2>1. Len(d) \in Nat /\ Len(d) <= Len(m) /\ \A j \in 1 .. Len(d) : m[j] = d[j]
        BY <1>4, PathPlaces DEF Under
    <2>2. Len(d) # Len(m)
        BY <1>2, <1>4, <2>1, SeqEqual DEF Paths
    <2>3. Len(d) + 1 \in 1 .. Len(m) /\ (Len(d) + 1) - 1 = Len(d)
        BY <1>3, <2>1, <2>2
    <2>4. SubSeq(m, 1, Len(d)) = d
        BY <1>2, <1>3, <2>1, SubSeqProperties, SeqEqual DEF Paths
    <2>5. SubSeq(m, 1, (Len(d) + 1) - 1) = d
        BY <2>3, <2>4
    <2>6. IsRead(d) /\ m[Len(d) + 1] \in 1 .. tree[d].size
        BY <1>2, <2>3, <2>5
    <2> QED
        BY <1>3, <2>1, <2>2, <2>6
<1> QED
    BY <1>2, <1>3, <1>4

\* The first n places of a path.
LEMMA PrefixFacts ==
  ASSUME NEW p \in Paths, NEW n \in Nat, n <= Len(p)
  PROVE  /\ SubSeq(p, 1, n) \in Paths /\ Len(SubSeq(p, 1, n)) = n
         /\ \A j \in 1 .. n : SubSeq(p, 1, n)[j] = p[j]
    BY DEF Paths

\* The search goes past what is at or below a place only when there is no match to be had:
\* a step that finds nothing keeps what was found and what was passed.
LEMMA NothingFound ==
  ASSUME ListingInv, UNCHANGED <<tree, result_max, result>>,
         \A m \in Matches : Passed(m)' <=> Passed(m)
  PROVE  FoundInOrder' /\ PassedAreGiven'
<1>1. Matches' = Matches /\ \A m : Given(m)' <=> Given(m)
    BY DEF Matches, IsRead, Given
<1>2. FoundInOrder'
    BY <1>1 DEF ListingInv, FoundInOrder
<1>3. \A i \in 1 .. Len(result) : result[i] \in Matches
    BY DEF ListingInv, FoundInOrder
<1> QED
    BY <1>1, <1>2, <1>3 DEF ListingInv, PassedAreGiven

\* What is known of the place where the search is.
LEMMA PlaceFacts ==
  ASSUME ListingInv
  PROVE  /\ IsCard(tree) /\ result_max \in Nat \ {0} /\ LEVELS_MAX \in Nat \ {0}
         /\ dir \in Paths /\ dir \in DOMAIN tree /\ tree[dir] \in [kind : Kinds, size : Nat]
         /\ tree[dir].kind \in {"folder", "file", "broken"} /\ Len(dir) \in Nat
         /\ token \in Nat \ {0} /\ Name \in Paths /\ Len(Name) = Len(dir) + 1
         /\ listing_pc = "names" /\ token <= tree[dir].size =>
              Name \in DOMAIN tree /\ tree[Name] \in [kind : Kinds, size : Nat]
<1>1. /\ IsCard(tree) /\ result_max \in Nat \ {0} /\ LEVELS_MAX \in Nat \ {0}
      /\ dir \in Paths /\ dir \in DOMAIN tree
      /\ tree[dir].kind \in {"folder", "file", "broken"} /\ token \in Nat \ {0}
    BY ListingAssumption DEF ListingInv, ListingTypeOK, StackIsRead
<1>2. tree[dir] \in [kind : Kinds, size : Nat] /\ Len(dir) \in Nat
    BY <1>1, PathPlaces DEF IsCard
<1>3. Name \in Paths /\ Len(Name) = Len(dir) + 1
    BY <1>1, PathFacts DEF Name
<1>4. ASSUME token <= tree[dir].size
      PROVE  Name \in DOMAIN tree /\ tree[Name] \in [kind : Kinds, size : Nat]
    <2>1. token \in 1 .. tree[dir].size
        BY <1>1, <1>2, <1>4
    <2> QED
        BY <1>1, <2>1 DEF IsCard, Name
<1> QED
    BY <1>1, <1>2, <1>3, <1>4

\* No match is at a name that is none, nor below one that is not read.
LEMMA NoMatchUnder ==
  ASSUME ListingTypeOK, NEW d \in Paths, d \in DOMAIN tree, tree[d].kind # "match", ~IsRead(d),
         NEW m \in Matches
  PROVE  ~Under(d, m)
BY MatchFacts

\* The innermost call returns: its caller is at the next name, and has gone past all that
\* comes before the folder, is the folder or is below it.
LEMMA ReturnFacts ==
  ASSUME ListingInv, Return, UNCHANGED <<tree, result_max>>
  PROVE  /\ dir = <<>> => listing_pc' = "done" /\ dir' = <<>> /\ token' = token
         /\ dir # <<>> =>
              /\ listing_pc' = "names" /\ dir' \in Paths /\ Len(dir') = Len(dir) - 1
              /\ token' \in Nat \ {0} /\ StackIsRead' /\ dir' \in DOMAIN tree
              /\ \A m \in Matches : Passed(m)' <=> Precedes(m, dir) \/ Under(dir, m)
<1>1. CASE dir = <<>>
    BY <1>1 DEF Return
<1>2. CASE dir # <<>>
    <2>1. /\ listing_pc' = "names" /\ dir' = SubSeq(dir, 1, Len(dir) - 1)
          /\ token' = dir[Len(dir)] + 1
        BY <1>2 DEF Return
    <2>2. /\ Len(dir) \in Nat \ {0} /\ dir[Len(dir)] \in Nat \ {0}
          /\ \A i \in 1 .. Len(dir) : dir[i] \in Nat \ {0}
        BY <1>2, PlaceFacts, PathPlaces, EmptySeq DEF Paths
    <2>3. PICK front \in Paths, last \in Nat \ {0} :
            /\ front = SubSeq(dir, 1, Len(dir) - 1) /\ last = dir[Len(dir)]
            /\ Len(front) = Len(dir) - 1 /\ \A j \in 1 .. Len(front) : front[j] = dir[j]
        <3>1. Len(dir) - 1 \in Nat /\ Len(dir) - 1 <= Len(dir)
            BY <2>2
        <3>2. dir \in Paths
            BY PlaceFacts
        <3>3. /\ SubSeq(dir, 1, Len(dir) - 1) \in Paths /\ Len(SubSeq(dir, 1, Len(dir) - 1)) = Len(dir) - 1
              /\ \A j \in 1 .. Len(dir) - 1 : SubSeq(dir, 1, Len(dir) - 1)[j] = dir[j]
            BY <3>1, <3>2, PrefixFacts
        <3> QED
            BY ONLY <2>2, <3>3, Zenon
    <2>4. front \in DOMAIN tree /\ last \in 1 .. tree[front].size
        BY <2>2, <2>3, PlaceFacts DEF IsCard
    <2>5. IsRead(front)
        BY <2>2, <2>3 DEF ListingInv, StackIsRead
    <2>6. Append(front, last) = dir
        <3>1. Append(front, last) \in Paths /\ Len(Append(front, last)) = Len(dir)
            BY <2>2, <2>3, PathFacts
        <3>2. \A j \in 1 .. Len(dir) : Append(front, last)[j] = dir[j]
            BY <2>2, <2>3, PathFacts
        <3> QED
            BY <3>1, <3>2, PlaceFacts, SeqEqual DEF Paths
    <2>7. \A k \in 1 .. Len(front) : IsRead(SubSeq(front, 1, k - 1))
        <3> SUFFICES ASSUME NEW k \in 1 .. Len(front) PROVE IsRead(SubSeq(front, 1, k - 1))
            OBVIOUS
        <3>1. k \in 1 .. Len(dir)
            BY <2>2, <2>3
        <3>2. SubSeq(front, 1, k - 1) = SubSeq(dir, 1, k - 1)
            <4>1. k - 1 \in Nat /\ k - 1 <= Len(front) /\ k - 1 <= Len(dir)
                BY <2>2, <2>3
            <4>2. /\ SubSeq(front, 1, k - 1) \in Paths /\ SubSeq(dir, 1, k - 1) \in Paths
                  /\ Len(SubSeq(front, 1, k - 1)) = k - 1 /\ Len(SubSeq(dir, 1, k - 1)) = k - 1
                  /\ \A j \in 1 .. k - 1 : SubSeq(front, 1, k - 1)[j] = front[j]
                  /\ \A j \in 1 .. k - 1 : SubSeq(dir, 1, k - 1)[j] = dir[j]
                BY <4>1, PlaceFacts, PrefixFacts
            <4>3. \A j \in 1 .. k - 1 : SubSeq(front, 1, k - 1)[j] = SubSeq(dir, 1, k - 1)[j]
                BY <2>2, <2>3, <4>2
            <4> QED
                BY <4>2, <4>3, SeqEqual DEF Paths
        <3> QED
            BY <3>1, <3>2 DEF ListingInv, StackIsRead
    <2>8. StackIsRead'
        <3>1. /\ tree'[front].kind = "folder" /\ tree'[front].size <= BufEntries
              /\ tree'[front] \in [kind : Kinds, size : Nat] /\ tree' = tree
            BY <2>4, <2>5, PlaceFacts DEF IsRead, IsCard
        <3>2. \A k \in 1 .. Len(front) : LET above == SubSeq(front, 1, k - 1)
                IN tree'[above].kind = "folder" /\ tree'[above].size <= BufEntries
            BY <2>7 DEF IsRead
        <3>3. Len(front) <= LEVELS_MAX
            BY <2>2, <2>3, PlaceFacts DEF ListingInv, StackIsRead
        <3>4. last + 1 \in Nat \ {0} /\ last + 1 <= tree'[front].size + 1
            BY <2>3, <2>4, <3>1
        <3> QED
            BY <2>1, <2>3, <3>1, <3>2, <3>3, <3>4 DEF StackIsRead, IsRead
    <2>9. ASSUME NEW m \in Matches PROVE Passed(m)' <=> Precedes(m, dir) \/ Under(dir, m)
        <3>1. m \in Paths
            BY MatchFacts DEF ListingInv
        <3>2. Precedes(m, Append(front, last + 1)) <=> Precedes(m, dir) \/ Under(dir, m)
            BY <2>3, <2>6, <3>1, PrecedesNext
        <3>3. Precedes(m, front) => Precedes(m, Append(front, last + 1))
            BY <2>3, <3>1, PrecedesName
        <3>4. Passed(m)' <=> Precedes(m, front) \/ Precedes(m, Append(front, last + 1))
            BY <2>1, <2>3 DEF Passed, Name
        <3> QED
            BY <3>2, <3>3, <3>4
    <2> QED
        BY <1>2, <2>1, <2>2, <2>3, <2>4, <2>8, <2>9
<1> QED
    BY <1>1, <1>2

LEMMA ReturnAtOnceInv == ListingInv /\ ReturnAtOnce => ListingInv'
<1> SUFFICES ASSUME ListingInv, ReturnAtOnce PROVE ListingInv'
    OBVIOUS
<1>1. /\ listing_pc = "call" /\ Return /\ UNCHANGED <<tree, result_max, blocks, result>>
      /\ ret' \in {"ok", "ENOMEM"}
    BY DEF ReturnAtOnce
<1>2. blocks = Len(dir) /\ Len(dir) = LEVELS_MAX
    BY <1>1, PlaceFacts DEF ReturnAtOnce, MayOpen, ListingInv, BlocksOfStack, StackIsRead
<1>3. dir # <<>>
    BY <1>2, PlaceFacts
<1>4. /\ listing_pc' = "names" /\ dir' \in Paths /\ Len(dir') = Len(dir) - 1 /\ token' \in Nat \ {0}
      /\ StackIsRead' /\ dir' \in DOMAIN tree
      /\ \A m \in Matches : Passed(m)' <=> Precedes(m, dir) \/ Under(dir, m)
    BY <1>1, <1>3, ReturnFacts
<1>5. ListingTypeOK'
    BY <1>1, <1>4 DEF ListingInv, ListingTypeOK
<1>6. BlocksOfStack'
    BY <1>1, <1>2, <1>4, PlaceFacts DEF BlocksOfStack
<1>7. ASSUME NEW m \in Matches PROVE Passed(m)' <=> Passed(m)
    <2>1. ~Under(dir, m)
        BY <1>2, MatchFacts, PlaceFacts DEF ListingInv
    <2> QED
        BY <1>1, <1>4, <2>1 DEF Passed
<1> QED
    BY <1>1, <1>4, <1>5, <1>6, <1>7, NothingFound DEF ListingInv

LEMMA OpenFolderInv == ListingInv /\ OpenFolder => ListingInv'
<1> SUFFICES ASSUME ListingInv, OpenFolder PROVE ListingInv'
    OBVIOUS
<1>1. /\ listing_pc = "call" /\ blocks' = blocks + 1 /\ token' = 1
      /\ UNCHANGED <<tree, result_max, dir, result>>
    BY DEF OpenFolder
<1>2. blocks = Len(dir) /\ Len(dir) < LEVELS_MAX
    BY <1>1, PlaceFacts DEF OpenFolder, MayOpen, ListingInv, BlocksOfStack
<1>3. /\ ListFiles(dir) = "ok" <=> IsRead(dir)
      /\ ListFiles(dir) \in {"ok", "ENOENT", "EINVAL", "EIO"}
    BY ListingAssumption, PlaceFacts DEF ListFiles, IsRead
<1>4. /\ listing_pc' = IF IsRead(dir) THEN "names" ELSE "cleanup"
      /\ ret' \in {"ok", "EINVAL", "EIO"}
    BY <1>3 DEF OpenFolder
<1>5. ListingTypeOK'
    BY <1>1, <1>4 DEF ListingInv, ListingTypeOK
<1>6. StackIsRead'
    BY <1>1, <1>4, PlaceFacts DEF ListingInv, StackIsRead, IsRead
<1>7. BlocksOfStack'
    BY <1>1, <1>2, <1>4, PlaceFacts DEF BlocksOfStack
<1>8. ASSUME NEW m \in Matches PROVE Passed(m)' <=> Passed(m)
    <2>1. m \in Paths /\ Passed(m) <=> Precedes(m, dir)
        BY <1>1, MatchFacts DEF ListingInv, Passed
    <2>2. CASE IsRead(dir)
        <3>1. /\ m \in Paths /\ dir \in Paths /\ 1 \in Nat \ {0} /\ Len(dir) \in Nat
              /\ \A j \in 1 .. Len(m) : m[j] \in Nat \ {0}
            BY MatchFacts, PlaceFacts, PathPlaces DEF ListingInv
        <3>2. Len(dir) < Len(m) => ~(m[Len(dir) + 1] < 1)
            BY <3>1, PathPlaces
        <3>3. Precedes(m, Append(dir, 1)) <=> Precedes(m, dir)
            BY <3>1, <3>2, PrecedesName
        <3> QED
            BY <1>1, <1>4, <2>1, <2>2, <3>3 DEF Passed, Name
    <2>3. CASE ~IsRead(dir)
        <3>1. ~Under(dir, m)
            BY <2>3, NoMatchUnder, PlaceFacts DEF ListingInv
        <3> QED
            BY <1>1, <1>4, <2>1, <2>3, <3>1 DEF Passed
    <2> QED
        BY <2>2, <2>3
<1> QED
    BY <1>1, <1>5, <1>6, <1>7, <1>8, NothingFound DEF ListingInv

\* In the loop, what was passed is what comes before the name.
LEMMA PassedInLoop ==
  ASSUME ListingInv, listing_pc = "names", NEW m \in Matches
  PROVE  Passed(m) <=> Precedes(m, Name)
<1>1. m \in Paths /\ dir \in Paths /\ token \in Nat \ {0}
    BY MatchFacts, PlaceFacts DEF ListingInv
<1>2. Precedes(m, dir) => Precedes(m, Name)
    BY <1>1, PrecedesName DEF Name
<1> QED
    BY <1>2 DEF Passed

\* The next name of the same folder.
LEMMA NextNameFacts ==
  ASSUME ListingInv, listing_pc = "names", token <= tree[dir].size, token' = token + 1,
         UNCHANGED <<tree, result_max, listing_pc, dir, blocks, ret>>
  PROVE  /\ StackIsRead' /\ BlocksOfStack'
         /\ \A m \in Matches : Passed(m)' <=> Precedes(m, Name) \/ Under(Name, m)
<1>1. StackIsRead'
    BY PlaceFacts DEF ListingInv, StackIsRead, IsRead
<1>2. BlocksOfStack'
    BY DEF ListingInv, BlocksOfStack
<1>3. ASSUME NEW m \in Matches PROVE Passed(m)' <=> Precedes(m, Name) \/ Under(Name, m)
    <2>1. m \in Paths /\ dir \in Paths /\ token \in Nat \ {0} /\ token + 1 \in Nat \ {0}
        BY MatchFacts, PlaceFacts DEF ListingInv
    <2>2. Precedes(m, dir) => Precedes(m, Append(dir, token + 1))
        BY <2>1, PrecedesName
    <2>3. Passed(m)' <=> Precedes(m, Append(dir, token + 1))
        BY <2>2 DEF Passed, Name
    <2> QED
        BY <2>1, <2>3, PrecedesNext DEF Name
<1> QED
    BY <1>1, <1>2, <1>3

LEMMA SkipNameInv == ListingInv /\ SkipName => ListingInv'
<1> SUFFICES ASSUME ListingInv, SkipName PROVE ListingInv'
    OBVIOUS
<1>1. /\ listing_pc = "names" /\ token <= tree[dir].size /\ tree[Name].kind = "system"
      /\ token' = token + 1
      /\ UNCHANGED <<tree, result_max, listing_pc, dir, blocks, result, ret>>
    BY DEF SkipName, AtName
<1>2. ListingTypeOK'
    BY <1>1, PlaceFacts DEF ListingInv, ListingTypeOK
<1>3. ASSUME NEW m \in Matches PROVE ~Under(Name, m)
    BY <1>1, <1>3, NoMatchUnder, PlaceFacts DEF ListingInv, IsRead
<1>4. \A m \in Matches : Passed(m)' <=> Passed(m)
    BY <1>1, <1>3, NextNameFacts, PassedInLoop
<1> QED
    BY <1>1, <1>2, <1>4, NextNameFacts, NothingFound DEF ListingInv

\* The folders above a name are read.
LEMMA PrefixesAreRead ==
  ASSUME ListingInv, listing_pc = "names"
  PROVE  \A k \in 1 .. Len(Name) : IsRead(SubSeq(Name, 1, k - 1))
<1> SUFFICES ASSUME NEW k \in 1 .. Len(Name) PROVE IsRead(SubSeq(Name, 1, k - 1))
    OBVIOUS
<1>1. /\ k - 1 \in Nat /\ k - 1 <= Len(dir) /\ k - 1 <= Len(Name) /\ dir \in Paths
      /\ Name \in Paths /\ Len(dir) \in Nat
    BY PlaceFacts
<1>2. /\ SubSeq(Name, 1, k - 1) \in Paths /\ SubSeq(dir, 1, k - 1) \in Paths
      /\ Len(SubSeq(Name, 1, k - 1)) = k - 1 /\ Len(SubSeq(dir, 1, k - 1)) = k - 1
      /\ \A j \in 1 .. k - 1 : SubSeq(Name, 1, k - 1)[j] = Name[j]
      /\ \A j \in 1 .. k - 1 : SubSeq(dir, 1, k - 1)[j] = dir[j]
    BY <1>1, PrefixFacts
<1>3. \A j \in 1 .. Len(dir) : Name[j] = dir[j]
    BY PlaceFacts, PathFacts DEF Name
<1>4. \A j \in 1 .. k - 1 : SubSeq(Name, 1, k - 1)[j] = SubSeq(dir, 1, k - 1)[j]
    BY <1>1, <1>2, <1>3
<1>5. SubSeq(Name, 1, k - 1) = SubSeq(dir, 1, k - 1)
    BY <1>2, <1>4, SeqEqual DEF Paths
<1>6. CASE k = Len(dir) + 1
    <2>1. SubSeq(dir, 1, k - 1) = dir
        <3>1. Len(dir) = k - 1
            BY <1>1, <1>6
        <3> QED
            BY <1>1, <1>2, <3>1, SeqEqual DEF Paths
    <2> QED
        BY <1>5, <2>1 DEF ListingInv, StackIsRead
<1>7. CASE k # Len(dir) + 1
    <2>1. k \in 1 .. Len(dir)
        BY <1>1, <1>7
    <2> QED
        BY <1>5, <2>1 DEF ListingInv, StackIsRead
<1> QED
    BY <1>6, <1>7

LEMMA AddMatchInv == ListingInv /\ AddMatch => ListingInv'
<1> SUFFICES ASSUME ListingInv, AddMatch PROVE ListingInv'
    OBVIOUS
<1>1. /\ listing_pc = "names" /\ token <= tree[dir].size /\ tree[Name].kind = "match"
      /\ token' = token + 1 /\ result' = Append(result, Name)
      /\ UNCHANGED <<tree, result_max, listing_pc, dir, blocks, ret>>
    BY DEF AddMatch, AtName
<1>2. Len(result) < result_max /\ Len(result) \in Nat /\ result \in Seq(Paths)
    BY PlaceFacts DEF AddMatch, ResultIsFull, ListingInv, ListingTypeOK
<1>3. /\ Len(result') = Len(result) + 1 /\ result'[Len(result) + 1] = Name
      /\ \A i \in 1 .. Len(result) : result'[i] = result[i]
    BY <1>1, <1>2
<1>4. ListingTypeOK'
    BY <1>1, <1>2, PlaceFacts DEF ListingInv, ListingTypeOK
<1>5. Name \in Matches
    <2>1. Name \in DOMAIN tree /\ Len(Name) <= LEVELS_MAX
        BY <1>1, PlaceFacts DEF ListingInv, BlocksOfStack
    <2>2. \A k \in 1 .. Len(Name) : IsRead(SubSeq(Name, 1, k - 1))
        BY <1>1, PrefixesAreRead
    <2> QED
        BY <1>1, <2>1, <2>2 DEF Matches
<1>6. \A i \in 1 .. Len(result) : result[i] \in Matches /\ Precedes(result[i], Name)
    BY <1>1, PassedInLoop DEF ListingInv, FoundInOrder, PassedAreGiven
<1>7. Matches' = Matches
    BY <1>1 DEF Matches, IsRead
<1>8. FoundInOrder'
    <2>1. \A i \in 1 .. Len(result') : i \in 1 .. Len(result) \/ i = Len(result) + 1
        BY <1>2, <1>3
    <2>2. Len(result') <= result_max'
        BY <1>1, <1>2, <1>3, PlaceFacts
    <2>3. \A i \in 1 .. Len(result') : result'[i] \in Matches
        BY <1>3, <1>5, <1>6, <2>1
    <2>4. ASSUME NEW i \in 1 .. Len(result'), NEW j \in 1 .. Len(result'), i < j
          PROVE  Precedes(result'[i], result'[j])
        <3>1. i \in 1 .. Len(result) /\ result'[i] = result[i]
            BY <1>2, <1>3, <2>4
        <3>2. CASE j \in 1 .. Len(result)
            BY <1>3, <2>4, <3>1, <3>2 DEF ListingInv, FoundInOrder
        <3>3. CASE j = Len(result) + 1
            BY <1>3, <1>6, <3>1, <3>3
        <3> QED
            BY <2>1, <3>2, <3>3
    <2> QED
        BY <1>7, <2>2, <2>3, <2>4 DEF FoundInOrder
<1>9. Under(Name, Name)
    BY PlaceFacts DEF Under
<1>10. PassedAreGiven'
    <2>1. \A m \in Matches : Passed(m)' <=> Precedes(m, Name) \/ Under(Name, m)
        BY <1>1, NextNameFacts
    <2>2. ASSUME NEW i \in 1 .. Len(result') PROVE Passed(result[i])'
        <3>1. CASE i \in 1 .. Len(result)
            BY <1>3, <1>6, <2>1, <3>1
        <3>2. CASE i = Len(result) + 1
            BY <1>3, <1>5, <1>9, <2>1, <3>2
        <3> QED
            BY <1>2, <1>3, <3>1, <3>2
    <2>3. ASSUME NEW m \in Matches, Passed(m)' PROVE \E i \in 1 .. Len(result') : result'[i] = m
        <3>1. CASE Precedes(m, Name)
            <4>1. Passed(m) /\ Len(result) # result_max
                BY <1>1, <1>2, <3>1, PassedInLoop
            <4>2. PICK i \in 1 .. Len(result) : result[i] = m
                BY <4>1 DEF ListingInv, PassedAreGiven, Given
            <4>3. i \in 1 .. Len(result') /\ result'[i] = m
                BY <1>2, <1>3, <4>2
            <4> QED
                BY <4>3
        <3>2. CASE Under(Name, m)
            <4>1. m = Name
                BY <1>1, <3>2, MatchFacts, PlaceFacts DEF ListingInv, IsRead
            <4>2. Len(result) + 1 \in 1 .. Len(result')
                BY <1>2, <1>3
            <4> QED
                BY <1>3, <4>1, <4>2
        <3> QED
            BY <2>1, <2>3, <3>1, <3>2
    <2> QED
        BY <1>7, <2>2, <2>3 DEF PassedAreGiven, Given
<1> QED
    BY <1>1, <1>4, <1>8, <1>10, NextNameFacts DEF ListingInv

LEMMA NoRoomInv == ListingInv /\ NoRoom => ListingInv'
<1> SUFFICES ASSUME ListingInv, NoRoom PROVE ListingInv'
    OBVIOUS
<1>1. /\ listing_pc = "names" /\ token <= tree[dir].size /\ tree[Name].kind = "match"
      /\ ret' = "ENOMEM" /\ listing_pc' = "cleanup"
      /\ UNCHANGED <<tree, result_max, dir, token, blocks, result>>
    BY DEF NoRoom, AtName
<1>2. Len(result) = result_max
    BY PlaceFacts DEF NoRoom, ResultIsFull, ListingInv, ListingTypeOK, FoundInOrder
<1>3. ListingTypeOK' /\ StackIsRead' /\ BlocksOfStack'
    BY <1>1 DEF ListingInv, ListingTypeOK, StackIsRead, BlocksOfStack, IsRead
<1>4. Matches' = Matches /\ \A m : Given(m)' <=> Given(m)
    BY <1>1 DEF Matches, IsRead, Given
<1>5. FoundInOrder'
    BY <1>1, <1>4 DEF ListingInv, FoundInOrder
<1>6. ASSUME NEW m \in Matches
      PROVE  /\ Passed(m) => Passed(m)'
             /\ Passed(m)' => Passed(m) \/ Precedes(Name, m) \/ Under(Name, m)
    <2>1. /\ m \in Paths /\ dir \in Paths /\ token \in Nat \ {0} /\ Len(dir) \in Nat
          /\ Len(m) \in Nat
        BY MatchFacts, PlaceFacts DEF ListingInv
    <2>2. Passed(m)' <=> Precedes(m, dir) \/ Under(dir, m)
        BY <1>1 DEF Passed
    <2>3. Passed(m) <=> Precedes(m, dir) \/ (Under(dir, m) /\ Len(dir) < Len(m) /\ m[Len(dir) + 1] < token)
        BY <1>1, <2>1, PassedInLoop, PrecedesName DEF Name
    <2>4. ASSUME Under(dir, m), ~(Len(dir) < Len(m) /\ m[Len(dir) + 1] < token)
          PROVE  Precedes(Name, m) \/ Under(Name, m)
        <3>1. m # dir
            BY MatchFacts, PlaceFacts DEF ListingInv
        <3>2. Len(dir) < Len(m) /\ m[Len(dir) + 1] \in Nat
            BY <2>1, <2>4, <3>1, MatchFacts DEF ListingInv
        <3>3. m[Len(dir) + 1] >= token
            BY <2>1, <2>4, <3>2
        <3>4. /\ Len(Name) = Len(dir) + 1 /\ Name[Len(dir) + 1] = token
              /\ \A j \in 1 .. Len(dir) : Name[j] = dir[j]
            BY <2>1, PathFacts DEF Name
        <3>5. \A j \in 1 .. Len(dir) : Name[j] = m[j]
            BY <2>4, <3>4 DEF Under
        <3>6. CASE m[Len(dir) + 1] = token
            <4>1. \A j \in 1 .. Len(Name) : m[j] = Name[j]
                BY <2>1, <3>4, <3>5, <3>6
            <4> QED
                BY <2>1, <3>2, <3>4, <4>1 DEF Under
        <3>7. CASE m[Len(dir) + 1] # token
            <4>1. /\ Len(dir) + 1 \in 1 .. Len(Name) /\ Len(dir) + 1 <= Len(m)
                  /\ Name[Len(dir) + 1] < m[Len(dir) + 1]
                BY <2>1, <3>2, <3>3, <3>4, <3>7
            <4>2. \A j \in 1 .. (Len(dir) + 1) - 1 : Name[j] = m[j]
                BY <2>1, <3>5
            <4> QED
                BY <4>1, <4>2 DEF Precedes
        <3> QED
            BY <3>6, <3>7
    <2> QED
        BY <2>2, <2>3, <2>4
<1>7. \A i \in 1 .. Len(result) : /\ result[i] \in Matches /\ result[i] \in Paths
                                  /\ Precedes(result[i], Name)
    BY <1>1, PassedInLoop, MatchFacts DEF ListingInv, FoundInOrder, PassedAreGiven
<1>8. ASSUME NEW m \in Matches, Precedes(Name, m) \/ Under(Name, m) PROVE Given(m)
    <2>1. m \in Paths /\ Name \in Paths
        BY MatchFacts, PlaceFacts DEF ListingInv
    <2>2. \A i \in 1 .. Len(result) : Precedes(result[i], m)
        BY <1>7, <1>8, <2>1, PrecedesTransitive
    <2> QED
        BY <1>2, <2>2 DEF Given
<1>9. PassedAreGiven'
    <2>1. \A i \in 1 .. Len(result') : Passed(result[i])'
        BY <1>1, <1>6, <1>7 DEF ListingInv, PassedAreGiven
    <2>2. \A m \in Matches : Passed(m)' => Given(m)
        BY <1>6, <1>8 DEF ListingInv, PassedAreGiven
    <2> QED
        BY <1>4, <2>1, <2>2 DEF PassedAreGiven
<1> QED
    BY <1>3, <1>5, <1>9 DEF ListingInv

LEMMA TraverseDownInv == ListingInv /\ TraverseDown => ListingInv'
<1> SUFFICES ASSUME ListingInv, TraverseDown PROVE ListingInv'
    OBVIOUS
<1>1. /\ listing_pc = "names" /\ token <= tree[dir].size
      /\ tree[Name].kind \in {"folder", "file", "broken"} /\ dir' = Name /\ listing_pc' = "call"
      /\ UNCHANGED <<tree, result_max, token, blocks, result, ret>>
    BY DEF TraverseDown, AtName
<1>2. ListingTypeOK'
    BY <1>1, PlaceFacts DEF ListingInv, ListingTypeOK
<1>3. BlocksOfStack' /\ Len(Name) <= LEVELS_MAX
    BY <1>1, PlaceFacts DEF ListingInv, BlocksOfStack
<1>4. \A k \in 1 .. Len(Name) : IsRead(SubSeq(Name, 1, k - 1))
    BY <1>1, PrefixesAreRead
<1>5. StackIsRead'
    <2>1. \A k \in 1 .. Len(dir') : IsRead(SubSeq(dir, 1, k - 1))'
        BY <1>1, <1>4 DEF IsRead
    <2> QED
        BY <1>1, <1>3, <2>1, PlaceFacts DEF StackIsRead
<1>6. \A m \in Matches : Passed(m)' <=> Passed(m)
    BY <1>1, PassedInLoop DEF Passed
<1> QED
    BY <1>1, <1>2, <1>3, <1>5, <1>6, NothingFound DEF ListingInv

LEMMA NoMoreNamesInv == ListingInv /\ NoMoreNames => ListingInv'
<1> SUFFICES ASSUME ListingInv, NoMoreNames PROVE ListingInv'
    OBVIOUS
<1>1. /\ listing_pc = "names" /\ token > tree[dir].size /\ listing_pc' = "cleanup"
      /\ UNCHANGED <<tree, result_max, dir, token, blocks, result, ret>>
    BY DEF NoMoreNames
<1>2. ListingTypeOK' /\ StackIsRead' /\ BlocksOfStack'
    BY <1>1 DEF ListingInv, ListingTypeOK, StackIsRead, BlocksOfStack, IsRead
<1>3. ASSUME NEW m \in Matches PROVE Passed(m)' <=> Passed(m)
    <2>1. m \in Paths /\ dir \in Paths /\ token \in Nat \ {0} /\ tree[dir].size \in Nat
        BY MatchFacts, PlaceFacts DEF ListingInv
    <2>2. Passed(m)' <=> Precedes(m, dir) \/ Under(dir, m)
        BY <1>1 DEF Passed
    <2>3. Passed(m) <=> Precedes(m, dir) \/ (Under(dir, m) /\ Len(dir) < Len(m) /\ m[Len(dir) + 1] < token)
        BY <1>1, <2>1, PassedInLoop, PrecedesName DEF Name
    <2>4. ASSUME Under(dir, m) PROVE Len(dir) < Len(m) /\ m[Len(dir) + 1] < token
        <3>1. m # dir
            BY MatchFacts, PlaceFacts DEF ListingInv
        <3>2. Len(dir) < Len(m) /\ m[Len(dir) + 1] \in 1 .. tree[dir].size
            BY <2>1, <2>4, <3>1, MatchFacts DEF ListingInv
        <3> QED
            BY <1>1, <2>1, <3>2
    <2> QED
        BY <2>2, <2>3, <2>4
<1> QED
    BY <1>1, <1>2, <1>3, NothingFound DEF ListingInv

LEMMA CleanupInv == ListingInv /\ Cleanup => ListingInv'
<1> SUFFICES ASSUME ListingInv, Cleanup PROVE ListingInv'
    OBVIOUS
<1>1. /\ listing_pc = "cleanup" /\ Return /\ blocks' = blocks - 1
      /\ UNCHANGED <<tree, result_max, result, ret>>
    BY DEF Cleanup, FreeBlocks
<1>2. blocks = Len(dir) + 1 /\ Len(dir) < LEVELS_MAX
    BY <1>1 DEF ListingInv, BlocksOfStack
<1>3. CASE dir = <<>>
    <2>1. listing_pc' = "done" /\ dir' = dir /\ token' = token /\ Len(dir) = 0
        BY <1>1, <1>3, ReturnFacts
    <2>2. ListingTypeOK' /\ StackIsRead'
        BY <1>1, <2>1 DEF ListingInv, ListingTypeOK, StackIsRead, IsRead
    <2>3. BlocksOfStack'
        BY <1>1, <1>2, <2>1 DEF BlocksOfStack
    <2>4. ASSUME NEW m \in Matches PROVE Passed(m) /\ Passed(m)'
        BY <1>1, <2>1, <2>4, MatchFacts DEF ListingInv, Passed, Under
    <2> QED
        BY <1>1, <2>2, <2>3, <2>4, NothingFound DEF ListingInv
<1>4. CASE dir # <<>>
    <2>1. /\ listing_pc' = "names" /\ dir' \in Paths /\ Len(dir') = Len(dir) - 1
          /\ token' \in Nat \ {0} /\ StackIsRead' /\ dir' \in DOMAIN tree
          /\ \A m \in Matches : Passed(m)' <=> Precedes(m, dir) \/ Under(dir, m)
        BY <1>1, <1>4, ReturnFacts
    <2>2. ListingTypeOK'
        BY <1>1, <2>1 DEF ListingInv, ListingTypeOK
    <2>3. BlocksOfStack'
        BY <1>1, <1>2, <2>1, PlaceFacts DEF BlocksOfStack
    <2>4. \A m \in Matches : Passed(m)' <=> Passed(m)
        BY <1>1, <2>1 DEF Passed
    <2> QED
        BY <1>1, <2>1, <2>2, <2>3, <2>4, NothingFound DEF ListingInv
<1> QED
    BY <1>3, <1>4

LEMMA ListingKept == ListingInv /\ [ListingNext]_listingVars => ListingInv'
BY ReturnAtOnceInv, OpenFolderInv, SkipNameInv, AddMatchInv, NoRoomInv, TraverseDownInv,
   NoMoreNamesInv, CleanupInv, ListingUnchanged DEF ListingNext

\* For any card, any limits and any room for results: every block is given back, and what is
\* found is all that there is, in order, until the result is full.
THEOREM FilesAlwaysFound == ListingSpec => [](ListingTypeOK /\ FilesAreFound)
<1>1. ASSUME ListingInv PROVE FilesAreFound
    <2>1. BlocksGivenBack
        BY <1>1, PlaceFacts DEF ListingInv, BlocksOfStack, BlocksGivenBack, StackIsRead,
           ListingTypeOK
    <2>2. NothingLeftOut
        BY <1>1 DEF ListingInv, PassedAreGiven, Passed, NothingLeftOut
    <2> QED
        BY <1>1, <2>1, <2>2 DEF ListingInv, FilesAreFound
<1>2. ListingInv => ListingTypeOK /\ FilesAreFound
    BY <1>1 DEF ListingInv
<1> QED
    BY <1>2, ListingStarts, ListingKept, PTL DEF ListingSpec
-----------------------------------------------------------------------------
(* The parts together, as AudioParts runs them.                                    *)

AudioInv == /\ SourceParts /\ Accounted /\ RenderTypes /\ HeardInv /\ Lc3Inv /\ SdInv
            /\ ListingInv

LEMMA AudioStep == AudioInv /\ [AudioNext]_audioPartsVars => AudioInv'
<1> SUFFICES ASSUME AudioInv, [AudioNext]_audioPartsVars PROVE AudioInv'
    OBVIOUS
<1>1. [StreamingNext]_streamingVars /\ [RxNext]_rxVars /\ [RenderNext]_renderVars
    BY Zenon DEF AudioNext, Runs, audioPartsVars
<1>2. [Lc3Next]_lc3Vars /\ [SdNext]_sdVars /\ [ListingNext]_listingVars
    BY Zenon DEF AudioNext, Runs, audioPartsVars
<1>3. SourceParts' /\ Accounted' /\ RenderTypes' /\ HeardInv'
    BY <1>1, SourceStep, AccountedKept, RenderKept DEF AudioInv
<1>4. Lc3Inv' /\ SdInv' /\ ListingInv'
    BY <1>2, Lc3Step, Lc3Unchanged, SdKept, ListingKept DEF AudioInv
<1> QED
    BY <1>3, <1>4 DEF AudioInv

\* The streams, queues, pools and ring buffers of the audio side keep their types and sizes,
\* the two blocks of a streamed file and the buffers of a stream among them, and a search of
\* the card stays on the card.
THEOREM AudioTypesCorrect == AudioSpec => []AudioTypesOK
<1>1. AudioInit => AudioInv
    BY SourceStarts, AccountedAtStart, RenderStarts, Lc3InitInv, SdInitInv,
       ListingStarts
    DEF AudioInit, AudioInv
<1>2. AudioInv => AudioTypesOK
    BY SourcePartsType, Lc3Follows, SdTypesFollow
    DEF AudioInv, SourceParts, Accounted, RenderTypes, ListingInv, AudioTypesOK
<1> QED
    BY <1>1, <1>2, AudioStep, PTL DEF AudioSpec
=============================================================================
