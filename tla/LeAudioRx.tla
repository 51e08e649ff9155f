------------------------------ MODULE LeAudioRx ------------------------------
(* le_audio_rx.c: the ISO receive callback joins the SDUs that several streams  *)
(* bring for one interval into one audio frame, and hands complete frames to    *)
(* the datapath thread.  The callback runs on the Bluetooth receive thread,     *)
(* which is cooperative: it is one action.                                      *)
EXTENDS Naturals, Sequences, FiniteSets

CONSTANTS Channels,                   \* the streams of the sink
          Locations,                  \* audio locations a stream may carry
          CONFIG_BUF_BLE_RX_PACKET_NUM,
          MaxSdu                      \* bound: number of SDU intervals

ASSUME PoolAssumption == CONFIG_BUF_BLE_RX_PACKET_NUM \in Nat \ {0}
ASSUME ChannelsAssumption == IsFiniteSet(Channels)
ASSUME MaxSduAssumption == MaxSdu \in Nat \ {0}

VARIABLES location,     \* what each stream carries, from its codec configuration
          rx_strm_state,   \* stream_state_get() of main.c
          streaming,    \* the streams that le_audio_concurrent_sync_num_get() counts
          sdu,          \* the current SDU interval: ref_ts_us
          arrived,      \* streams whose SDU of this interval was received
          undisturbed,  \* since the interval began nothing started, stopped or was refused
          audio_frame,  \* the frame being joined: a sequence of at most one frame
          ble_q_rx,     \* complete frames
          held,         \* the frame the datapath thread works on, if any
          allocated,    \* buffers of ble_rx_pool in use
          fatal         \* ERR_CHK_MSG has fired
rxVars == <<location, rx_strm_state, streaming, sdu, arrived, undisturbed, audio_frame,
            ble_q_rx, held, allocated, fatal>>
env == <<location, rx_strm_state, streaming, sdu>>

Frame == [ref_ts_us : 1..MaxSdu, locations : SUBSET Locations, parts : Nat]

RxInit == /\ location \in [Channels -> Locations]
          /\ rx_strm_state = "PAUSED" /\ streaming = {}
          /\ sdu = 1 /\ arrived = {} /\ undisturbed = FALSE
          /\ audio_frame = <<>> /\ ble_q_rx = <<>> /\ held = <<>>
          /\ allocated = 0 /\ fatal = FALSE
-----------------------------------------------------------------------------
Full(q) == Len(q) = CONFIG_BUF_BLE_RX_PACKET_NUM
\* Mutant: the newest frame goes to the front.
PutInFront(q, frame) == IF Full(q) THEN q ELSE <<frame>> \o q

Put(q, frame) == IF Full(q) THEN q ELSE Append(q, frame)

\* Mutant: the oldest frame stays in a full queue.
StaleKept == ble_q_rx
\* Mutant: its buffer is not released.
StaleLeaked == allocated
\* Mutant: a buffer is released whether or not one was taken out.
StaleAlways == allocated - 1

\* "FIFO buffer is full, swap out oldest frame for a new one"
StaleOut == IF Full(ble_q_rx) THEN Tail(ble_q_rx) ELSE ble_q_rx
StaleUnref == IF Full(ble_q_rx) THEN allocated - 1 ELSE allocated

\* Mutant: a frame does not wait for the other streams.
CompleteAtOnce(frame) == TRUE

\* check_send: every stream that is counted has contributed.
Complete(frame) == Cardinality(streaming) = Cardinality(frame.locations)

CheckSend(q, frame) ==
    IF Complete(frame)
    THEN /\ ble_q_rx' = Put(q, frame)
         /\ fatal' = (fatal \/ Full(q))
         /\ audio_frame' = <<>>
    ELSE /\ ble_q_rx' = q
         /\ audio_frame' = <<frame>>
         /\ UNCHANGED fatal

Joined(frame, c) == [ref_ts_us |-> frame.ref_ts_us,
                     locations |-> frame.locations \cup {location[c]}, parts |-> frame.parts + 1]
Fresh(c) == [ref_ts_us |-> sdu, locations |-> {location[c]}, parts |-> 1]

\* Mutant: time stamps are not compared.
SomeTimestamp == audio_frame # <<>>

SameTimestamp == audio_frame # <<>> /\ audio_frame[1].ref_ts_us = sdu
Receives(c) == /\ c \in streaming /\ c \notin arrived
               /\ arrived' = arrived \cup {c}
               /\ UNCHANGED <<env, held>>

\* "Not in streaming state": the SDU is thrown away.
ThrowAway(c) == /\ Receives(c)
                /\ rx_strm_state # "STREAMING"
                /\ UNCHANGED <<audio_frame, ble_q_rx, allocated, fatal, undisturbed>>

\* The second SDU of the interval, of another location.
Join(c) == /\ Receives(c)
           /\ rx_strm_state = "STREAMING" /\ SameTimestamp
           /\ audio_frame[1].locations # {location[c]}
           /\ allocated' = StaleUnref
           /\ CheckSend(StaleOut, Joined(audio_frame[1], c))
           /\ UNCHANGED undisturbed

\* "same timestamp and same locations, discarding new data"
DiscardSameLocation(c) ==
    /\ Receives(c)
    /\ rx_strm_state = "STREAMING" /\ SameTimestamp
    /\ audio_frame[1].locations = {location[c]}
    /\ ble_q_rx' = StaleOut /\ allocated' = StaleUnref
    /\ UNCHANGED <<audio_frame, fatal, undisturbed>>

\* The first SDU of an interval.  A frame of an older interval is sent as it is; then
\* there may be no buffer left for the new one.
Begin(c) ==
    /\ Receives(c)
    /\ rx_strm_state = "STREAMING" /\ ~SameTimestamp
    /\ LET late == audio_frame # <<>>
           q == IF late THEN Put(StaleOut, audio_frame[1]) ELSE StaleOut
           failed == late /\ Full(StaleOut)
       IN IF StaleUnref = CONFIG_BUF_BLE_RX_PACKET_NUM
          THEN /\ ble_q_rx' = q /\ audio_frame' = <<>>
               /\ fatal' = (fatal \/ failed)
               /\ allocated' = StaleUnref
               /\ undisturbed' = FALSE
          ELSE /\ allocated' = StaleUnref + 1
               /\ IF failed
                  THEN fatal' = TRUE /\ ble_q_rx' = q /\ audio_frame' = <<Fresh(c)>>
                  ELSE CheckSend(q, Fresh(c))
               /\ UNCHANGED undisturbed

le_audio_rx_data_handler(c) == \/ ThrowAway(c) \/ Join(c) \/ DiscardSameLocation(c) \/ Begin(c)

(* audio_datapath_thread(): preemptible, so that it holds a frame while others  *)
(* arrive.  audio_datapath_stream_out() is AudioDatapath.                       *)
Take == /\ held = <<>> /\ ble_q_rx # <<>>
        /\ held' = <<Head(ble_q_rx)>> /\ ble_q_rx' = Tail(ble_q_rx)
        /\ UNCHANGED <<env, arrived, undisturbed, audio_frame, allocated, fatal>>
Release == /\ held # <<>>
           /\ held' = <<>> /\ allocated' = allocated - 1
           /\ UNCHANGED <<env, arrived, undisturbed, audio_frame, ble_q_rx, fatal>>
-----------------------------------------------------------------------------
(* The surroundings: the next interval, streams that come and go, play/pause.   *)
NextInterval == /\ sdu < MaxSdu /\ sdu' = sdu + 1 /\ arrived' = {}
                /\ undisturbed' = (rx_strm_state = "STREAMING")
                /\ UNCHANGED <<location, rx_strm_state, streaming, audio_frame, ble_q_rx, held,
                               allocated, fatal>>
Disturbed == /\ undisturbed' = FALSE
             /\ UNCHANGED <<location, sdu, arrived, audio_frame, ble_q_rx, held, allocated, fatal>>
StreamStarts(c) == /\ c \notin streaming /\ streaming' = streaming \cup {c}
                   /\ Disturbed /\ UNCHANGED rx_strm_state
StreamStops(c) == /\ c \in streaming /\ streaming' = streaming \ {c}
                  /\ Disturbed /\ UNCHANGED rx_strm_state
StateSet(s) == /\ rx_strm_state # s /\ rx_strm_state' = s
               /\ Disturbed /\ UNCHANGED streaming

RxNext == \/ \E c \in Channels : \/ le_audio_rx_data_handler(c)
                                 \/ StreamStarts(c) \/ StreamStops(c)
          \/ Take \/ Release \/ NextInterval
          \/ \E s \in {"PAUSED", "STREAMING"} : StateSet(s)
RxSpec == RxInit /\ [][RxNext]_rxVars
-----------------------------------------------------------------------------
\* The type invariant.
RxTypeOK == /\ location \in [Channels -> Locations]
            /\ rx_strm_state \in {"PAUSED", "STREAMING"}
            /\ streaming \subseteq Channels /\ arrived \subseteq Channels
            /\ sdu \in 1..MaxSdu /\ allocated \in Nat
            /\ undisturbed \in BOOLEAN /\ fatal \in BOOLEAN
            /\ audio_frame \in Seq(Frame) /\ Len(audio_frame) <= 1
            /\ ble_q_rx \in Seq(Frame)
            /\ held \in Seq(Frame) /\ Len(held) <= 1

\* Every buffer taken from ble_rx_pool is in exactly one place: being joined, queued, or
\* with the datapath thread.  None is lost and none is released while it is still used.
PoolAccounted == allocated = Len(audio_frame) + Len(ble_q_rx) + Len(held)

\* A call may put two frames after it has freed only one place in the queue, and a put
\* that fails resets the device.  It never does, because the pool has no more buffers
\* than the queue has places.
PutNeverFails == ~fatal

\* Nothing is appended beyond the room a buffer has: one SDU for each stream.
FrameFits == \A f \in {audio_frame[i] : i \in DOMAIN audio_frame} :
                 f.parts <= Cardinality(Channels)

\* The datapath gets the frames in the order of their time stamps, even where a late
\* frame is sent by the arrival of the next one.
InTimestampOrder ==
    LET all == held \o ble_q_rx \o audio_frame
    IN \A i, j \in DOMAIN all : i < j => all[i].ref_ts_us <= all[j].ref_ts_us

\* While nothing starts, stops or overflows, and the streams carry different locations,
\* the frame of an interval leaves the joining only with the SDU of every stream in it.
FramesAreWhole ==
    /\ undisturbed
    /\ \A c, d \in streaming : c # d => location[c] # location[d]
    => \A f \in {ble_q_rx[i] : i \in DOMAIN ble_q_rx} \cup {held[i] : i \in DOMAIN held} :
           f.ref_ts_us = sdu => f.locations = {location[c] : c \in streaming}

\* The books of the pool balance, so that neither an allocation nor a put can fail.
NoBufferLost == PoolAccounted /\ PutNeverFails

\* What the datapath gets are the intervals in order, whole, and each within its buffer.
FramesJoinedRight == FrameFits /\ InTimestampOrder /\ FramesAreWhole
=============================================================================
