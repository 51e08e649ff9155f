---------------------------- MODULE UnicastServer ----------------------------
(* unicast_server.c: a headset whose client configures, enables and releases the *)
(* audio stream endpoints, one sink and one source.                            *)
(*                                                                             *)
(* The endpoint state machine is the host's; the callbacks, all of them in the   *)
(* receive thread, choose a stream for an endpoint and tell le_audio_chan.      *)
EXTENDS Integers

CONSTANTS MaxWrites         \* bound: operations of the client

Ases == {"sink", "source"}
ServerStreams == 1 .. 2     \* cap_audio_streams[], one per endpoint
NoStream == 0

VARIABLES ase_state,        \* "idle", "codec", "qos", "enabling", "streaming", "disabling"
          ase_stream,       \* the stream of an endpoint: conn is set in those that have one
          cap_tx_stream,    \* cap_tx_streams[0]
          le_told,          \* per direction: the last event of le_audio_chan
          writes
serverVars == <<ase_state, ase_stream, cap_tx_stream, le_told, writes>>

ServerInit == /\ ase_state = [a \in Ases |-> "idle"] /\ ase_stream = [a \in Ases |-> NoStream]
              /\ cap_tx_stream = NoStream /\ le_told = [a \in Ases |-> "none"] /\ writes = 0

Tell(a, event) == le_told' = [le_told EXCEPT ![a] = event]
Moves(a, from, to) == ase_state[a] \in from /\ ase_state' = [ase_state EXCEPT ![a] = to]
Written == writes < MaxWrites /\ writes' = writes + 1
KeepStreams == UNCHANGED <<ase_stream, cap_tx_stream>>
-----------------------------------------------------------------------------
\* Mutant: any stream will do.
VacantAlways(s) == TRUE
Vacant(s) == \A a \in Ases : ase_stream[a] # s

\* Mutant: the source stream of the first configuration is kept.
TxStreamOnce(s) == IF cap_tx_stream = NoStream THEN s ELSE cap_tx_stream
TxStream(s) == s

\* lc3_config_cb() of an idle endpoint: the first stream that is vacant, unless the bitrate
\* or the sampling rate is wrong.
lc3_config_cb(a, supported) ==
  LET vacant == {s \in ServerStreams : Vacant(s)}
      stream == CHOOSE s \in vacant : \A t \in vacant : s <= t
  IN /\ Written /\ ase_state[a] = "idle"
     /\ IF supported /\ vacant # {}
        THEN /\ Moves(a, {"idle"}, "codec") /\ Tell(a, "CONFIG_RECEIVED")
             /\ ase_stream' = [ase_stream EXCEPT ![a] = stream]
             /\ cap_tx_stream' = IF a = "source" THEN TxStream(stream) ELSE cap_tx_stream
        ELSE UNCHANGED <<ase_state, ase_stream, cap_tx_stream, le_told>>

lc3_reconfig_cb(a) == /\ Written /\ Moves(a, {"codec", "qos"}, "codec")
                      /\ KeepStreams /\ UNCHANGED le_told

lc3_qos_cb(a) == /\ Written /\ Moves(a, {"codec", "qos"}, "qos") /\ Tell(a, "PRES_DELAY_SET")
                 /\ KeepStreams

\* lc3_enable_cb(), and stream_enabled_cb(): the headset itself starts its sink, once; the
\* client starts the source.
lc3_enable_cb(a) == /\ Written /\ Moves(a, {"qos"}, "enabling") /\ KeepStreams /\ UNCHANGED le_told

\* The isochronous stream is there.
stream_started_cb(a) == /\ Moves(a, {"enabling"}, "streaming") /\ Tell(a, "STREAMING")
                        /\ KeepStreams /\ UNCHANGED writes

\* lc3_disable_cb(): a sink is configured again at once, a source when it is stopped.
lc3_disable_cb(a) ==
  /\ Written /\ Moves(a, {"enabling", "streaming"}, IF a = "sink" THEN "qos" ELSE "disabling")
  /\ Tell(a, "NOT_STREAMING") /\ KeepStreams

lc3_stop_cb(a) == /\ Written /\ Moves(a, {"disabling"}, "qos") /\ Tell(a, "NOT_STREAMING")
                  /\ KeepStreams

\* lc3_release_cb() and stream_released_cb(): the host clears conn, nobody cap_tx_streams.
lc3_release_cb(a) == /\ Written /\ Moves(a, {"codec", "qos", "enabling", "streaming", "disabling"}, "idle")
                     /\ Tell(a, "NOT_STREAMING")
                     /\ ase_stream' = [ase_stream EXCEPT ![a] = NoStream]
                     /\ UNCHANGED cap_tx_stream

\* Mutant: a stream that stops by itself is not told of.
StopsUntold(a) == UNCHANGED le_told
StopsTold(a) == Tell(a, "NOT_STREAMING")

\* stream_stopped_cb(): the isochronous stream is lost.
stream_stopped_cb(a) == /\ Moves(a, {"streaming"}, "qos") /\ StopsTold(a)
                        /\ KeepStreams /\ UNCHANGED writes

\* The link is lost: every stream is stopped, then released, by the host.
LinkLost ==
  /\ \E a \in Ases : ase_state[a] # "idle"
  /\ \A a \in Ases : ase_state[a] # "streaming"
  /\ ase_state' = [a \in Ases |-> "idle"] /\ ase_stream' = [a \in Ases |-> NoStream]
  /\ UNCHANGED <<cap_tx_stream, le_told, writes>>
-----------------------------------------------------------------------------
ServerNext ==
  \/ \E a \in Ases : \/ \E supported \in BOOLEAN : lc3_config_cb(a, supported)
                     \/ lc3_reconfig_cb(a) \/ lc3_qos_cb(a) \/ lc3_enable_cb(a)
                     \/ lc3_disable_cb(a) \/ lc3_stop_cb(a) \/ lc3_release_cb(a)
                     \/ stream_started_cb(a) \/ stream_stopped_cb(a)
  \/ LinkLost
ServerSpec == ServerInit /\ [][ServerNext]_serverVars
-----------------------------------------------------------------------------
\* The host's endpoints, each with a stream of its own.
ServerTypeOK ==
  /\ ase_state \in [Ases -> {"idle", "codec", "qos", "enabling", "streaming", "disabling"}]
  /\ ase_stream \in [Ases -> ServerStreams \cup {NoStream}]
  /\ \A a \in Ases : ase_state[a] = "idle" <=> ase_stream[a] = NoStream
  /\ ase_stream["sink"] = ase_stream["source"] => ase_stream["sink"] = NoStream
  /\ cap_tx_stream \in ServerStreams \cup {NoStream}

\* While the source streams, what unicast_server_send() sends goes to the source's stream,
\* in whichever order endpoints were configured and released before.
SourceIsSent == ase_state["source"] = "streaming" => cap_tx_stream = ase_stream["source"]

\* The application never believes that a direction streams when it does not, whether the
\* client, the host or the link ended it; its audio system would wait for frames.
BelievedStreaming == \A a \in Ases : le_told[a] = "STREAMING" => ase_state[a] = "streaming"

\* What is sent goes to the source's stream, and nobody waits for a stream that has ended.
ServerFollowsClient == SourceIsSent /\ BelievedStreaming
=============================================================================
