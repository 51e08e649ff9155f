--------------------------- MODULE BroadcastSource ---------------------------
(* broadcast_source.c and bt_le_audio_tx.c for one BIG with one subgroup, with  *)
(* the host's broadcast source and the ISO buffers it has in flight.  The       *)
(* host's callbacks run on its cooperative threads: each is one action.  All    *)
(* actions here speak of the variables below only.                             *)
EXTENDS Naturals, Sequences, FiniteSets

CONSTANTS Bises,                 \* CONFIG_BT_BAP_BROADCAST_SRC_STREAM_COUNT streams
          HCI_ISO_BUF_PER_CHAN

VARIABLES big,                   \* the host's source: none, configured, starting, streaming, stopping
          ep,                    \* state of each stream's endpoint
          in_flight,             \* SDUs whose sent callback the host owes
          broadcast_source,      \* broadcast_sources[0] is not NULL
          delete_broadcast_src,
          iso_tx_pool_alloc,     \* tx_info_arr[0][0][s].iso_tx_pool_alloc
          le_audio_chan          \* events published and not yet handled
sourceHostVars == <<big, ep, in_flight>>
libVars == <<broadcast_source, delete_broadcast_src>>
sourceVars == <<sourceHostVars, libVars, iso_tx_pool_alloc, le_audio_chan>>

SourceTypeOK ==
    /\ big \in {"none", "configured", "starting", "streaming", "stopping"}
    /\ ep \in [Bises -> {"none", "configured", "streaming"}]
    /\ in_flight \in [Bises -> 0..HCI_ISO_BUF_PER_CHAN]
    /\ broadcast_source \in BOOLEAN /\ delete_broadcast_src \in BOOLEAN
    /\ iso_tx_pool_alloc \in [Bises -> 0..HCI_ISO_BUF_PER_CHAN]
    /\ le_audio_chan \in Seq({"STREAMING", "NOT_STREAMING"})

EveryEp(state) == [s \in Bises |-> state]
Idle == [s \in Bises |-> 0]
SourceInit == /\ big = "none" /\ ep = EveryEp("none") /\ in_flight = Idle
              /\ broadcast_source = FALSE /\ delete_broadcast_src = FALSE
              /\ iso_tx_pool_alloc = Idle /\ le_audio_chan = <<>>

le_audio_event_publish(event) == le_audio_chan' = Append(le_audio_chan, event)
BisStreaming(s) == ep[s] = "streaming"
\* "All streams in a broadcast source is in the same state, so we can just check the first"
First == CHOOSE s \in Bises : \A t \in Bises : s <= t
-----------------------------------------------------------------------------
(* broadcast_source_enable(): the streams are zeroed, their operations are      *)
(* registered and the host creates the source, or cannot.                      *)
Enable(ok) == /\ big' = IF ok THEN "configured" ELSE big
              /\ ep' = EveryEp(IF ok THEN "configured" ELSE "none")
              /\ broadcast_source' = (ok \/ broadcast_source)
              /\ UNCHANGED <<in_flight, delete_broadcast_src, iso_tx_pool_alloc, le_audio_chan>>

(* broadcast_source_start(): the host refuses unless its source is configured.  *)
StartAsked == /\ ep[First] # "none" /\ ~BisStreaming(First)
Start(ok) == /\ big' = IF StartAsked /\ big = "configured" /\ ok THEN "starting" ELSE big
             /\ UNCHANGED <<ep, in_flight, libVars, iso_tx_pool_alloc, le_audio_chan>>

HostStop(ok) == big' = IF big = "streaming" /\ ok THEN "stopping" ELSE big
(* broadcast_source_stop() *)
Stop(ok) == /\ IF BisStreaming(First) THEN HostStop(ok) ELSE UNCHANGED big
            /\ UNCHANGED <<ep, in_flight, libVars, iso_tx_pool_alloc, le_audio_chan>>

\* Mutant: the pointer to a deleted source is kept.
DeleteKeepsPointer == /\ big' = "none" /\ ep' = EveryEp("none") /\ UNCHANGED broadcast_source
DeleteSource == /\ big' = "none" /\ ep' = EveryEp("none") /\ broadcast_source' = FALSE
(* broadcast_source_disable(): a streaming source is deleted by the callback of *)
(* its last stream; the flag for that is set before the host has agreed.       *)
Disable(ok) == /\ \/ /\ BisStreaming(First)
                     /\ delete_broadcast_src' = TRUE /\ HostStop(ok)
                     /\ UNCHANGED <<ep, broadcast_source>>
                  \/ /\ ~BisStreaming(First) /\ broadcast_source
                     /\ IF ok /\ big = "configured"
                        THEN DeleteSource
                        ELSE UNCHANGED <<big, ep, broadcast_source>>
                     /\ UNCHANGED delete_broadcast_src
               /\ UNCHANGED <<in_flight, iso_tx_pool_alloc, le_audio_chan>>
-----------------------------------------------------------------------------
\* Mutant: the count of the stream's last life is kept.
CountKept(s) == iso_tx_pool_alloc
Restarted(s) == [iso_tx_pool_alloc EXCEPT ![s] = 0]
(* stream_started_cb(), with bt_le_audio_tx_stream_started()                    *)
StreamStarted(s) ==
    /\ big = "starting" /\ ~BisStreaming(s)
    /\ ep' = [ep EXCEPT ![s] = "streaming"]
    /\ big' = IF \A t \in Bises \ {s} : BisStreaming(t) THEN "streaming" ELSE big
    /\ iso_tx_pool_alloc' = Restarted(s)
    /\ le_audio_event_publish("STREAMING")
    /\ UNCHANGED <<in_flight, libVars>>

(* stream_stopped_cb(): the host drops what it had in flight.  The last stream  *)
(* of a source that is being disabled deletes it, unless the host refuses.     *)
LastOf(s) == \A t \in Bises \ {s} : ~BisStreaming(t)
StreamStopped(s) ==
    /\ big = "stopping" /\ BisStreaming(s)
    /\ in_flight' = [in_flight EXCEPT ![s] = 0]
    /\ le_audio_event_publish("NOT_STREAMING")
    /\ IF delete_broadcast_src /\ broadcast_source /\ LastOf(s)
       THEN /\ delete_broadcast_src' = FALSE
            /\ \/ DeleteSource
               \/ /\ big' = "configured" /\ ep' = [ep EXCEPT ![s] = "configured"]
                  /\ UNCHANGED broadcast_source
       ELSE /\ big' = IF LastOf(s) THEN "configured" ELSE big
            /\ ep' = [ep EXCEPT ![s] = "configured"]
            /\ UNCHANGED libVars
    /\ UNCHANGED iso_tx_pool_alloc

(* stream_sent_cb(), with bt_le_audio_tx_stream_sent()                          *)
StreamSent(s) == /\ in_flight[s] > 0
                 /\ in_flight' = [in_flight EXCEPT ![s] = @ - 1]
                 /\ iso_tx_pool_alloc' = [iso_tx_pool_alloc EXCEPT ![s] = @ - 1]
                 /\ UNCHANGED <<big, ep, libVars, le_audio_chan>>

(* One stream of bt_le_audio_tx_send(): skipped when it is not streaming any    *)
(* more or has too many buffers out; released again when the host refuses it.  *)
\* Mutant: no limit on what is outstanding.
SendableAlways(s) == BisStreaming(s)
Sendable(s) == BisStreaming(s) /\ iso_tx_pool_alloc[s] < HCI_ISO_BUF_PER_CHAN
iso_stream_send(s, ok) ==
    /\ IF Sendable(s) /\ ok
       THEN /\ iso_tx_pool_alloc' = [iso_tx_pool_alloc EXCEPT ![s] = @ + 1]
            /\ in_flight' = [in_flight EXCEPT ![s] = @ + 1]
       ELSE UNCHANGED <<iso_tx_pool_alloc, in_flight>>
    /\ UNCHANGED <<big, ep, libVars, le_audio_chan>>

\* The streams broadcast_source_send() collects.
ActiveStreams == {s \in Bises : BisStreaming(s)}
=============================================================================
