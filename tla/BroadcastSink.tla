--------------------------- MODULE BroadcastSink ---------------------------
(* src/bluetooth/bt_stream/broadcast/broadcast_sink.c, and as much of the       *)
(* Bluetooth host below it as it relies on: the pool of periodic-advertising   *)
(* (PA) sync objects, the pool of BAP broadcast sinks and the one BIG that can *)
(* be synced, since a second one would need the same streams.                  *)
(*                                                                             *)
(* Its functions are called from the Bluetooth receive thread, from the LE     *)
(* Audio thread and from the system work queue; the modules that use it say    *)
(* which. An operator here constrains only sinkVars and hostVars.              *)
EXTENDS Integers, Sequences, FiniteSets

CONSTANTS
  Broadcasters,  \* broadcast sources in range
  Encrypted,     \* those whose BIGInfo says encrypted
  Suitable,      \* those whose BASE offers a supported configuration
  LocationBis,   \* the index of the BIS with this device's channel, by broadcaster
  Syncs,         \* the host's PA sync objects (CONFIG_BT_PER_ADV_SYNC_MAX)
  Sinks,         \* the host's broadcast sinks (CONFIG_BT_BAP_BROADCAST_SNK_COUNT)
  STREAM_COUNT,  \* CONFIG_BT_BAP_BROADCAST_SNK_STREAM_COUNT
  RX_STREAMS_MAX,\* CONFIG_BT_AUDIO_CONCURRENT_RX_STREAMS_MAX
  MaxQueue       \* bound: a BASE that is refused comes while fewer messages wait

ASSUME SinkAssumption ==
  /\ Encrypted \subseteq Broadcasters /\ Suitable \subseteq Broadcasters
  /\ LocationBis \in [Broadcasters -> Nat]
  /\ STREAM_COUNT \in Nat \ {0} /\ RX_STREAMS_MAX \in 1 .. STREAM_COUNT
  /\ MaxQueue \in Nat

NULL == "NULL"
ASSUME NullAssumption == NULL \notin Broadcasters /\ NULL \notin Syncs /\ NULL \notin Sinks

VARIABLES
  syncs,                   \* per PA sync object: its state and its broadcaster
  sinks,                   \* per broadcast sink: in use, its PA sync and broadcaster
  big,                     \* the BIG: its state, its sink and the BIS indexes synced
  paused, init_routine_completed,
  broadcast_sink,          \* the module's sink, or NULL
  pa_sync_stored,          \* the PA sync of that sink, or NULL
  bis_index_bitfield,      \* the BIS indexes to sync to
  sync_stream_cnt,
  broadcast_code_received, prev_broadcast_id,
  le_audio_chan,           \* messages the LE Audio thread has not taken
  bis_cleanup_work         \* the clean-up item is on the work queue

hostVars == <<syncs, sinks, big>>
stopVars == <<big, paused, sync_stream_cnt, le_audio_chan>>
codeVars == <<broadcast_code_received, prev_broadcast_id>>
sinkVars == <<paused, init_routine_completed, broadcast_sink, pa_sync_stored,
              bis_index_bitfield, sync_stream_cnt, codeVars, le_audio_chan, bis_cleanup_work>>

NoBig == [state |-> "none", sink |-> NULL, bises |-> {}]
Free  == [state |-> "free", source |-> NULL]
NoSink == [used |-> FALSE, pa_sync |-> NULL, source |-> NULL]

SinkInit ==
  /\ syncs = [s \in Syncs |-> Free]
  /\ sinks = [k \in Sinks |-> NoSink]
  /\ big = NoBig
  /\ paused = FALSE /\ init_routine_completed = FALSE
  /\ broadcast_sink = NULL /\ pa_sync_stored = NULL
  /\ bis_index_bitfield = {} /\ sync_stream_cnt = 0
  /\ broadcast_code_received = FALSE /\ prev_broadcast_id = NULL
  /\ le_audio_chan = << >> /\ bis_cleanup_work = FALSE

\* A message on le_audio_chan; only SYNC_LOST carries a PA sync.
Event(e)    == [event |-> e, pa_sync |-> NULL]
SyncLost(s) == [event |-> "SYNC_LOST", pa_sync |-> s]
Times(n, msg) == [i \in 1 .. n |-> msg]

-----------------------------------------------------------------------------
(* The streams of the BIG *)

\* Mutant: a stream that is being set up counts as active.
is_any_stream == big.state # "none"

is_any_active_streams == big.state = "streaming"
Streams == Cardinality(big.bises)

\* Mutant: no test for zero before the decrement.
CountedUnguarded == Streams

\* How many of the BIG's streams stream_stopped_cb() counts down; one that the
\* counter does not know of ends without a message.
Counted == IF Streams <= sync_stream_cnt THEN Streams ELSE sync_stream_cnt

\* The streams end for a reason that is announced as NOT_STREAMING.
StreamsStop ==
  /\ sync_stream_cnt' = sync_stream_cnt - Counted
  /\ le_audio_chan' = le_audio_chan \o Times(Counted, Event("NOT_STREAMING"))
  /\ big' = NoBig

\* stream_started_cb() for every stream: publish STREAMING, count it.
StreamStarted ==
  /\ big.state = "pending"
  /\ big' = [big EXCEPT !.state = "streaming"]
  /\ sync_stream_cnt' = sync_stream_cnt + Streams
  /\ le_audio_chan' = le_audio_chan \o Times(Streams, Event("STREAMING"))
  /\ UNCHANGED <<syncs, sinks, paused, init_routine_completed, broadcast_sink, pa_sync_stored,
                 bis_index_bitfield, codeVars, bis_cleanup_work>>

\* The source ends its broadcast.
StreamStoppedBySource ==
  /\ big.state = "streaming"
  /\ StreamsStop
  /\ UNCHANGED <<syncs, sinks, paused, init_routine_completed, broadcast_sink, pa_sync_stored,
                 bis_index_bitfield, codeVars, bis_cleanup_work>>

\* The streams are lost or never established: clean up, and the first message takes the
\* stored PA sync with it. A stream that was not established was not counted either.
StreamLost ==
  /\ big.state # "none"
  /\ sync_stream_cnt' = sync_stream_cnt - Counted
  /\ IF Counted > 0
     THEN /\ le_audio_chan' = Append(le_audio_chan, SyncLost(pa_sync_stored))
                                 \o Times(Counted - 1, SyncLost(NULL))
          /\ pa_sync_stored' = NULL /\ bis_cleanup_work' = TRUE
     ELSE UNCHANGED <<le_audio_chan, pa_sync_stored, bis_cleanup_work>>
  /\ big' = NoBig
  /\ UNCHANGED <<syncs, sinks, paused, init_routine_completed, broadcast_sink,
                 bis_index_bitfield, codeVars>>

\* Mutant: only announced ends are counted.
StreamStoppedUncounted ==
  /\ big.state = "streaming"
  /\ big' = NoBig
  /\ UNCHANGED <<syncs, sinks, sinkVars>>

\* MIC failure, and any other reason: counted, but nobody is told.
StreamStoppedSilently ==
  /\ big.state = "streaming"
  /\ sync_stream_cnt' = sync_stream_cnt - Counted
  /\ big' = NoBig
  /\ UNCHANGED <<syncs, sinks, paused, init_routine_completed, broadcast_sink, pa_sync_stored,
                 bis_index_bitfield, codeVars, le_audio_chan, bis_cleanup_work>>

-----------------------------------------------------------------------------
(* Start and stop *)

\* broadcast_sink_stop() returning ret. Only an active stream can be stopped; the sink
\* is paused before the host is asked, and stays so when the host refuses.
SinkStop(ret) ==
  \/ /\ ret = "already" /\ (paused \/ ~is_any_active_streams)
     /\ UNCHANGED stopVars
  \/ /\ ret = "ok" /\ ~paused /\ is_any_active_streams
     /\ big.sink = broadcast_sink
     /\ paused' = TRUE
     /\ StreamsStop
  \/ /\ ret = "failed" /\ ~paused /\ is_any_active_streams
     /\ paused' = TRUE
     /\ UNCHANGED <<big, sync_stream_cnt, le_audio_chan>>

StopResults == {"ok", "already", "failed"}

\* bt_bap_broadcast_sink_delete() refuses a sink whose BIG is syncing or streaming.
Deletable(k) == big.sink # k

\* broadcast_sink_cleanup()
Cleanup ==
  /\ init_routine_completed' = FALSE
  /\ IF broadcast_sink # NULL /\ Deletable(broadcast_sink)
     THEN sinks' = [sinks EXCEPT ![broadcast_sink] = NoSink] /\ broadcast_sink' = NULL
     ELSE UNCHANGED <<sinks, broadcast_sink>>

\* bis_cleanup_worker()
BisCleanupWork ==
  /\ bis_cleanup_work
  /\ bis_cleanup_work' = FALSE
  /\ Cleanup
  /\ UNCHANGED <<syncs, big, paused, pa_sync_stored, bis_index_bitfield, sync_stream_cnt,
                 codeVars, le_audio_chan>>

\* The sink that broadcast_sink_pa_sync_set() gets rid of before it creates one. A sink
\* that cannot be deleted is only forgotten: the new one takes its place.
Replaced == IF broadcast_sink # NULL /\ (is_any_active_streams \/ Deletable(broadcast_sink))
            THEN {broadcast_sink} ELSE {}

SinksAfterCleanup == [k \in Sinks |-> IF k \in Replaced THEN NoSink ELSE sinks[k]]

\* broadcast_sink_pa_sync_set(): "refused" before anything is cleaned up, "no_sink" after.
PaSyncSet(pa_sync, source, ret) ==
  \/ /\ ret = "refused" /\ (pa_sync = NULL \/ is_any_active_streams)
     /\ UNCHANGED <<big, sync_stream_cnt, le_audio_chan, init_routine_completed, sinks,
                    broadcast_sink, pa_sync_stored>>
  \/ /\ ret \in {"ok", "no_sink"} /\ pa_sync # NULL
     /\ IF is_any_active_streams
        THEN big.sink = broadcast_sink /\ StreamsStop
        ELSE UNCHANGED <<big, sync_stream_cnt, le_audio_chan>>
     /\ init_routine_completed' = (init_routine_completed /\ broadcast_sink = NULL)
     /\ IF ret = "ok"
        THEN \E k \in Sinks :
               /\ ~SinksAfterCleanup[k].used
               /\ sinks' = [SinksAfterCleanup EXCEPT
                              ![k] = [used |-> TRUE, pa_sync |-> pa_sync, source |-> source]]
               /\ broadcast_sink' = k
               /\ pa_sync_stored' = pa_sync
        ELSE /\ sinks' = SinksAfterCleanup
             /\ broadcast_sink' = IF Replaced = {} THEN broadcast_sink ELSE NULL
             /\ UNCHANGED pa_sync_stored

-----------------------------------------------------------------------------
(* The callbacks from the host, for the sink k *)

Receiving(k) == /\ sinks[k].used /\ sinks[k].pa_sync # NULL
                /\ syncs[sinks[k].pa_sync].state = "synced"

\* base_recv_cb(): BASE comes with every PA report; the bitfield only ever grows.
BaseRecv(k) ==
  /\ Receiving(k) /\ ~init_routine_completed
  /\ sync_stream_cnt' = 0
  /\ IF sinks[k].source \in Suitable
     THEN /\ bis_index_bitfield' =
               IF Cardinality(bis_index_bitfield) >= RX_STREAMS_MAX THEN bis_index_bitfield
               ELSE bis_index_bitfield \cup {LocationBis[sinks[k].source]}
          /\ UNCHANGED le_audio_chan
     ELSE /\ Len(le_audio_chan) < MaxQueue
          /\ le_audio_chan' = Append(le_audio_chan, Event("NO_VALID_CFG"))
          /\ UNCHANGED bis_index_bitfield
  /\ UNCHANGED <<hostVars, paused, init_routine_completed, broadcast_sink, pa_sync_stored,
                 codeVars, bis_cleanup_work>>

\* The source is encrypted and its code is not here.
AwaitsCode(k) == /\ ~broadcast_code_received
                 /\ sinks[k].source \in Encrypted
                 /\ sinks[k].source # prev_broadcast_id

\* syncable_cb() with the sink's BIGInfo. The code is used up even when the sync is refused.
Syncable(k) ==
  /\ Receiving(k)
  /\ ~paused /\ bis_index_bitfield # {} /\ ~AwaitsCode(k)
  /\ broadcast_code_received' = FALSE
  /\ \/ /\ big.state = "none" /\ broadcast_sink # NULL
        /\ big' = [state |-> "pending", sink |-> broadcast_sink, bises |-> bis_index_bitfield]
        /\ prev_broadcast_id' = sinks[k].source
        /\ init_routine_completed' = TRUE
     \/ UNCHANGED <<big, prev_broadcast_id, init_routine_completed>>
  /\ UNCHANGED <<syncs, sinks, paused, broadcast_sink, pa_sync_stored, bis_index_bitfield,
                 sync_stream_cnt, le_audio_chan, bis_cleanup_work>>

-----------------------------------------------------------------------------
(* bt_le_per_adv_sync_create() and _delete() *)

\* One PA sync is created at a time, and none with a source that another one is synced to.
\* Deleting a sync that is being created only cancels it.
Creatable(pool, source) ==
  \A s \in Syncs : /\ pool[s].state \notin {"pending", "cancelling"}
                   /\ pool[s].source # source

Dropped(s)      == [syncs EXCEPT ![s] = Free]
SinksWithout(s) == [k \in Sinks |-> IF sinks[k].pa_sync = s
                                    THEN [sinks[k] EXCEPT !.pa_sync = NULL] ELSE sinks[k]]

\* What a successful bt_le_per_adv_sync_delete() leaves.
Deleted(s) == CASE syncs[s].state = "synced"  -> Dropped(s)
                [] syncs[s].state = "pending" -> [syncs EXCEPT ![s].state = "cancelling"]
                [] OTHER                      -> syncs
SinksAfterDelete(s) == IF syncs[s].state = "synced" THEN SinksWithout(s) ELSE sinks

-----------------------------------------------------------------------------
(* Properties *)

SyncState == [state : {"free", "pending", "synced", "cancelling"},
              source : Broadcasters \cup {NULL}]

Message == [event : {"STREAMING", "NOT_STREAMING", "SYNC_LOST", "NO_VALID_CFG"},
            pa_sync : Syncs \cup {NULL}]

BisIndexes == {LocationBis[b] : b \in Broadcasters}

SinkTypeOK ==
  /\ syncs \in [Syncs -> SyncState]
  /\ sinks \in [Sinks -> [used : BOOLEAN, pa_sync : Syncs \cup {NULL},
                          source : Broadcasters \cup {NULL}]]
  /\ big \in [state : {"none", "pending", "streaming"}, sink : Sinks \cup {NULL},
              bises : SUBSET BisIndexes]
  /\ paused \in BOOLEAN /\ init_routine_completed \in BOOLEAN
  /\ broadcast_sink \in Sinks \cup {NULL} /\ pa_sync_stored \in Syncs \cup {NULL}
  /\ bis_index_bitfield \subseteq BisIndexes
  /\ sync_stream_cnt \in Nat
  /\ broadcast_code_received \in BOOLEAN /\ prev_broadcast_id \in Broadcasters \cup {NULL}
  /\ le_audio_chan \in Seq(Message) /\ bis_cleanup_work \in BOOLEAN

\* "The values of sync_stream_cnt ... must never become larger than the sizes of the arrays":
\* though BASE resets the counter and late callbacks lower it, it never counts a stream that
\* does not play, and no more play than there are stream objects.
StreamCountBounded ==
  /\ sync_stream_cnt <= IF is_any_active_streams THEN Streams ELSE 0
  /\ Streams <= STREAM_COUNT

\* A stream only starts while the sink is not paused: nothing that was on its way when the
\* user stopped the broadcast starts to play afterwards.
PausedMeansSilent == [][big.state = "pending" /\ big'.state = "streaming" => ~paused]_<<big, paused>>
=============================================================================
