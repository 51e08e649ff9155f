----------------------- MODULE AuracastReceiverProofs -----------------------
(* Theorems about AuracastReceiver, and the BroadcastSink below it, for every  *)
(* number of broadcasters, sync objects, sinks and streams: type correctness,  *)
(* the handle that the commands use, the stream counter, the paused sink, and  *)
(* the audio system that follows it.                                           *)
EXTENDS AuracastReceiver, FiniteSetTheorems, SequenceTheorems, TLAPS

SinksType == [Sinks -> [used : BOOLEAN, pa_sync : Syncs \cup {NULL},
                        source : Broadcasters \cup {NULL}]]

\* The streams. The counter is exact enough because a BIG that is being set up has
\* none counted; the bitfield that it is set up with never outgrows the streams; and
\* only an active stream can be paused, so a pending one never is.
StreamInv ==
  /\ big \in [state : {"none", "pending", "streaming"}, sink : Sinks \cup {NULL},
              bises : SUBSET BisIndexes]
  /\ paused \in BOOLEAN
  /\ bis_index_bitfield \subseteq BisIndexes
  /\ IsFiniteSet(bis_index_bitfield) /\ Cardinality(bis_index_bitfield) <= RX_STREAMS_MAX
  /\ IsFiniteSet(big.bises) /\ Streams <= RX_STREAMS_MAX
  /\ sync_stream_cnt \in Nat
  /\ sync_stream_cnt <= IF is_any_active_streams THEN Streams ELSE 0
  /\ le_audio_chan \in Seq(Message)
  /\ big.state = "pending" => ~paused

\* The pools of the host, and what the modules remember of them.
PoolInv ==
  /\ syncs \in [Syncs -> SyncState] /\ sinks \in SinksType
  /\ pa_sync_handle \in Syncs \cup {NULL} /\ pa_sync_source \in Broadcasters \cup {NULL}
  /\ pa_sync_stored \in Syncs \cup {NULL} /\ broadcast_sink \in Sinks \cup {NULL}
  /\ prev_broadcast_id \in Broadcasters \cup {NULL}
  /\ le_msg \in Message
  /\ HandleIsLive

\* The flags: those with values of their own, those of commands, of the sink and of links.
FlagSets == /\ receiver_state \subseteq {SEARCHING, PA_SYNCED, BIS_SYNCED}
            /\ strm_state \in {"PAUSED", "STREAMING"}
            /\ bt_mgmt_chan \in Seq({"CONNECTED", "DISCONNECTED"})
            /\ bis_answer \in {"none", "success", "fail"}
CommandBits == /\ pa_data_notify_enabled \in BOOLEAN /\ pa_data_received_once \in BOOLEAN
               /\ command_busy \in BOOLEAN
               /\ bis_sync_work \in BOOLEAN /\ bis_sync_has_code \in BOOLEAN
SinkBits == /\ init_routine_completed \in BOOLEAN /\ broadcast_code_received \in BOOLEAN
            /\ bis_cleanup_work \in BOOLEAN
LinkBits == audio_on \in BOOLEAN /\ link \in BOOLEAN /\ current_conn \in BOOLEAN
FlagInv == FlagSets /\ CommandBits /\ SinkBits /\ LinkBits

IInv == StreamInv /\ PoolInv /\ FlagInv

-----------------------------------------------------------------------------
(* The streams *)

LEMMA StreamsAreNatural ==
  ASSUME StreamInv
  PROVE  /\ Streams \in Nat /\ Counted \in Nat
         /\ sync_stream_cnt - Counted = 0
<1>1. Streams \in Nat
  BY FS_CardinalityType DEF StreamInv, Streams
<1> QED BY <1>1 DEF StreamInv, Counted

LEMMA NoBigType ==
  /\ NoBig \in [state : {"none", "pending", "streaming"}, sink : Sinks \cup {NULL},
                bises : SUBSET BisIndexes]
  /\ NoBig.state = "none" /\ NoBig.bises = {}
  /\ IsFiniteSet({}) /\ Cardinality({}) = 0
  BY FS_EmptySet DEF NoBig

LEMMA MessageType ==
  /\ \A e \in {"STREAMING", "NOT_STREAMING", "SYNC_LOST", "NO_VALID_CFG"} : Event(e) \in Message
  /\ \A s \in Syncs \cup {NULL} : SyncLost(s) \in Message
  /\ \A n \in Nat : \A m \in Message : Times(n, m) \in Seq(Message)
  BY DEF Event, SyncLost, Message, Times

\* The BIG is gone, and the counter with it.
LEMMA BigGone ==
  ASSUME StreamInv, big' = NoBig, sync_stream_cnt' = 0, paused' \in BOOLEAN,
         le_audio_chan' \in Seq(Message), UNCHANGED bis_index_bitfield
  PROVE  StreamInv'
<1>1. Streams' = 0 /\ IsFiniteSet(big'.bises) /\ big'.state = "none"
  BY NoBigType DEF Streams
<1>2. ~is_any_active_streams'
  BY <1>1 DEF is_any_active_streams
<1> QED BY <1>1, <1>2, NoBigType, SinkAssumption DEF StreamInv

\* The streams that stop are announced and counted down.
LEMMA StreamsStopType ==
  ASSUME StreamInv, StreamsStop
  PROVE  big' = NoBig /\ sync_stream_cnt' = 0 /\ le_audio_chan' \in Seq(Message)
<1>1. Times(Counted, Event("NOT_STREAMING")) \in Seq(Message)
  BY StreamsAreNatural, MessageType
<1> QED BY <1>1, StreamsAreNatural, ConcatProperties DEF StreamsStop, StreamInv

LEMMA SinkStopInv ==
  ASSUME StreamInv, UNCHANGED bis_index_bitfield, NEW ret \in StopResults, SinkStop(ret)
  PROVE  StreamInv'
<1>1. CASE UNCHANGED stopVars
  BY <1>1 DEF stopVars, StreamInv, Streams, is_any_active_streams
<1>2. CASE StreamsStop /\ paused' = TRUE
  BY <1>2, StreamsStopType, BigGone
<1>3. CASE is_any_active_streams /\ paused' = TRUE /\ UNCHANGED <<big, sync_stream_cnt, le_audio_chan>>
  <2>1. big'.state # "pending" /\ paused' \in BOOLEAN
    BY <1>3 DEF is_any_active_streams
  <2> QED BY <1>3, <2>1 DEF StreamInv, Streams, is_any_active_streams
<1> QED BY <1>1, <1>2, <1>3 DEF SinkStop, StopResults

LEMMA StopIfBisSyncedInv ==
  ASSUME StreamInv, UNCHANGED bis_index_bitfield, StopIfBisSynced PROVE StreamInv'
<1>1. CASE UNCHANGED stopVars
  BY <1>1 DEF stopVars, StreamInv, Streams, is_any_active_streams
<1>2. CASE \E ret \in StopResults : SinkStop(ret)
  BY <1>2, SinkStopInv
<1> QED BY <1>1, <1>2 DEF StopIfBisSynced

LEMMA StreamUnchanged ==
  ASSUME StreamInv, UNCHANGED <<stopVars, bis_index_bitfield>> PROVE StreamInv'
  BY DEF stopVars, StreamInv, Streams, is_any_active_streams

LEMMA StreamOfDelete ==
  ASSUME StreamInv, UNCHANGED bis_index_bitfield, NEW s, NEW ret, DeletePaSync(s, ret)
  PROVE  StreamInv'
<1>1. CASE NoCallback
  BY <1>1, StreamUnchanged DEF NoCallback
<1>2. CASE PaSyncTermCb
  BY <1>2, StopIfBisSyncedInv DEF PaSyncTermCb
<1> QED BY <1>1, <1>2 DEF DeletePaSync

LEMMA StreamOfStarted ==
  ASSUME StreamInv, StreamStarted PROVE StreamInv'
<1>1. /\ big' = [big EXCEPT !.state = "streaming"] /\ big.state = "pending"
      /\ sync_stream_cnt' = sync_stream_cnt + Streams
      /\ le_audio_chan' = le_audio_chan \o Times(Streams, Event("STREAMING"))
      /\ UNCHANGED <<paused, bis_index_bitfield>>
  BY DEF StreamStarted
<1>2. /\ big' \in [state : {"none", "pending", "streaming"}, sink : Sinks \cup {NULL},
                   bises : SUBSET BisIndexes]
      /\ big'.state = "streaming" /\ big'.bises = big.bises
  BY <1>1 DEF StreamInv
<1>3. Streams' = Streams /\ is_any_active_streams' /\ ~is_any_active_streams
  BY <1>1, <1>2 DEF Streams, is_any_active_streams
<1>4. sync_stream_cnt = 0 /\ sync_stream_cnt' = Streams /\ Streams \in Nat
  BY <1>1, <1>3, StreamsAreNatural DEF StreamInv
<1>5. le_audio_chan' \in Seq(Message)
  BY <1>1, <1>4, MessageType, ConcatProperties DEF StreamInv
<1> QED BY <1>1, <1>2, <1>3, <1>4, <1>5 DEF StreamInv

LEMMA StreamOfEnds ==
  ASSUME StreamInv, PoolInv, StreamEnds PROVE StreamInv'
<1>1. CASE StreamStoppedBySource
  BY <1>1, StreamsStopType, BigGone DEF StreamStoppedBySource, StreamInv
<1>2. CASE StreamStoppedSilently
  BY <1>2, StreamsAreNatural, BigGone DEF StreamStoppedSilently, StreamInv
<1>3. CASE StreamLost
  <2>1. le_audio_chan' \in Seq(Message)
    <3>1. CASE Counted > 0
      <4>1. /\ SyncLost(pa_sync_stored) \in Message
            /\ Times(Counted - 1, SyncLost(NULL)) \in Seq(Message)
        <5>1. Counted - 1 \in Nat
          BY <3>1, StreamsAreNatural
        <5>2. pa_sync_stored \in Syncs \cup {NULL} /\ NULL \in Syncs \cup {NULL}
          BY DEF PoolInv
        <5>3. SyncLost(pa_sync_stored) \in Message /\ SyncLost(NULL) \in Message
          BY <5>2, MessageType
        <5> QED BY <5>1, <5>3, MessageType
      <4>2. Append(le_audio_chan, SyncLost(pa_sync_stored)) \in Seq(Message)
        BY <4>1, AppendProperties DEF StreamInv
      <4>3. le_audio_chan' = Append(le_audio_chan, SyncLost(pa_sync_stored))
                                \o Times(Counted - 1, SyncLost(NULL))
        BY <1>3, <3>1 DEF StreamLost
      <4> QED BY <4>1, <4>2, <4>3, ConcatProperties
    <3>2. CASE ~(Counted > 0)
      BY <1>3, <3>2 DEF StreamLost, StreamInv
    <3> QED BY <3>1, <3>2
  <2>2. big' = NoBig /\ sync_stream_cnt' = 0 /\ UNCHANGED <<paused, bis_index_bitfield>>
    BY <1>3, StreamsAreNatural DEF StreamLost
  <2> QED BY <2>1, <2>2, BigGone DEF StreamInv
<1> QED BY <1>1, <1>2, <1>3 DEF StreamEnds

LEMMA StreamOfBase ==
  ASSUME StreamInv, PoolInv, NEW k \in Sinks, BaseRecv(k) PROVE StreamInv'
<1>1. UNCHANGED <<big, paused>> /\ sync_stream_cnt' = 0
  BY DEF BaseRecv, hostVars
<1>2. Streams' = Streams /\ Streams \in Nat /\ is_any_active_streams' = is_any_active_streams
  BY <1>1, StreamsAreNatural DEF Streams, is_any_active_streams
<1>3. le_audio_chan' \in Seq(Message)
  <2>1. Event("NO_VALID_CFG") \in Message
    BY MessageType
  <2>2. Append(le_audio_chan, Event("NO_VALID_CFG")) \in Seq(Message)
    BY <2>1, AppendProperties DEF StreamInv
  <2> QED BY <2>2 DEF BaseRecv, StreamInv
<1>4. /\ bis_index_bitfield' \subseteq BisIndexes /\ IsFiniteSet(bis_index_bitfield')
      /\ Cardinality(bis_index_bitfield') <= RX_STREAMS_MAX
  <2>1. CASE UNCHANGED bis_index_bitfield
    BY <2>1 DEF StreamInv
  <2>2. CASE bis_index_bitfield' # bis_index_bitfield
    <3> DEFINE i == LocationBis[sinks[k].source]
    <3>1. /\ sinks[k].source \in Suitable
          /\ ~(Cardinality(bis_index_bitfield) >= RX_STREAMS_MAX)
          /\ bis_index_bitfield' = bis_index_bitfield \cup {i}
      BY <2>2 DEF BaseRecv
    <3>2. i \in BisIndexes
      BY <3>1, SinkAssumption DEF BisIndexes
    <3>3. IsFiniteSet(bis_index_bitfield) /\ Cardinality(bis_index_bitfield) \in Nat
      BY FS_CardinalityType DEF StreamInv
    <3>4. /\ IsFiniteSet(bis_index_bitfield \cup {i})
          /\ \/ Cardinality(bis_index_bitfield \cup {i}) = Cardinality(bis_index_bitfield)
             \/ Cardinality(bis_index_bitfield \cup {i}) = Cardinality(bis_index_bitfield) + 1
      BY <3>3, FS_AddElement
    <3>5. RX_STREAMS_MAX \in Nat
      BY SinkAssumption
    <3> QED BY <3>1, <3>2, <3>3, <3>4, <3>5 DEF StreamInv
  <2> QED BY <2>1, <2>2
<1> QED BY <1>1, <1>2, <1>3, <1>4 DEF StreamInv

LEMMA StreamOfSyncable ==
  ASSUME StreamInv, PoolInv, NEW k \in Sinks, Syncable(k) PROVE StreamInv'
<1>1. /\ ~paused /\ paused' = paused
      /\ UNCHANGED <<bis_index_bitfield, sync_stream_cnt, le_audio_chan>>
  BY Zenon DEF Syncable
<1>2. CASE big' = big
  <2>1. UNCHANGED <<stopVars, bis_index_bitfield>>
    BY <1>1, <1>2, Zenon DEF stopVars
  <2> QED BY <2>1, StreamUnchanged
<1>3. CASE big' # big
  <2>1. /\ big.state = "none"
        /\ big' = [state |-> "pending", sink |-> broadcast_sink, bises |-> bis_index_bitfield]
    BY <1>3 DEF Syncable
  <2>2. ~is_any_active_streams /\ ~is_any_active_streams' /\ Streams' = Cardinality(bis_index_bitfield)
    BY <2>1 DEF is_any_active_streams, Streams
  <2>3. big' \in [state : {"none", "pending", "streaming"}, sink : Sinks \cup {NULL},
                  bises : SUBSET BisIndexes]
    BY <2>1 DEF StreamInv, PoolInv
  <2>4. IsFiniteSet(big'.bises)
    BY <2>1 DEF StreamInv
  <2>5. paused' \in BOOLEAN /\ (big'.state = "pending" => ~paused')
    BY <1>1, Zenon DEF StreamInv
  <2> QED BY <1>1, <2>2, <2>3, <2>4, <2>5 DEF StreamInv
<1> QED BY <1>2, <1>3

\* broadcast_sink_pa_sync_set() stops what plays; broadcast_sink_start() resumes.
LEMMA StreamOfBisSyncWork ==
  ASSUME StreamInv, BisSyncWork PROVE StreamInv'
<1>1. bis_index_bitfield' = bis_index_bitfield
  BY DEF BisSyncWork
<1>2. paused' \in BOOLEAN /\ (paused' => paused)
  BY Zenon DEF BisSyncWork, StreamInv
<1>3. CASE StreamsStop
  BY <1>1, <1>2, <1>3, StreamsStopType, BigGone
<1>4. CASE UNCHANGED <<big, sync_stream_cnt, le_audio_chan>>
  <2>1. Streams' = Streams /\ is_any_active_streams' = is_any_active_streams
    BY <1>4 DEF Streams, is_any_active_streams
  <2>2. big'.state = "pending" => ~paused'
    BY <1>2, <1>4, Zenon DEF StreamInv
  <2> QED BY <1>1, <1>2, <1>4, <2>1, <2>2 DEF StreamInv
<1> QED BY <1>3, <1>4 DEF BisSyncWork, PaSyncSet

LEMMA StreamStep ==
  ASSUME IInv, [Next]_vars PROVE StreamInv'
<1> USE DEF IInv, hostVars, sinkVars, codeVars, dataVars, workVars, leVars, linkVars, paVars,
        mainVars
<1>1. CASE PaCallback
  BY <1>1, StopIfBisSyncedInv, StreamUnchanged
     DEF PaCallback, PaSynced, PaSyncTerm, PaReport, PaSyncTermCb, stopVars
<1>2. CASE AppCommand
  <2>1. CASE \/ SearchStart \/ SearchStop \/ (\E has_code \in BOOLEAN : BisSyncStart(has_code))
             \/ (\E on \in BOOLEAN : PaDataNtf(on))
    BY <2>1, StreamUnchanged DEF SearchStart, SearchStop, BisSyncStart, PaDataNtf, stopVars
  <2>2. ASSUME NEW source \in Broadcasters, PaSyncStart(source) PROVE StreamInv'
    BY <2>2, StopIfBisSyncedInv, StreamUnchanged DEF PaSyncStart
  <2>3. CASE PaSyncRelease
    BY <2>3, StopIfBisSyncedInv DEF PaSyncRelease
  <2>4. CASE BisSyncStop
    BY <2>4, SinkStopInv DEF BisSyncStop, StopResults
  <2> QED BY <1>2, <2>1, <2>2, <2>3, <2>4 DEF AppCommand
<1>3. CASE SinkCallback
  BY <1>3, StreamOfBase, StreamOfSyncable, StreamOfStarted, StreamOfEnds
     DEF SinkCallback, OfSink
<1>4. CASE Workq
  BY <1>4, StreamOfBisSyncWork, StreamUnchanged DEF Workq, OfSink, BisCleanupWork, stopVars
<1>5. CASE LeAudioThread
  <2>1. CASE LeAudioTake
    <3>1. le_audio_chan' \in Seq(Message)
      BY <2>1, HeadTailProperties DEF LeAudioTake, StreamInv
    <3> QED BY <2>1, <3>1 DEF LeAudioTake, StreamInv, Streams, is_any_active_streams
  <2>2. CASE LeSyncLost \/ LeDisable
    BY <2>2, StreamOfDelete, StreamUnchanged DEF LeSyncLost, LeDisable, NoCallback
  <2>3. CASE LeDisableStop
    <3>1. paused' = paused /\ bis_index_bitfield' = bis_index_bitfield /\ paused \in BOOLEAN
      BY <2>3 DEF LeDisableStop, StreamInv
    <3> QED BY <2>3, <3>1, StreamsStopType, BigGone, StreamUnchanged DEF LeDisableStop, stopVars
  <2>4. CASE \/ LeStreamingStart \/ LeStreamingReport \/ LePause \/ LeAudioStop
             \/ LeLostReport \/ LeLostClear \/ LeCleanup
    BY <2>4, StreamUnchanged DEF LeStreamingStart, LeStreamingReport, LePause, LeAudioStop,
       LeLostReport, LeLostClear, LeCleanup, stopVars
  <2> QED BY <1>5, <2>1, <2>2, <2>3, <2>4 DEF LeAudioThread
<1>6. CASE BtMgmtThread \/ LinkChange \/ UNCHANGED vars
  BY <1>6, StreamUnchanged DEF BtMgmtThread, LinkChange, vars, stopVars
<1> QED BY <1>1, <1>2, <1>3, <1>4, <1>5, <1>6 DEF Next
-----------------------------------------------------------------------------
(* The pools *)

\* What deleting a sync leaves: only an established one becomes free.
LEMMA PoolTypes ==
  ASSUME PoolInv, NEW s \in Syncs
  PROVE  /\ Dropped(s) \in [Syncs -> SyncState] /\ SinksWithout(s) \in SinksType
         /\ Deleted(s) \in [Syncs -> SyncState] /\ SinksAfterDelete(s) \in SinksType
         /\ syncs[s].state # "synced" =>
              \A t \in Syncs : syncs[t].state # "free" => Deleted(s)[t].state # "free"
<1>1. Free \in SyncState
  BY DEF Free, SyncState
<1>2. syncs \in [Syncs -> SyncState] /\ sinks \in SinksType
  BY DEF PoolInv
<1>3. Dropped(s) \in [Syncs -> SyncState]
  BY <1>1, <1>2 DEF Dropped
<1>4. SinksWithout(s) \in SinksType
  <2> SUFFICES ASSUME NEW k \in Sinks
               PROVE  (IF sinks[k].pa_sync = s THEN [sinks[k] EXCEPT !.pa_sync = NULL] ELSE sinks[k])
                        \in [used : BOOLEAN, pa_sync : Syncs \cup {NULL},
                             source : Broadcasters \cup {NULL}]
    BY DEF SinksWithout, SinksType
  <2> QED BY <1>2 DEF SinksType
<1>5. [syncs EXCEPT ![s].state = "cancelling"] \in [Syncs -> SyncState]
  BY <1>2 DEF SyncState
<1>6. Deleted(s) \in [Syncs -> SyncState] /\ SinksAfterDelete(s) \in SinksType
  BY <1>2, <1>3, <1>4, <1>5 DEF Deleted, SinksAfterDelete
<1>7. ASSUME syncs[s].state # "synced", NEW t \in Syncs, syncs[t].state # "free"
      PROVE  Deleted(s)[t].state # "free"
  <2>1. CASE syncs[s].state = "pending"
    BY <1>2, <1>7, <2>1 DEF Deleted, SyncState
  <2>2. CASE syncs[s].state # "pending"
    BY <1>7, <2>2 DEF Deleted
  <2> QED BY <2>1, <2>2
<1> QED BY <1>3, <1>4, <1>6, <1>7

LEMMA PoolUnchanged ==
  ASSUME PoolInv, UNCHANGED <<syncs, sinks, pa_sync_handle, pa_sync_source, pa_sync_stored,
                              broadcast_sink, prev_broadcast_id, le_msg>>
  PROVE  PoolInv'
  BY DEF PoolInv, HandleIsLive

\* bt_le_per_adv_sync_delete(): whoever frees a sync runs pa_sync_term_cb(), which
\* forgets the handle whichever sync it names.
LEMMA PoolOfDelete ==
  ASSUME PoolInv, NEW s \in Syncs, NEW ret, DeletePaSync(s, ret),
         UNCHANGED <<pa_sync_source, pa_sync_stored, broadcast_sink, prev_broadcast_id, le_msg>>
  PROVE  PoolInv'
<1>1. CASE ret = 0 /\ syncs[s].state = "synced"
  BY <1>1, PoolTypes DEF DeletePaSync, PaSyncTermCb, PoolInv, HandleIsLive
<1>2. CASE ret = 0 /\ syncs[s].state # "synced"
  <2>1. /\ syncs' = Deleted(s) /\ sinks' = SinksAfterDelete(s)
        /\ pa_sync_handle' = pa_sync_handle
    BY <1>2 DEF DeletePaSync, NoCallback, paVars
  <2> QED BY <1>2, <2>1, PoolTypes DEF PoolInv, HandleIsLive
<1>3. CASE ret # 0
  BY <1>3, PoolUnchanged DEF DeletePaSync, NoCallback, paVars
<1> QED BY <1>1, <1>2, <1>3

LEMMA PoolOfCleanup ==
  ASSUME PoolInv, Cleanup,
         UNCHANGED <<syncs, pa_sync_handle, pa_sync_source, pa_sync_stored, prev_broadcast_id,
                     le_msg>>
  PROVE  PoolInv'
<1>1. NoSink \in [used : BOOLEAN, pa_sync : Syncs \cup {NULL}, source : Broadcasters \cup {NULL}]
  BY DEF NoSink
<1>2. sinks' \in SinksType /\ broadcast_sink' \in Sinks \cup {NULL}
  BY <1>1 DEF Cleanup, PoolInv, SinksType
<1> QED BY <1>2 DEF PoolInv, HandleIsLive

\* handle_pa_sync_start_req() ends with a handle of a sync being created, or none.
LEMMA PoolOfStart ==
  ASSUME IInv, NEW source \in Broadcasters, PaSyncStart(source) PROVE PoolInv'
<1> USE DEF codeVars, leVars
<1>1. PICK deleted \in (IF pa_sync_handle = NULL THEN {FALSE} ELSE BOOLEAN) :
        LET pool == IF deleted THEN Deleted(pa_sync_handle) ELSE syncs
        IN  /\ sinks' = IF deleted THEN SinksAfterDelete(pa_sync_handle) ELSE sinks
            /\ \/ \E s \in Syncs :
                    /\ syncs' = [pool EXCEPT ![s] = [state |-> "pending", source |-> source]]
                    /\ pa_sync_handle' = s /\ pa_sync_source' = source
               \/ /\ syncs' = pool /\ pa_sync_handle' = NULL
                  /\ UNCHANGED pa_sync_source
  BY Zenon DEF PaSyncStart
<1> DEFINE pool == IF deleted THEN Deleted(pa_sync_handle) ELSE syncs
<1>2. UNCHANGED <<pa_sync_stored, broadcast_sink, prev_broadcast_id, le_msg>>
  BY DEF PaSyncStart
<1>3. deleted => pa_sync_handle \in Syncs
  BY <1>1, NullAssumption DEF IInv, PoolInv
<1>4. pool \in [Syncs -> SyncState] /\ sinks' \in SinksType
  BY <1>1, <1>3, PoolTypes DEF IInv, PoolInv
<1> HIDE DEF pool
<1>5. CASE \E s \in Syncs :
             /\ syncs' = [pool EXCEPT ![s] = [state |-> "pending", source |-> source]]
             /\ pa_sync_handle' = s /\ pa_sync_source' = source
  <2>1. PICK s \in Syncs :
             /\ syncs' = [pool EXCEPT ![s] = [state |-> "pending", source |-> source]]
             /\ pa_sync_handle' = s /\ pa_sync_source' = source
    BY <1>5
  <2>2. [state |-> "pending", source |-> source] \in SyncState
    BY DEF SyncState
  <2>3. syncs' \in [Syncs -> SyncState] /\ syncs'[s].state = "pending"
    BY <1>4, <2>1, <2>2
  <2> QED BY <1>2, <1>4, <2>1, <2>3 DEF IInv, PoolInv, HandleIsLive
<1>6. CASE syncs' = pool /\ pa_sync_handle' = NULL /\ UNCHANGED pa_sync_source
  BY <1>2, <1>4, <1>6 DEF IInv, PoolInv, HandleIsLive
<1> QED BY <1>1, <1>5, <1>6 DEF pool

LEMMA PoolOfBisSyncWork ==
  ASSUME PoolInv, BisSyncWork PROVE PoolInv'
<1> USE DEF codeVars, leVars
<1>1. PICK ret \in {"ok", "refused", "no_sink"} : PaSyncSet(pa_sync_handle, pa_sync_source, ret)
  BY DEF BisSyncWork
<1>2. UNCHANGED <<syncs, pa_sync_handle, pa_sync_source, prev_broadcast_id, le_msg>>
  BY DEF BisSyncWork
<1>3. /\ NoSink \in [used : BOOLEAN, pa_sync : Syncs \cup {NULL}, source : Broadcasters \cup {NULL}]
      /\ SinksAfterCleanup \in SinksType
  BY DEF NoSink, SinksAfterCleanup, SinksType, PoolInv
<1>4. CASE ret = "refused"
  BY <1>1, <1>2, <1>4, PoolUnchanged DEF PaSyncSet
<1>5. CASE ret = "ok"
  <2>1. PICK k \in Sinks :
          /\ sinks' = [SinksAfterCleanup EXCEPT
                         ![k] = [used |-> TRUE, pa_sync |-> pa_sync_handle, source |-> pa_sync_source]]
          /\ broadcast_sink' = k /\ pa_sync_stored' = pa_sync_handle
    BY <1>1, <1>5 DEF PaSyncSet
  <2>2. [used |-> TRUE, pa_sync |-> pa_sync_handle, source |-> pa_sync_source] \in
          [used : BOOLEAN, pa_sync : Syncs \cup {NULL}, source : Broadcasters \cup {NULL}]
    BY DEF PoolInv
  <2>3. sinks' \in SinksType
    BY <1>3, <2>1, <2>2 DEF SinksType
  <2> QED BY <1>2, <2>1, <2>3 DEF PoolInv, HandleIsLive
<1>6. CASE ret = "no_sink"
  BY <1>1, <1>2, <1>3, <1>6 DEF PaSyncSet, PoolInv, HandleIsLive
<1> QED BY <1>4, <1>5, <1>6

LEMMA PoolStep ==
  ASSUME IInv, [Next]_vars PROVE PoolInv'
<1> USE DEF hostVars, sinkVars, codeVars, dataVars, workVars, leVars, linkVars, paVars, mainVars
<1>1. PoolInv
  BY DEF IInv
<1>2. CASE PaCallback
  <2>1. PICK s \in Syncs : PaSynced(s) \/ PaSyncTerm(s) \/ PaReport(s)
    BY <1>2 DEF PaCallback
  <2>2. CASE PaSynced(s)
    <3>1. syncs' \in [Syncs -> SyncState] /\ syncs'[s].state = "synced"
      BY <1>1, <2>2 DEF PaSynced, PoolInv, SyncState
    <3> QED BY <1>1, <2>2, <3>1 DEF PaSynced, PoolInv, HandleIsLive
  <2>3. CASE PaSyncTerm(s)
    BY <1>1, <2>3, PoolTypes DEF PaSyncTerm, PaSyncTermCb, PoolInv, HandleIsLive
  <2>4. CASE PaReport(s)
    BY <1>1, <2>4, PoolUnchanged DEF PaReport
  <2> QED BY <2>1, <2>2, <2>3, <2>4
<1>3. CASE AppCommand
  <2>1. CASE \/ SearchStart \/ SearchStop \/ (\E has_code \in BOOLEAN : BisSyncStart(has_code))
             \/ BisSyncStop \/ (\E on \in BOOLEAN : PaDataNtf(on))
    BY <1>1, <2>1, PoolUnchanged DEF SearchStart, SearchStop, BisSyncStart, BisSyncStop, PaDataNtf
  <2>2. CASE PaSyncRelease
    <3>1. pa_sync_handle \in Syncs
      BY <1>1, <2>2 DEF PaSyncRelease, PoolInv
    <3>2. CASE syncs' = Deleted(pa_sync_handle)
      BY <1>1, <2>2, <3>1, <3>2, PoolTypes DEF PaSyncRelease, PoolInv, HandleIsLive
    <3>3. CASE UNCHANGED <<syncs, sinks, pa_sync_handle>>
      BY <1>1, <2>2, <3>3, PoolUnchanged DEF PaSyncRelease
    <3> QED BY <2>2, <3>2, <3>3, <3>1, <1>1, PoolTypes
            DEF PaSyncRelease, PoolInv, HandleIsLive
  <2> QED BY <1>3, <2>1, <2>2, PoolOfStart DEF AppCommand
<1>4. CASE SinkCallback
  <2>1. ASSUME NEW k \in Sinks, Syncable(k), UNCHANGED <<pa_sync_handle, pa_sync_source, le_msg>>
        PROVE  PoolInv'
    <3>1. sinks[k].source \in Broadcasters \cup {NULL}
      BY <1>1 DEF PoolInv, SinksType
    <3> QED BY <1>1, <2>1, <3>1 DEF Syncable, PoolInv, HandleIsLive
  <2>2. ASSUME StreamEnds, UNCHANGED <<pa_sync_handle, pa_sync_source, le_msg>>
        PROVE  PoolInv'
    <3>1. /\ UNCHANGED <<syncs, sinks, broadcast_sink, prev_broadcast_id>>
          /\ pa_sync_stored' \in {pa_sync_stored, NULL}
      BY <2>2 DEF StreamEnds, StreamStoppedBySource, StreamLost, StreamStoppedSilently
    <3> QED BY <1>1, <2>2, <3>1 DEF PoolInv, HandleIsLive
  <2>3. ASSUME NEW k \in Sinks, BaseRecv(k), UNCHANGED <<pa_sync_handle, pa_sync_source, le_msg>>
        PROVE  PoolInv'
    BY <1>1, <2>3, PoolUnchanged DEF BaseRecv
  <2>4. ASSUME StreamStarted, UNCHANGED <<pa_sync_handle, pa_sync_source, le_msg>>
        PROVE  PoolInv'
    BY <1>1, <2>4, PoolUnchanged DEF StreamStarted
  <2> QED BY <1>4, <2>1, <2>2, <2>3, <2>4 DEF SinkCallback, OfSink
<1>5. CASE Workq
  BY <1>1, <1>5, PoolOfBisSyncWork, PoolOfCleanup DEF Workq, OfSink, BisCleanupWork
<1>6. CASE LeAudioThread
  <2>1. CASE LeAudioTake
    <3>1. le_msg' \in Message
      BY <2>1, HeadTailProperties DEF LeAudioTake, IInv, StreamInv
    <3> QED BY <1>1, <2>1, <3>1 DEF LeAudioTake, PoolInv, HandleIsLive
  <2>2. CASE LeSyncLost
    <3>1. le_msg.pa_sync \in Syncs \cup {NULL}
      BY <1>1 DEF PoolInv, Message
    <3>2. CASE le_msg.pa_sync = NULL
      BY <1>1, <2>2, <3>2, PoolUnchanged DEF LeSyncLost, NoCallback
    <3>3. CASE le_msg.pa_sync # NULL
      BY <1>1, <2>2, <3>1, <3>3, PoolOfDelete DEF LeSyncLost
    <3> QED BY <3>2, <3>3
  <2>3. CASE LeDisable
    <3>1. CASE pa_sync_stored = NULL
      BY <1>1, <2>3, <3>1, PoolUnchanged DEF LeDisable, NoCallback
    <3>2. CASE pa_sync_stored # NULL
      <4>1. pa_sync_stored \in Syncs
        BY <1>1, <3>2 DEF PoolInv
      <4> QED BY <1>1, <2>3, <3>2, <4>1, PoolOfDelete DEF LeDisable
    <3> QED BY <3>1, <3>2
  <2>4. CASE LeCleanup
    BY <1>1, <2>4, PoolOfCleanup DEF LeCleanup
  <2>5. CASE LeLostClear
    BY <1>1, <2>5 DEF LeLostClear, PoolInv, HandleIsLive
  <2>6. CASE \/ LeStreamingStart \/ LeStreamingReport \/ LePause \/ LeAudioStop
             \/ LeLostReport \/ LeDisableStop
    BY <1>1, <2>6, PoolUnchanged DEF LeStreamingStart, LeStreamingReport, LePause, LeAudioStop,
       LeLostReport, LeDisableStop
  <2> QED BY <1>6, <2>1, <2>2, <2>3, <2>4, <2>5, <2>6 DEF LeAudioThread
<1>7. CASE BtMgmtThread \/ LinkChange \/ UNCHANGED vars
  BY <1>1, <1>7, PoolUnchanged DEF BtMgmtThread, LinkChange, vars
<1> QED BY <1>2, <1>3, <1>4, <1>5, <1>6, <1>7 DEF Next
-----------------------------------------------------------------------------
(* The flags *)

LEMMA FlagOfCommand ==
  ASSUME FlagInv, AppCommand PROVE FlagInv'
<1> USE DEF codeVars, dataVars, workVars, leVars, linkVars, paVars
<1>1. receiver_state' \subseteq {SEARCHING, PA_SYNCED, BIS_SYNCED}
  BY DEF AppCommand, FlagInv, FlagSets, CommandBits, SinkBits, LinkBits, SearchStart, SearchStop, PaSyncStart, PaSyncRelease,
     BisSyncStart, BisSyncStop, PaDataNtf
<1>2. UNCHANGED <<link, current_conn, init_routine_completed, broadcast_code_received,
                  bis_cleanup_work, bt_mgmt_chan>>
  BY DEF AppCommand, SearchStart, SearchStop, PaSyncStart, PaSyncRelease,
     BisSyncStart, BisSyncStop, PaDataNtf, sinkVars
<1>3. strm_state' \in {"PAUSED", "STREAMING"} /\ bis_answer' \in {"none", "success", "fail"}
  BY DEF AppCommand, FlagInv, FlagSets, CommandBits, SinkBits, LinkBits, SearchStart, SearchStop, PaSyncStart, PaSyncRelease,
     BisSyncStart, BisSyncStop, PaDataNtf
<1>4. pa_data_notify_enabled' \in BOOLEAN
  BY Zenon DEF AppCommand, FlagInv, FlagSets, CommandBits, SinkBits, LinkBits, SearchStart, SearchStop, PaSyncStart, PaSyncRelease,
     BisSyncStart, BisSyncStop, PaDataNtf
<1>5. pa_data_received_once' \in BOOLEAN
  <2>1. ASSUME NEW source \in Broadcasters, PaSyncStart(source)
        PROVE  pa_data_received_once' \in BOOLEAN
    <3>1. PICK deleted \in (IF pa_sync_handle = NULL THEN {FALSE} ELSE BOOLEAN) :
            pa_data_received_once' =
              (pa_data_received_once /\ ~(deleted /\ syncs[pa_sync_handle].state = "synced"))
      BY <2>1, Zenon DEF PaSyncStart
    <3> QED BY <3>1, Zenon
  <2> QED BY <2>1, Zenon DEF AppCommand, FlagInv, FlagSets, CommandBits, SinkBits, LinkBits, SearchStart, SearchStop, PaSyncRelease,
          BisSyncStart, BisSyncStop, PaDataNtf
<1>6. command_busy' \in BOOLEAN
  BY Zenon DEF AppCommand, FlagInv, FlagSets, CommandBits, SinkBits, LinkBits, SearchStart, SearchStop, PaSyncStart, PaSyncRelease,
     BisSyncStart, BisSyncStop, PaDataNtf
<1>7. bis_sync_work' \in BOOLEAN /\ bis_sync_has_code' \in BOOLEAN
  BY Zenon DEF AppCommand, FlagInv, FlagSets, CommandBits, SinkBits, LinkBits, SearchStart, SearchStop, PaSyncStart, PaSyncRelease,
     BisSyncStart, BisSyncStop, PaDataNtf
<1>8. audio_on' \in BOOLEAN
  BY Zenon DEF AppCommand, FlagInv, FlagSets, CommandBits, SinkBits, LinkBits, SearchStart, SearchStop, PaSyncStart, PaSyncRelease,
     BisSyncStart, BisSyncStop, PaDataNtf
<1>9. FlagSets'
  BY <1>1, <1>2, <1>3 DEF FlagInv, FlagSets
<1>10. CommandBits'
  BY <1>4, <1>5, <1>6, <1>7, Zenon DEF CommandBits
<1>11. SinkBits' /\ LinkBits'
  BY <1>2, <1>8, Zenon DEF FlagInv, SinkBits, LinkBits
<1> QED BY <1>9, <1>10, <1>11 DEF FlagInv

\* What keeps each kind of flags.
LEMMA FlagSetsKept ==
  ASSUME FlagSets, UNCHANGED <<receiver_state, strm_state, bt_mgmt_chan, bis_answer>>
  PROVE  FlagSets'
  BY DEF FlagSets

LEMMA CommandBitsKept ==
  ASSUME CommandBits, UNCHANGED <<dataVars, command_busy, workVars>> PROVE CommandBits'
<1>1. /\ pa_data_notify_enabled' = pa_data_notify_enabled
      /\ pa_data_received_once' = pa_data_received_once
      /\ command_busy' = command_busy /\ bis_sync_work' = bis_sync_work
      /\ bis_sync_has_code' = bis_sync_has_code
  BY DEF dataVars, workVars
<1> QED BY <1>1, Zenon DEF CommandBits

LEMMA SinkBitsKept ==
  ASSUME SinkBits,
         UNCHANGED <<init_routine_completed, broadcast_code_received, bis_cleanup_work>>
  PROVE  SinkBits'
  BY Zenon DEF SinkBits

LEMMA LinkBitsKept ==
  ASSUME LinkBits, UNCHANGED <<audio_on, link, current_conn>> PROVE LinkBits'
  BY Zenon DEF LinkBits

LEMMA FlagUnchanged ==
  ASSUME FlagInv,
         UNCHANGED <<receiver_state, dataVars, command_busy, workVars, audio_on, strm_state,
                     link, current_conn, init_routine_completed, broadcast_code_received,
                     bis_cleanup_work, bt_mgmt_chan, bis_answer>>
  PROVE  FlagInv'
  BY FlagSetsKept, CommandBitsKept, SinkBitsKept, LinkBitsKept DEF FlagInv

\* The callbacks of the PA syncs and a deletion clear flags and bits.
LEMMA FlagOfTermCb ==
  ASSUME FlagInv, PaSyncTermCb \/ NoCallback,
         UNCHANGED <<workVars, audio_on, strm_state, link, current_conn,
                     init_routine_completed, broadcast_code_received, bis_cleanup_work,
                     bt_mgmt_chan, bis_answer>>
  PROVE  FlagInv'
<1>1. CASE NoCallback
  BY <1>1, FlagUnchanged DEF NoCallback, paVars
<1>2. CASE PaSyncTermCb
  <2>1. FlagSets'
    BY <1>2 DEF PaSyncTermCb, FlagInv, FlagSets
  <2>2. /\ pa_data_notify_enabled' \in BOOLEAN /\ pa_data_received_once' \in BOOLEAN
        /\ command_busy' \in BOOLEAN
    BY <1>2, Zenon DEF PaSyncTermCb
  <2>3. bis_sync_work' = bis_sync_work /\ bis_sync_has_code' = bis_sync_has_code
    BY DEF workVars
  <2>4. CommandBits'
    BY <2>2, <2>3, Zenon DEF FlagInv, CommandBits
  <2> QED BY <2>1, <2>4, SinkBitsKept, LinkBitsKept DEF FlagInv
<1> QED BY <1>1, <1>2

LEMMA FlagOfPaCallback ==
  ASSUME FlagInv, PaCallback PROVE FlagInv'
<1> USE DEF codeVars, leVars, linkVars, sinkVars
<1>1. PICK s \in Syncs : PaSynced(s) \/ PaSyncTerm(s) \/ PaReport(s)
  BY DEF PaCallback
<1>2. CASE PaSynced(s)
  <2>1. FlagSets'
    BY <1>2 DEF PaSynced, FlagInv, FlagSets
  <2>2. /\ UNCHANGED <<dataVars, workVars>>
        /\ UNCHANGED <<init_routine_completed, broadcast_code_received, bis_cleanup_work>>
        /\ UNCHANGED <<audio_on, link, current_conn>>
    BY <1>2 DEF PaSynced
  <2>3. command_busy' \in BOOLEAN
    BY <1>2, Zenon DEF PaSynced
  <2>4. /\ pa_data_notify_enabled' = pa_data_notify_enabled
        /\ pa_data_received_once' = pa_data_received_once
        /\ bis_sync_work' = bis_sync_work /\ bis_sync_has_code' = bis_sync_has_code
    BY <2>2 DEF dataVars, workVars
  <2>5. CommandBits'
    BY <2>3, <2>4, Zenon DEF FlagInv, CommandBits
  <2> QED BY <2>1, <2>2, <2>5, SinkBitsKept, LinkBitsKept DEF FlagInv
<1>3. CASE PaSyncTerm(s)
  BY <1>3, FlagOfTermCb DEF PaSyncTerm
<1>4. CASE PaReport(s)
  <2>1. UNCHANGED <<receiver_state, strm_state, bt_mgmt_chan, bis_answer, audio_on, link,
                    current_conn, init_routine_completed, broadcast_code_received,
                    bis_cleanup_work, workVars, command_busy, pa_data_notify_enabled>>
    BY <1>4, Zenon DEF PaReport
  <2>2. pa_data_received_once' \in BOOLEAN
    BY <1>4, Zenon DEF PaReport, FlagInv, CommandBits
  <2>3. bis_sync_work' = bis_sync_work /\ bis_sync_has_code' = bis_sync_has_code
    BY <2>1 DEF workVars
  <2>4. command_busy' = command_busy /\ pa_data_notify_enabled' = pa_data_notify_enabled
    BY <2>1
  <2>5. CommandBits'
    BY <2>2, <2>3, <2>4, Zenon DEF FlagInv, CommandBits
  <2> QED BY <2>1, <2>5, FlagSetsKept, SinkBitsKept, LinkBitsKept DEF FlagInv
<1> QED BY <1>1, <1>2, <1>3, <1>4

LEMMA FlagOfSink ==
  ASSUME FlagInv, StreamInv, SinkCallback PROVE FlagInv'
<1> USE DEF paVars, leVars, linkVars, codeVars
<1>1. UNCHANGED <<receiver_state, dataVars, command_busy, workVars, audio_on, strm_state,
                  link, current_conn, bt_mgmt_chan, bis_answer>>
  BY DEF SinkCallback, OfSink
<1>2. SinkBits'
  <2>1. CASE \E k \in Sinks : BaseRecv(k) \/ Syncable(k)
    <3>1. PICK k \in Sinks : BaseRecv(k) \/ Syncable(k)
      BY <2>1
    <3>2. CASE BaseRecv(k)
      BY <3>2, Zenon DEF BaseRecv, FlagInv, SinkBits
    <3>3. CASE Syncable(k)
      BY <3>3, Zenon DEF Syncable, FlagInv, SinkBits
    <3> QED BY <3>1, <3>2, <3>3
  <2>2. CASE StreamStarted
    BY <2>2, Zenon DEF StreamStarted, FlagInv, SinkBits
  <2>3. CASE StreamEnds
    <3>1. UNCHANGED <<init_routine_completed, broadcast_code_received>>
      BY <2>3 DEF StreamEnds, StreamStoppedBySource, StreamLost, StreamStoppedSilently
    <3>2. bis_cleanup_work' = bis_cleanup_work \/ bis_cleanup_work' = TRUE
      BY <2>3, Zenon DEF StreamEnds, StreamStoppedBySource, StreamLost, StreamStoppedSilently
    <3> QED BY <3>1, <3>2, Zenon DEF FlagInv, SinkBits
  <2> QED BY <2>1, <2>2, <2>3 DEF SinkCallback, OfSink
<1> QED BY <1>1, <1>2, FlagSetsKept, CommandBitsKept, LinkBitsKept DEF FlagInv

LEMMA FlagOfWorkq ==
  ASSUME FlagInv, StreamInv, Workq PROVE FlagInv'
<1> USE DEF codeVars, dataVars, leVars, linkVars
<1>1. CASE BisSyncWork
  <2>1. UNCHANGED <<receiver_state, dataVars, bis_sync_has_code, audio_on, strm_state,
                    link, current_conn, bis_cleanup_work, bt_mgmt_chan>>
    BY <1>1 DEF BisSyncWork
  <2>2. PICK ret \in {"ok", "refused", "no_sink"} :
          LET started == ret = "ok" /\ paused
          IN  /\ PaSyncSet(pa_sync_handle, pa_sync_source, ret)
              /\ command_busy' = (command_busy \/ started)
              /\ bis_answer' = IF ~current_conn THEN bis_answer
                               ELSE IF started THEN "success" ELSE "fail"
    BY <1>1, Zenon DEF BisSyncWork
  <2>3. command_busy' \in BOOLEAN
    BY <2>2, Zenon
  <2>4. FlagSets'
    BY <2>1, <2>2 DEF FlagInv, FlagSets
  <2>5. init_routine_completed' \in BOOLEAN
    BY <2>2, Zenon DEF PaSyncSet, FlagInv, SinkBits
  <2>6. bis_sync_work' \in BOOLEAN /\ broadcast_code_received' \in BOOLEAN
    BY <1>1, Zenon DEF BisSyncWork
  <2>7. /\ bis_cleanup_work' = bis_cleanup_work /\ bis_sync_has_code' = bis_sync_has_code
        /\ pa_data_notify_enabled' = pa_data_notify_enabled
        /\ pa_data_received_once' = pa_data_received_once
    BY <2>1
  <2>8. CommandBits'
    BY <2>3, <2>6, <2>7, Zenon DEF FlagInv, CommandBits
  <2>9. SinkBits'
    BY <2>5, <2>6, <2>7, Zenon DEF FlagInv, SinkBits
  <2> QED BY <2>1, <2>4, <2>8, <2>9, LinkBitsKept DEF FlagInv
<1>2. CASE OfSink(BisCleanupWork)
  <2>1. UNCHANGED <<receiver_state, dataVars, command_busy, workVars, audio_on, strm_state,
                    link, current_conn, bt_mgmt_chan, bis_answer, broadcast_code_received>>
    BY <1>2 DEF OfSink, BisCleanupWork, Cleanup, paVars
  <2>2. init_routine_completed' \in BOOLEAN /\ bis_cleanup_work' \in BOOLEAN
    BY <1>2, Zenon DEF OfSink, BisCleanupWork, Cleanup, FlagInv, SinkBits
  <2>3. broadcast_code_received' = broadcast_code_received
    BY <2>1
  <2>4. SinkBits'
    BY <2>2, <2>3, Zenon DEF FlagInv, SinkBits
  <2> QED BY <2>1, <2>4, FlagSetsKept, CommandBitsKept, LinkBitsKept DEF FlagInv
<1> QED BY <1>1, <1>2 DEF Workq

LEMMA FlagOfLeAudio ==
  ASSUME FlagInv, LeAudioThread PROVE FlagInv'
<1> USE DEF sinkVars, codeVars, dataVars, workVars, linkVars, paVars, mainVars
<1>1. CASE LeAudioTake \/ LeDisableStop
  BY <1>1, FlagUnchanged DEF LeAudioTake, LeDisableStop
<1>2. CASE LeSyncLost \/ LeDisable
  BY <1>2, FlagOfTermCb DEF LeSyncLost, LeDisable, DeletePaSync
<1>3. CASE LeStreamingStart \/ LeAudioStop
  <2>1. audio_on' \in BOOLEAN
    BY <1>3, Zenon DEF LeStreamingStart, LeAudioStop, FlagInv, LinkBits
  <2>2. UNCHANGED <<receiver_state, dataVars, command_busy, workVars, strm_state,
                    link, current_conn, init_routine_completed, broadcast_code_received,
                    bis_cleanup_work, bt_mgmt_chan, bis_answer>>
    BY <1>3 DEF LeStreamingStart, LeAudioStop
  <2>3. link' = link /\ current_conn' = current_conn
    BY <2>2
  <2>4. LinkBits'
    BY <2>1, <2>3, Zenon DEF FlagInv, LinkBits
  <2> QED BY <2>2, <2>4, FlagSetsKept, CommandBitsKept, SinkBitsKept DEF FlagInv
<1>4. CASE LeStreamingReport \/ LePause \/ LeLostReport
  <2>1. FlagSets'
    BY <1>4 DEF LeStreamingReport, LePause, LeLostReport, FlagInv, FlagSets
  <2>2. /\ UNCHANGED workVars
        /\ UNCHANGED <<init_routine_completed, broadcast_code_received, bis_cleanup_work>>
        /\ UNCHANGED <<audio_on, link, current_conn>>
    BY <1>4 DEF LeStreamingReport, LePause, LeLostReport
  <2>3. /\ command_busy' \in BOOLEAN
        /\ pa_data_notify_enabled' \in BOOLEAN /\ pa_data_received_once' \in BOOLEAN
    <3>1. CASE LeStreamingReport
      BY <3>1, Zenon DEF LeStreamingReport, FlagInv, CommandBits
    <3>2. CASE LePause
      BY <3>2, Zenon DEF LePause, FlagInv, CommandBits
    <3>3. CASE LeLostReport
      BY <3>3, Zenon DEF LeLostReport, FlagInv, CommandBits
    <3> QED BY <1>4, <3>1, <3>2, <3>3
  <2>4. bis_sync_work' = bis_sync_work /\ bis_sync_has_code' = bis_sync_has_code
    BY <2>2
  <2>5. CommandBits'
    BY <2>3, <2>4, Zenon DEF FlagInv, CommandBits
  <2> QED BY <2>1, <2>2, <2>5, SinkBitsKept, LinkBitsKept DEF FlagInv
<1>5. CASE LeLostClear
  <2>1. UNCHANGED <<receiver_state, strm_state, bt_mgmt_chan, bis_answer, workVars, audio_on,
                    link, current_conn, init_routine_completed, broadcast_code_received,
                    bis_cleanup_work>>
    BY <1>5 DEF LeLostClear
  <2>2. command_busy' \in BOOLEAN
    BY <1>5, Zenon DEF LeLostClear
  <2>3. /\ pa_data_notify_enabled' = pa_data_notify_enabled
        /\ pa_data_received_once' = pa_data_received_once
        /\ bis_sync_work' = bis_sync_work /\ bis_sync_has_code' = bis_sync_has_code
    BY <1>5 DEF LeLostClear
  <2>4. CommandBits'
    BY <2>2, <2>3, Zenon DEF FlagInv, CommandBits
  <2> QED BY <2>1, <2>4, FlagSetsKept, SinkBitsKept, LinkBitsKept DEF FlagInv
<1>6. CASE LeCleanup
  <2>1. UNCHANGED <<receiver_state, dataVars, command_busy, workVars, audio_on, strm_state,
                    link, current_conn, bt_mgmt_chan, bis_answer, broadcast_code_received,
                    bis_cleanup_work>>
    BY <1>6 DEF LeCleanup, Cleanup
  <2>2. init_routine_completed' \in BOOLEAN
    BY <1>6, Zenon DEF LeCleanup, Cleanup, FlagInv, SinkBits
  <2>3. /\ broadcast_code_received' = broadcast_code_received
        /\ bis_cleanup_work' = bis_cleanup_work
    BY <2>1
  <2>4. SinkBits'
    BY <2>2, <2>3, Zenon DEF FlagInv, SinkBits
  <2> QED BY <2>1, <2>4, FlagSetsKept, CommandBitsKept, LinkBitsKept DEF FlagInv
<1> QED BY <1>1, <1>2, <1>3, <1>4, <1>5, <1>6 DEF LeAudioThread

LEMMA FlagStep ==
  ASSUME IInv, [Next]_vars PROVE FlagInv'
<1> USE DEF sinkVars, codeVars, dataVars, workVars, leVars, linkVars, paVars
<1>1. FlagInv /\ StreamInv
  BY DEF IInv
<1>2. CASE BtMgmtThread
  <2>1. FlagSets'
    BY <1>1, <1>2, HeadTailProperties DEF BtMgmtThread, FlagInv, FlagSets
  <2>2. UNCHANGED <<pa_data_received_once, command_busy, bis_sync_work, bis_sync_has_code,
                    audio_on, link, init_routine_completed, broadcast_code_received,
                    bis_cleanup_work>>
    BY <1>2 DEF BtMgmtThread
  <2>3. current_conn' \in BOOLEAN /\ pa_data_notify_enabled' \in BOOLEAN
    BY <1>2, Zenon DEF BtMgmtThread
  <2>4. /\ pa_data_received_once' = pa_data_received_once /\ command_busy' = command_busy
        /\ bis_sync_work' = bis_sync_work /\ bis_sync_has_code' = bis_sync_has_code
        /\ audio_on' = audio_on /\ link' = link
    BY <2>2
  <2>5. CommandBits'
    BY <1>1, <2>3, <2>4, Zenon DEF FlagInv, CommandBits
  <2>6. LinkBits'
    BY <1>1, <2>3, <2>4, Zenon DEF FlagInv, LinkBits
  <2> QED BY <1>1, <2>1, <2>2, <2>5, <2>6, SinkBitsKept DEF FlagInv
<1>3. CASE LinkChange
  <2>1. FlagSets'
    BY <1>1, <1>3, AppendProperties DEF LinkChange, FlagInv, FlagSets
  <2>2. UNCHANGED <<dataVars, command_busy, workVars, init_routine_completed,
                    broadcast_code_received, bis_cleanup_work, audio_on, current_conn>>
    BY <1>3 DEF LinkChange
  <2>3. link' \in BOOLEAN
    BY <1>3, Zenon DEF LinkChange
  <2>4. audio_on' = audio_on /\ current_conn' = current_conn
    BY <2>2
  <2>5. LinkBits'
    BY <1>1, <2>3, <2>4, Zenon DEF FlagInv, LinkBits
  <2> QED BY <1>1, <2>1, <2>2, <2>5, CommandBitsKept, SinkBitsKept DEF FlagInv
<1>4. CASE UNCHANGED vars
  BY <1>1, <1>4, FlagUnchanged DEF vars
<1> QED BY <1>1, <1>2, <1>3, <1>4, FlagOfCommand, FlagOfPaCallback, FlagOfSink, FlagOfWorkq,
        FlagOfLeAudio DEF Next

-----------------------------------------------------------------------------
(* The audio system *)

\* A queue that is longer by messages of which none starts a stream.
Extends(q, longer) ==
  /\ longer \in Seq(Message) /\ Len(q) <= Len(longer)
  /\ \A i \in 1 .. Len(q) : longer[i] = q[i]
  /\ \A i \in Len(q) + 1 .. Len(longer) : longer[i].event # "STREAMING"

LEMMA ExtendsItself ==
  ASSUME NEW q \in Seq(Message) PROVE Extends(q, q)
  BY DEF Extends

LEMMA ExtendsByOne ==
  ASSUME NEW q \in Seq(Message), NEW m \in Message, m.event # "STREAMING"
  PROVE  Extends(q, Append(q, m))
  BY DEF Extends

LEMMA ExtendsByMany ==
  ASSUME NEW q \in Seq(Message), NEW r \in Seq(Message), Extends(q, r),
         NEW m \in Message, m.event # "STREAMING", NEW n \in Nat
  PROVE  Extends(q, r \o Times(n, m))
<1>1. /\ Times(n, m) \in Seq(Message) /\ Len(Times(n, m)) = n
      /\ \A i \in 1 .. n : Times(n, m)[i] = m
  BY DEF Times
<1> DEFINE t == Times(n, m)
<1> HIDE DEF t
<1>2. t \in Seq(Message) /\ Len(t) = n /\ \A i \in 1 .. n : t[i] = m
  BY <1>1 DEF t
<1>3. /\ r \o t \in Seq(Message) /\ Len(r \o t) = Len(r) + n
      /\ \A i \in 1 .. Len(r) : (r \o t)[i] = r[i]
      /\ \A i \in Len(r) + 1 .. Len(r) + n : (r \o t)[i] = m
  BY <1>2
<1>4. Extends(q, r \o t)
  BY <1>3 DEF Extends
<1> QED BY <1>4 DEF t

\* What the messages tell of streams.
LEMMA EventNames ==
  /\ Event("NOT_STREAMING") \in Message /\ Event("NOT_STREAMING").event # "STREAMING"
  /\ Event("NO_VALID_CFG") \in Message /\ Event("NO_VALID_CFG").event # "STREAMING"
  /\ \A s \in Syncs \cup {NULL} : SyncLost(s) \in Message /\ SyncLost(s).event # "STREAMING"
  BY MessageType DEF Event, SyncLost

LEMMA StopsQuietly ==
  ASSUME StreamInv, StreamsStop PROVE Extends(le_audio_chan, le_audio_chan')
<1>1. le_audio_chan \in Seq(Message) /\ Counted \in Nat
  BY StreamsAreNatural DEF StreamInv
<1> QED BY <1>1, EventNames, ExtendsItself, ExtendsByMany DEF StreamsStop

LEMMA UntouchedQuietly ==
  ASSUME StreamInv, UNCHANGED le_audio_chan PROVE Extends(le_audio_chan, le_audio_chan')
  BY ExtendsItself DEF StreamInv

LEMMA SinkStopsQuietly ==
  ASSUME StreamInv, NEW ret \in StopResults, SinkStop(ret)
  PROVE  Extends(le_audio_chan, le_audio_chan')
<1>1. StreamsStop \/ UNCHANGED le_audio_chan
  BY DEF SinkStop, stopVars
<1> QED BY <1>1, StopsQuietly, UntouchedQuietly

LEMMA TermStopsQuietly ==
  ASSUME StreamInv, StopIfBisSynced PROVE Extends(le_audio_chan, le_audio_chan')
  BY SinkStopsQuietly, UntouchedQuietly DEF StopIfBisSynced, stopVars

LEMMA LossIsQuiet ==
  ASSUME StreamInv, PoolInv, StreamLost PROVE Extends(le_audio_chan, le_audio_chan')
<1>1. CASE Counted > 0
  <2> DEFINE r == Append(le_audio_chan, SyncLost(pa_sync_stored))
  <2>1. le_audio_chan \in Seq(Message) /\ Counted - 1 \in Nat
    BY <1>1, StreamsAreNatural DEF StreamInv
  <2>2. /\ SyncLost(pa_sync_stored) \in Message /\ SyncLost(pa_sync_stored).event # "STREAMING"
        /\ SyncLost(NULL) \in Message /\ SyncLost(NULL).event # "STREAMING"
    BY EventNames DEF PoolInv
  <2>3. r \in Seq(Message) /\ Extends(le_audio_chan, r)
    BY <2>1, <2>2, ExtendsByOne, AppendProperties
  <2>4. le_audio_chan' = r \o Times(Counted - 1, SyncLost(NULL))
    BY <1>1 DEF StreamLost
  <2> HIDE DEF r
  <2> QED BY <2>1, <2>2, <2>3, <2>4, ExtendsByMany
<1>2. CASE ~(Counted > 0)
  BY <1>2, UntouchedQuietly DEF StreamLost
<1> QED BY <1>1, <1>2

LEMMA BaseIsQuiet ==
  ASSUME StreamInv, NEW k \in Sinks, BaseRecv(k)
  PROVE  Extends(le_audio_chan, le_audio_chan')
<1>1. \/ le_audio_chan' = Append(le_audio_chan, Event("NO_VALID_CFG"))
      \/ UNCHANGED le_audio_chan
  BY DEF BaseRecv
<1>2. le_audio_chan \in Seq(Message)
  BY DEF StreamInv
<1>3. CASE le_audio_chan' = Append(le_audio_chan, Event("NO_VALID_CFG"))
  BY <1>2, <1>3, EventNames, ExtendsByOne
<1> QED BY <1>1, <1>3, UntouchedQuietly

\* While the sink is paused nobody announces a start: only the LE Audio thread takes a message,
\* and what the others put ends a stream, or tells of none.
LEMMA PausedQuietly ==
  ASSUME IInv, paused, [Next]_vars
  PROVE  LeAudioTake \/ Extends(le_audio_chan, le_audio_chan')
<1> USE DEF hostVars, sinkVars, codeVars, dataVars, workVars, leVars, linkVars, paVars, mainVars
<1>1. StreamInv /\ PoolInv /\ big.state # "pending"
  BY DEF IInv, StreamInv
<1>2. CASE PaCallback
  BY <1>1, <1>2, TermStopsQuietly, UntouchedQuietly
     DEF PaCallback, PaSynced, PaSyncTerm, PaReport, PaSyncTermCb
<1>3. CASE AppCommand
  <2>1. CASE \/ SearchStart \/ SearchStop \/ (\E has_code \in BOOLEAN : BisSyncStart(has_code))
             \/ (\E on \in BOOLEAN : PaDataNtf(on))
    BY <1>1, <2>1, UntouchedQuietly DEF SearchStart, SearchStop, BisSyncStart, PaDataNtf
  <2>2. ASSUME NEW source \in Broadcasters, PaSyncStart(source)
        PROVE  Extends(le_audio_chan, le_audio_chan')
    <3>1. StopIfBisSynced \/ UNCHANGED stopVars
      BY <2>2 DEF PaSyncStart
    <3> QED BY <1>1, <3>1, TermStopsQuietly, UntouchedQuietly DEF stopVars
  <2>3. CASE PaSyncRelease
    BY <1>1, <2>3, TermStopsQuietly DEF PaSyncRelease
  <2>4. CASE BisSyncStop
    BY <1>1, <2>4, SinkStopsQuietly DEF BisSyncStop, StopResults
  <2> QED BY <1>3, <2>1, <2>2, <2>3, <2>4 DEF AppCommand
<1>4. CASE SinkCallback
  <2>1. ASSUME NEW k \in Sinks, Syncable(k) PROVE UNCHANGED le_audio_chan
    BY <2>1 DEF Syncable
  <2>2. ~StreamStarted
    BY <1>1 DEF StreamStarted
  <2>3. CASE StreamEnds
    BY <1>1, <2>3, StopsQuietly, LossIsQuiet, UntouchedQuietly
       DEF StreamEnds, StreamStoppedBySource, StreamStoppedSilently
  <2> QED BY <1>1, <1>4, <2>1, <2>2, <2>3, BaseIsQuiet, UntouchedQuietly DEF SinkCallback, OfSink
<1>5. CASE Workq
  <2>1. CASE BisSyncWork
    <3>1. StreamsStop \/ UNCHANGED le_audio_chan
      BY <2>1 DEF BisSyncWork, PaSyncSet
    <3> QED BY <1>1, <3>1, StopsQuietly, UntouchedQuietly
  <2>2. CASE BisCleanupWork
    BY <1>1, <2>2, UntouchedQuietly DEF BisCleanupWork
  <2> QED BY <1>5, <2>1, <2>2 DEF Workq, OfSink
<1>6. CASE LeAudioThread
  <2>1. CASE LeSyncLost \/ LeDisable
    <3>1. StopIfBisSynced \/ UNCHANGED le_audio_chan
      BY <2>1 DEF LeSyncLost, LeDisable, DeletePaSync, PaSyncTermCb, NoCallback, stopVars
    <3> QED BY <1>1, <3>1, TermStopsQuietly, UntouchedQuietly
  <2>2. CASE LeDisableStop
    BY <1>1, <2>2, StopsQuietly, UntouchedQuietly DEF LeDisableStop
  <2>3. CASE \/ LeStreamingStart \/ LeStreamingReport \/ LePause \/ LeAudioStop
             \/ LeLostReport \/ LeLostClear \/ LeCleanup
    BY <1>1, <2>3, UntouchedQuietly DEF LeStreamingStart, LeStreamingReport, LePause, LeAudioStop,
       LeLostReport, LeLostClear, LeCleanup
  <2> QED BY <1>6, <2>1, <2>2, <2>3 DEF LeAudioThread
<1>7. CASE BtMgmtThread \/ LinkChange \/ UNCHANGED vars
  BY <1>1, <1>7, UntouchedQuietly DEF BtMgmtThread, LinkChange, vars
<1> QED BY <1>2, <1>3, <1>4, <1>5, <1>6, <1>7 DEF Next

\* The audio system is on only if the thread knows it, or is just starting or stopping it.
AudioInv == audio_on => \/ strm_state = "STREAMING"
                        \/ le_pc \in {"started", "stop", "lost_stop"}

\* Who else touches the audio system: the command that stops the streams switches it off.
LEMMA OthersOnlySilence ==
  ASSUME [Next]_vars
  PROVE  \/ LeAudioThread
         \/ le_pc' = le_pc /\ ((audio_on' = audio_on /\ strm_state' = strm_state) \/ ~audio_on')
<1> USE DEF leVars
<1>1. CASE AppCommand
  <2>1. CASE BisSyncStop
    BY <2>1, Zenon DEF BisSyncStop
  <2>2. CASE ~BisSyncStop
    BY <1>1, <2>2 DEF AppCommand, SearchStart, SearchStop, PaSyncStart, PaSyncRelease, BisSyncStart,
                      PaDataNtf
  <2> QED BY <2>1, <2>2
<1>2. CASE SinkCallback \/ PaCallback \/ Workq
  BY <1>2 DEF SinkCallback, OfSink, PaCallback, PaSynced, PaSyncTerm, PaReport, Workq, BisSyncWork
<1>3. CASE BtMgmtThread \/ LinkChange \/ UNCHANGED vars
  BY <1>3 DEF BtMgmtThread, LinkChange, vars
<1> QED BY <1>1, <1>2, <1>3 DEF Next

\* The steps of the LE Audio thread that follow the one that takes a message.
LeRest == \/ LeStreamingStart \/ LeStreamingReport \/ LePause
          \/ LeAudioStop \/ LeSyncLost \/ LeLostReport \/ LeLostClear
          \/ LeDisableStop \/ LeDisable \/ LeCleanup

\* What those do to the audio system and to the thread's position.
LEMMA LeAudioMoves ==
  ASSUME LeRest
  PROVE  \/ le_pc = "STREAMING" /\ strm_state' = strm_state
            /\ \/ strm_state # "STREAMING" /\ audio_on' /\ le_pc' = "started"
               \/ strm_state = "STREAMING" /\ audio_on' = audio_on /\ le_pc' = "report"
         \/ le_pc = "started" /\ strm_state' = "STREAMING" /\ le_pc' = "wait"
            /\ audio_on' = audio_on
         \/ le_pc = "report" /\ le_pc' = "wait" /\ UNCHANGED <<audio_on, strm_state>>
         \/ le_pc \in {"NOT_STREAMING", "lost"} /\ audio_on' = audio_on
            /\ \/ strm_state # "PAUSED" /\ strm_state' = "PAUSED" /\ le_pc' \in {"stop", "lost_stop"}
               \/ strm_state = "PAUSED" /\ strm_state' = strm_state
                  /\ le_pc' \in {"wait", "lost_report"}
         \/ le_pc \in {"stop", "lost_stop"} /\ ~audio_on' /\ le_pc' \in {"wait", "lost_report"}
         \/ le_pc = "SYNC_LOST" /\ le_pc' = "lost" /\ UNCHANGED <<audio_on, strm_state>>
         \/ le_pc \in {"lost_report", "lost_clear", "NO_VALID_CFG", "disable", "cleanup"}
            /\ le_pc' \in {"lost_clear", "wait", "disable", "cleanup"}
            /\ UNCHANGED <<audio_on, strm_state>>
<1>1. CASE LeStreamingStart
  BY <1>1, Zenon DEF LeStreamingStart
<1>2. CASE LePause
  BY <1>2 DEF LePause
<1>3. CASE LeAudioStop
  <2>1. ~audio_on'
    BY <1>3, Zenon DEF LeAudioStop
  <2> QED BY <1>3, <2>1 DEF LeAudioStop
<1>4. CASE LeStreamingReport \/ LeSyncLost \/ LeLostReport \/ LeLostClear
  BY <1>4 DEF LeStreamingReport, LeSyncLost, LeLostReport, LeLostClear
<1>5. CASE LeDisableStop \/ LeDisable \/ LeCleanup
  BY <1>5 DEF LeDisableStop, LeDisable, LeCleanup
<1> QED BY <1>1, <1>2, <1>3, <1>4, <1>5 DEF LeRest

LEMMA LeTakes ==
  ASSUME LeAudioTake
  PROVE  /\ le_pc = "wait" /\ le_audio_chan # << >> /\ le_audio_chan' = Tail(le_audio_chan)
         /\ le_pc' = le_audio_chan[1].event /\ UNCHANGED <<audio_on, strm_state>>
  BY DEF LeAudioTake

LEMMA AudioStep ==
  ASSUME IInv, AudioInv, [Next]_vars PROVE AudioInv'
<1>1. strm_state \in {"PAUSED", "STREAMING"} /\ audio_on \in BOOLEAN
  BY DEF IInv, FlagInv, FlagSets, LinkBits
<1>2. CASE LeRest
  BY <1>1, <1>2, LeAudioMoves DEF AudioInv
<1>3. CASE LeAudioTake
  BY <1>1, <1>3, LeTakes DEF AudioInv
<1>4. CASE ~LeAudioThread
  BY <1>4, OthersOnlySilence DEF AudioInv
<1> QED BY <1>2, <1>3, <1>4 DEF LeAudioThread, LeRest

\* Messages that tell of no start leave the end announced, and no start.
LEMMA QuietlyAnnounced ==
  ASSUME StreamInv, Extends(le_audio_chan, le_audio_chan')
  PROVE  /\ EndAnnounced => EndAnnounced'
         /\ NoStartAnnounced => NoStartAnnounced'
<1>1. le_audio_chan \in Seq(Message)
  BY DEF StreamInv
<1>2. ASSUME EndAnnounced PROVE EndAnnounced'
  <2>1. PICK i \in 1 .. Len(le_audio_chan) :
           /\ le_audio_chan[i].event \in {"NOT_STREAMING", "SYNC_LOST"}
           /\ \A j \in i + 1 .. Len(le_audio_chan) : le_audio_chan[j].event # "STREAMING"
    BY <1>2 DEF EndAnnounced
  <2>2. i \in 1 .. Len(le_audio_chan') /\ le_audio_chan'[i] = le_audio_chan[i]
    BY <1>1 DEF Extends
  <2>3. \A j \in i + 1 .. Len(le_audio_chan') : le_audio_chan'[j].event # "STREAMING"
    BY <1>1, <2>1 DEF Extends
  <2> QED BY <2>1, <2>2, <2>3 DEF EndAnnounced
<1>3. ASSUME NoStartAnnounced PROVE NoStartAnnounced'
  BY <1>1, <1>3 DEF NoStartAnnounced, Extends
<1> QED BY <1>2, <1>3

\* The thread takes the first message: the announcement of an end stays, or is the one taken.
LEMMA TakenAnnounced ==
  ASSUME StreamInv, le_audio_chan # << >>, le_audio_chan' = Tail(le_audio_chan)
  PROVE  /\ NoStartAnnounced => NoStartAnnounced' /\ le_audio_chan[1].event # "STREAMING"
         /\ EndAnnounced => \/ EndAnnounced'
                            \/ /\ NoStartAnnounced'
                               /\ le_audio_chan[1].event \in {"NOT_STREAMING", "SYNC_LOST"}
<1>1. /\ le_audio_chan \in Seq(Message) /\ Len(le_audio_chan) \in Nat \ {0}
      /\ Len(le_audio_chan') = Len(le_audio_chan) - 1
      /\ \A i \in 1 .. Len(le_audio_chan) - 1 : le_audio_chan'[i] = le_audio_chan[i + 1]
  BY DEF StreamInv
<1>2. ASSUME NoStartAnnounced PROVE NoStartAnnounced' /\ le_audio_chan[1].event # "STREAMING"
  BY ONLY <1>1, <1>2 DEF NoStartAnnounced
<1>3. ASSUME EndAnnounced
      PROVE  \/ EndAnnounced'
             \/ NoStartAnnounced' /\ le_audio_chan[1].event \in {"NOT_STREAMING", "SYNC_LOST"}
  <2>1. PICK i \in 1 .. Len(le_audio_chan) :
           /\ le_audio_chan[i].event \in {"NOT_STREAMING", "SYNC_LOST"}
           /\ \A j \in i + 1 .. Len(le_audio_chan) : le_audio_chan[j].event # "STREAMING"
    BY <1>3 DEF EndAnnounced
  <2>2. CASE i = 1
    <3>1. NoStartAnnounced'
      BY ONLY <1>1, <2>1, <2>2 DEF NoStartAnnounced
    <3> QED BY <2>1, <2>2, <3>1
  <2>3. CASE i # 1
    <3>1. /\ i - 1 \in 1 .. Len(le_audio_chan') /\ le_audio_chan'[i - 1] = le_audio_chan[i]
          /\ \A j \in (i - 1) + 1 .. Len(le_audio_chan') : le_audio_chan'[j].event # "STREAMING"
      BY ONLY <1>1, <2>1, <2>3
    <3> QED BY <2>1, <3>1 DEF EndAnnounced
  <2> QED BY <2>2, <2>3
<1> QED BY <1>2, <1>3

LEMMA SilenceStep ==
  ASSUME IInv, AudioInv, paused, Silencing, [Next]_vars PROVE Silencing'
<1>1. StreamInv /\ strm_state \in {"PAUSED", "STREAMING"} /\ audio_on \in BOOLEAN
  BY DEF IInv, FlagInv, FlagSets, LinkBits
<1>2. CASE LeAudioTake
  <2>1. /\ le_pc = "wait" /\ le_pc' = le_audio_chan[1].event /\ audio_on' = audio_on
        /\ NoStartAnnounced => NoStartAnnounced' /\ le_audio_chan[1].event # "STREAMING"
        /\ EndAnnounced => \/ EndAnnounced'
                           \/ /\ NoStartAnnounced'
                              /\ le_audio_chan[1].event \in {"NOT_STREAMING", "SYNC_LOST"}
    BY <1>1, <1>2, LeTakes, TakenAnnounced
  <2> QED BY <2>1 DEF Silencing
<1>3. CASE ~LeAudioTake
  <2>1. /\ EndAnnounced => EndAnnounced'
        /\ NoStartAnnounced => NoStartAnnounced'
    BY <1>1, <1>3, PausedQuietly, QuietlyAnnounced
  <2>2. CASE EndAnnounced
    BY <2>1, <2>2 DEF Silencing
  <2>3. CASE NoStartAnnounced /\ le_pc \in {"NOT_STREAMING", "SYNC_LOST", "lost", "stop", "lost_stop"}
    <3>1. CASE LeRest
      BY <1>1, <2>1, <2>3, <3>1, LeAudioMoves DEF Silencing, AudioInv
    <3>2. CASE ~LeRest
      <4>1. le_pc' = le_pc
        BY <1>3, <3>2, OthersOnlySilence DEF LeAudioThread, LeRest
      <4> QED BY <2>1, <2>3, <4>1 DEF Silencing
    <3> QED BY <3>1, <3>2
  <2>4. CASE NoStartAnnounced /\ le_pc # "STREAMING" /\ ~audio_on
    <3>1. CASE LeRest
      BY <1>1, <2>1, <2>4, <3>1, LeAudioMoves DEF Silencing
    <3>2. CASE ~LeRest
      <4>1. le_pc' = le_pc /\ ~audio_on'
        BY <1>3, <2>4, <3>2, OthersOnlySilence DEF LeAudioThread, LeRest
      <4> QED BY <2>1, <2>4, <4>1 DEF Silencing
    <3> QED BY <3>1, <3>2
  <2> QED BY <2>2, <2>3, <2>4 DEF Silencing
<1> QED BY <1>2, <1>3

-----------------------------------------------------------------------------
(* The theorems *)

LEMMA InitInv == Init => IInv
<1> SUFFICES ASSUME Init PROVE IInv
  OBVIOUS
<1>1. StreamInv
  <2>1. big = NoBig /\ sync_stream_cnt = 0 /\ bis_index_bitfield = {} /\ le_audio_chan = << >>
    BY DEF Init, SinkInit
  <2>2. paused = FALSE
    BY Zenon DEF Init, SinkInit
  <2>3. RX_STREAMS_MAX \in Nat /\ Streams = 0 /\ IsFiniteSet(big.bises)
    BY <2>1, SinkAssumption, NoBigType DEF Streams
  <2>4. ~is_any_active_streams /\ big.state = "none"
    BY <2>1, NoBigType DEF is_any_active_streams
  <2>5. paused \in BOOLEAN
    BY <2>2
  <2> QED BY <2>1, <2>3, <2>4, <2>5, NoBigType DEF StreamInv
<1>2. PoolInv
  <2>1. Free \in SyncState /\ Event("NOT_STREAMING") \in Message
    BY MessageType DEF Free, SyncState
  <2>2. NoSink \in [used : BOOLEAN, pa_sync : Syncs \cup {NULL}, source : Broadcasters \cup {NULL}]
    BY DEF NoSink
  <2> QED BY <2>1, <2>2 DEF Init, SinkInit, PoolInv, SinksType, HandleIsLive
<1>3. FlagInv
  <2>1. /\ receiver_state \subseteq {SEARCHING, PA_SYNCED, BIS_SYNCED}
        /\ strm_state \in {"PAUSED", "STREAMING"}
        /\ bt_mgmt_chan \in Seq({"CONNECTED", "DISCONNECTED"})
        /\ bis_answer \in {"none", "success", "fail"}
    BY DEF Init
  <2> QED BY <2>1, Zenon DEF Init, SinkInit, FlagInv, FlagSets, CommandBits, SinkBits, LinkBits
<1> QED BY <1>1, <1>2, <1>3 DEF IInv

LEMMA Invariance == Spec => []IInv
<1>1. IInv /\ [Next]_vars => IInv'
  BY StreamStep, PoolStep, FlagStep DEF IInv
<1> QED BY <1>1, InitInv, PTL DEF Spec

\* Every variable of the application, of the sink and of the host's pools keeps its
\* type, whatever commands, callbacks and losses of the radio interleave.
THEOREM ReceiverTypesCorrect == Spec => []TypeOK
<1>1. IInv => TypeOK
  <2> SUFFICES ASSUME IInv PROVE TypeOK
    OBVIOUS
  <2>1. SinkTypeOK
    BY Zenon DEF IInv, StreamInv, PoolInv, FlagInv, FlagSets, CommandBits, SinkBits, LinkBits, SinksType, SinkTypeOK
  <2>2. {pa_data_notify_enabled, pa_data_received_once, command_busy, bis_sync_work,
         bis_sync_has_code, audio_on, link, current_conn} \subseteq BOOLEAN
    BY Zenon DEF IInv, FlagInv, FlagSets, CommandBits, SinkBits, LinkBits
  <2> QED BY <2>1, <2>2, Zenon DEF IInv, StreamInv, PoolInv, FlagInv, FlagSets, CommandBits, SinkBits, LinkBits, TypeOK
<1> QED BY <1>1, Invariance, PTL

\* The commands never hand the host a sync object that it has taken back: the handle
\* is forgotten by whoever frees a sync, whichever thread that is.
THEOREM HandleAlwaysLive == Spec => []HandleIsLive
<1>1. IInv => HandleIsLive
  BY DEF IInv, PoolInv
<1> QED BY <1>1, Invariance, PTL

\* The counter of streams counts only what plays, and no more plays than the array of
\* streams holds, although BASE resets the counter and late callbacks lower it.
THEOREM StreamsAlwaysBounded == Spec => []StreamCountBounded
<1>1. IInv => StreamCountBounded
  <2> SUFFICES ASSUME StreamInv PROVE StreamCountBounded
    BY DEF IInv
  <2>1. Streams \in Nat /\ Streams <= RX_STREAMS_MAX
    BY StreamsAreNatural DEF StreamInv
  <2> QED BY <2>1, SinkAssumption DEF StreamInv, StreamCountBounded
<1> QED BY <1>1, Invariance, PTL

\* A stream never starts to play while the sink is paused.
THEOREM PausedAlwaysSilent == Spec => PausedMeansSilent
<1>1. IInv => [big.state = "pending" /\ big'.state = "streaming" => ~paused]_<<big, paused>>
  BY Zenon DEF IInv, StreamInv
<1> QED BY <1>1, Invariance, PTL DEF PausedMeansSilent

\* The safety half of StopSilences: once the end of the streams is announced, nothing brings the
\* audio system back on while the sink is paused, whichever start, loss or command is under way;
\* so when the LE Audio thread has nothing left to hear, it is off.
THEOREM EndAlwaysSilences ==
  Spec => /\ [][paused /\ Silencing => Silencing']_vars
          /\ [](Silencing /\ le_audio_chan = << >> /\ le_pc = "wait" => ~audio_on)
<1>1. Init => AudioInv
  BY Zenon DEF Init, AudioInv
<1>2. IInv /\ AudioInv /\ [Next]_vars => AudioInv'
  BY AudioStep
<1>3. IInv /\ AudioInv /\ [Next]_vars => [paused /\ Silencing => Silencing']_vars
  BY SilenceStep
<1>4. Silencing /\ le_audio_chan = << >> /\ le_pc = "wait" => ~audio_on
  <2>1. le_audio_chan = << >> => ~EndAnnounced
    BY DEF EndAnnounced
  <2> QED BY <2>1 DEF Silencing
<1> QED BY <1>1, <1>2, <1>3, <1>4, Invariance, PTL DEF Spec
=============================================================================
