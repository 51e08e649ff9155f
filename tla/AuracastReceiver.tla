-------------------------- MODULE AuracastReceiver --------------------------
(* The Auracast receiver: broadcast_sink/main.c, whose commands arrive over     *)
(* GATT (auracast_gatt.c) from a phone application, on top of BroadcastSink.    *)
(*                                                                             *)
(* Four contexts share its variables without a lock: the Bluetooth receive     *)
(* thread (commands, PA and BAP callbacks), the LE Audio thread, the thread    *)
(* that reads bt_mgmt_chan, and the system work queue. The LE Audio thread is  *)
(* preemptible and its handlers are split where they block or where a callback *)
(* can fall between two assignments that belong together; the receive thread   *)
(* and the work queue are cooperative, and their handlers are one step.        *)
EXTENDS BroadcastSink

CONSTANTS MaxCommands,  \* bound: commands that are executed
          MaxRadio,     \* bound: PA syncs and streams that end by themselves
          MaxLinks      \* bound: connections

ASSUME ReceiverAssumption == MaxCommands \in Nat /\ MaxRadio \in Nat /\ MaxLinks \in Nat

SEARCHING  == "SEARCHING"
PA_SYNCED  == "PA_SYNCED"
BIS_SYNCED == "BIS_SYNCED"

VARIABLES
  receiver_state,          \* a set of the three bits above
  pa_data_notify_enabled, pa_data_received_once,
  command_busy,
  pa_sync_handle, pa_sync_source,      \* pa_sync_addr, _sid and _broadcast_id
  bis_sync_work, bis_sync_has_code,
  strm_state, audio_on,                \* audio_on: audio_system_start() is in effect
  le_msg, le_pc,                       \* the LE Audio thread
  link, current_conn, bt_mgmt_chan,
  bis_answer,                          \* the last answer to BIS_SYNC_START
  commands, radio, links               \* counters for the bounds

dataVars == <<pa_data_notify_enabled, pa_data_received_once>>
workVars == <<bis_sync_work, bis_sync_has_code>>
leVars   == <<strm_state, audio_on, le_msg, le_pc>>
linkVars == <<link, current_conn, bt_mgmt_chan, links>>
\* What pa_sync_term_cb() and the PA commands write in main.c.
paVars   == <<receiver_state, dataVars, command_busy, pa_sync_handle>>

vars == <<hostVars, sinkVars, paVars, pa_sync_source, workVars, leVars, linkVars, bis_answer,
          commands, radio>>

Init ==
  /\ SinkInit
  /\ receiver_state = {} /\ command_busy = FALSE
  /\ pa_data_notify_enabled = FALSE /\ pa_data_received_once = FALSE
  /\ pa_sync_handle = NULL /\ pa_sync_source = NULL
  /\ bis_sync_work = FALSE /\ bis_sync_has_code = FALSE
  /\ strm_state = "PAUSED" /\ audio_on = FALSE
  /\ le_msg = Event("NOT_STREAMING") /\ le_pc = "wait"
  /\ link = FALSE /\ current_conn = FALSE /\ bt_mgmt_chan = << >> /\ links = 0
  /\ bis_answer = "none"
  /\ commands = 0 /\ radio = 0

-----------------------------------------------------------------------------
(* The PA sync callbacks *)

StopIfBisSynced == IF BIS_SYNCED \in receiver_state
                   THEN \E ret \in StopResults : SinkStop(ret)
                   ELSE UNCHANGED stopVars

\* Mutant: the handle survives its sync.
PaSyncTermKeepsHandle ==
  /\ StopIfBisSynced
  /\ pa_data_notify_enabled' = FALSE /\ pa_data_received_once' = FALSE
  /\ receiver_state' = receiver_state \ {PA_SYNCED, BIS_SYNCED}
  /\ command_busy' = FALSE
  /\ UNCHANGED pa_sync_handle

\* pa_sync_term_cb(), which does not look at which sync has ended.
PaSyncTermCb ==
  /\ StopIfBisSynced
  /\ pa_data_notify_enabled' = FALSE /\ pa_data_received_once' = FALSE
  /\ pa_sync_handle' = NULL
  /\ receiver_state' = receiver_state \ {PA_SYNCED, BIS_SYNCED}
  /\ command_busy' = FALSE

NoCallback == UNCHANGED <<stopVars, paVars>>

\* bt_le_per_adv_sync_delete() returning ret: for an established sync the host calls
\* pa_sync_term_cb() before it returns, for one being created when the cancel is done.
DeletePaSync(s, ret) ==
  \/ /\ ret = 0
     /\ syncs' = Deleted(s) /\ sinks' = SinksAfterDelete(s)
     /\ IF syncs[s].state = "synced" THEN PaSyncTermCb ELSE NoCallback
  \/ /\ ret # 0 /\ syncs[s].state \in {"synced", "pending"}
     /\ UNCHANGED <<syncs, sinks>> /\ NoCallback

\* The host drops a sync by itself, or has cancelled its creation.
PaSyncTerm(s) ==
  /\ \/ syncs[s].state = "synced" /\ radio < MaxRadio /\ radio' = radio + 1
     \/ syncs[s].state = "cancelling" /\ UNCHANGED radio
  /\ syncs' = Dropped(s) /\ sinks' = SinksWithout(s)
  /\ PaSyncTermCb
  /\ UNCHANGED <<init_routine_completed, broadcast_sink, pa_sync_stored, bis_index_bitfield,
                 codeVars, bis_cleanup_work, pa_sync_source, workVars, leVars, linkVars,
                 bis_answer, commands>>

\* pa_synced_cb()
PaSynced(s) ==
  /\ syncs[s].state = "pending"
  /\ syncs' = [syncs EXCEPT ![s].state = "synced"]
  /\ pa_sync_handle' = s
  /\ receiver_state' = receiver_state \cup {PA_SYNCED}
  /\ command_busy' = FALSE
  /\ UNCHANGED <<sinks, big, sinkVars, dataVars, pa_sync_source, workVars, leVars, linkVars,
                 bis_answer, commands, radio>>

\* pa_recv_cb() with a vendor-specific element.
PaReport(s) ==
  /\ syncs[s].state = "synced"
  /\ pa_data_received_once' = TRUE
  /\ UNCHANGED <<hostVars, sinkVars, receiver_state, pa_data_notify_enabled, command_busy,
                 pa_sync_handle, pa_sync_source, workVars, leVars, linkVars, bis_answer,
                 commands, radio>>

-----------------------------------------------------------------------------
(* GATT commands; one that finds command_busy is answered FAIL and changes nothing *)

Command == /\ link /\ ~command_busy /\ commands < MaxCommands
           /\ commands' = commands + 1

\* handle_search_start_req() and handle_search_stop_req()
SearchStart ==
  /\ Command /\ SEARCHING \notin receiver_state
  /\ receiver_state' \in {receiver_state, receiver_state \cup {SEARCHING}}
  /\ UNCHANGED <<hostVars, sinkVars, dataVars, command_busy, pa_sync_handle, pa_sync_source,
                 workVars, leVars, linkVars, bis_answer, radio>>

SearchStop ==
  /\ Command /\ SEARCHING \in receiver_state
  /\ receiver_state' = receiver_state \ {SEARCHING}
  /\ UNCHANGED <<hostVars, sinkVars, dataVars, command_busy, pa_sync_handle, pa_sync_source,
                 workVars, leVars, linkVars, bis_answer, radio>>

\* handle_pa_sync_start_req(): delete the present sync whatever comes of it, create one.
PaSyncStart(source) ==
  /\ Command
  /\ IF pa_sync_handle = NULL
     THEN UNCHANGED <<stopVars, receiver_state, pa_data_notify_enabled>>
     ELSE /\ StopIfBisSynced
          /\ receiver_state' = receiver_state \ {PA_SYNCED, BIS_SYNCED}
          /\ pa_data_notify_enabled' = FALSE
  /\ \E deleted \in (IF pa_sync_handle = NULL THEN {FALSE} ELSE BOOLEAN) :
       LET pool    == IF deleted THEN Deleted(pa_sync_handle) ELSE syncs
           dropped == deleted /\ syncs[pa_sync_handle].state = "synced"
       IN  /\ sinks' = IF deleted THEN SinksAfterDelete(pa_sync_handle) ELSE sinks
           /\ pa_data_received_once' = (pa_data_received_once /\ ~dropped)
           /\ \/ \E s \in Syncs :
                   /\ Creatable(pool, source) /\ pool[s] = Free
                   /\ syncs' = [pool EXCEPT ![s] = [state |-> "pending", source |-> source]]
                   /\ pa_sync_handle' = s
                   /\ pa_sync_source' = source
                   /\ command_busy' = TRUE
              \/ /\ syncs' = pool
                 /\ pa_sync_handle' = NULL
                 /\ UNCHANGED <<pa_sync_source, command_busy>>
  /\ UNCHANGED <<init_routine_completed, broadcast_sink, pa_sync_stored, bis_index_bitfield,
                 codeVars, bis_cleanup_work, workVars, leVars, linkVars, bis_answer, radio>>

\* handle_pa_sync_release_req(): the handle is kept when the host refuses. It is not tested
\* for NULL, which faults in the host.
PaSyncRelease ==
  /\ Command /\ PA_SYNCED \in receiver_state /\ pa_sync_handle # NULL
  /\ StopIfBisSynced
  /\ pa_data_notify_enabled' = FALSE
  /\ \/ /\ syncs' = Deleted(pa_sync_handle) /\ sinks' = SinksAfterDelete(pa_sync_handle)
        /\ receiver_state' = receiver_state \ {PA_SYNCED, BIS_SYNCED}
        /\ pa_sync_handle' = NULL /\ pa_data_received_once' = FALSE
     \/ /\ receiver_state' = receiver_state \ {BIS_SYNCED}
        /\ UNCHANGED <<syncs, sinks, pa_data_received_once, pa_sync_handle>>
  /\ UNCHANGED <<init_routine_completed, broadcast_sink, pa_sync_stored, bis_index_bitfield,
                 codeVars, bis_cleanup_work, command_busy, pa_sync_source, workVars, leVars,
                 linkVars, bis_answer, radio>>

\* handle_bis_sync_start_req(): remember whether a code came, leave the rest to the work queue.
BisSyncStart(has_code) ==
  /\ Command /\ PA_SYNCED \in receiver_state /\ BIS_SYNCED \notin receiver_state
  /\ bis_sync_has_code' = has_code
  /\ bis_sync_work' = TRUE
  /\ bis_answer' = "none"
  /\ UNCHANGED <<hostVars, sinkVars, paVars, pa_sync_source, leVars, linkVars, radio>>

\* handle_bis_sync_stop_req()
BisSyncStop ==
  /\ Command /\ BIS_SYNCED \in receiver_state
  /\ \/ /\ SinkStop("ok")
        /\ receiver_state' = receiver_state \ {BIS_SYNCED}
        /\ strm_state' = "PAUSED" /\ audio_on' = FALSE
     \/ /\ SinkStop("already") \/ SinkStop("failed")
        /\ UNCHANGED <<receiver_state, strm_state, audio_on>>
  /\ UNCHANGED <<syncs, sinks, init_routine_completed, broadcast_sink, pa_sync_stored,
                 bis_index_bitfield, codeVars, bis_cleanup_work, dataVars, command_busy,
                 pa_sync_handle, pa_sync_source, workVars, le_msg, le_pc, linkVars, bis_answer,
                 radio>>

\* handle_pa_data_ntf_start_req() and handle_pa_data_ntf_stop_req()
PaDataNtf(on) ==
  /\ Command
  /\ IF on THEN PA_SYNCED \in receiver_state ELSE pa_data_notify_enabled
  /\ pa_data_notify_enabled' = on
  /\ UNCHANGED <<hostVars, sinkVars, receiver_state, pa_data_received_once, command_busy,
                 pa_sync_handle, pa_sync_source, workVars, leVars, linkVars, bis_answer, radio>>

-----------------------------------------------------------------------------
(* The system work queue *)

\* bis_sync_work_handler(): the answer is sent only if a connection is known by now.
BisSyncWork ==
  /\ bis_sync_work
  /\ bis_sync_work' = FALSE
  /\ broadcast_code_received' = (broadcast_code_received \/ bis_sync_has_code)
  /\ \E ret \in {"ok", "refused", "no_sink"} :
       LET started == ret = "ok" /\ paused       \* broadcast_sink_start()
       IN  /\ PaSyncSet(pa_sync_handle, pa_sync_source, ret)
           /\ paused' = (paused /\ ~started)
           /\ command_busy' = (command_busy \/ started)
           /\ bis_answer' = IF ~current_conn THEN bis_answer
                            ELSE IF started THEN "success" ELSE "fail"
  /\ UNCHANGED <<syncs, bis_index_bitfield, prev_broadcast_id, bis_cleanup_work, receiver_state,
                 dataVars, pa_sync_handle, pa_sync_source, bis_sync_has_code, leVars, linkVars,
                 commands, radio>>

-----------------------------------------------------------------------------
(* The LE Audio thread *)

mainVars == <<paVars, pa_sync_source, workVars, linkVars, bis_answer, commands, radio>>

LeAudioTake ==
  /\ le_pc = "wait" /\ le_audio_chan # << >>
  /\ le_msg' = Head(le_audio_chan) /\ le_audio_chan' = Tail(le_audio_chan)
  /\ le_pc' = le_msg'.event
  /\ UNCHANGED <<hostVars, paused, init_routine_completed, broadcast_sink, pa_sync_stored,
                 bis_index_bitfield, sync_stream_cnt, codeVars, bis_cleanup_work,
                 strm_state, audio_on, mainVars>>

\* LE_AUDIO_EVT_STREAMING: start the audio system if it is not started ...
LeStreamingStart ==
  /\ le_pc = "STREAMING"
  /\ IF strm_state # "STREAMING" THEN audio_on' = TRUE /\ le_pc' = "started"
                                 ELSE le_pc' = "report" /\ UNCHANGED audio_on
  /\ UNCHANGED <<hostVars, sinkVars, strm_state, le_msg, mainVars>>

\* Mutant: strm_state is not kept up.
LeStreamingUnrecorded ==
  /\ le_pc \in {"started", "report"}
  /\ receiver_state' = receiver_state \cup {BIS_SYNCED}
  /\ command_busy' = FALSE
  /\ le_pc' = "wait"
  /\ UNCHANGED <<hostVars, sinkVars, dataVars, pa_sync_handle, pa_sync_source, workVars,
                 strm_state, audio_on, le_msg, linkVars, bis_answer, commands, radio>>

\* ... and then report it.
LeStreamingReport ==
  /\ le_pc \in {"started", "report"}
  /\ strm_state' = IF le_pc = "started" THEN "STREAMING" ELSE strm_state
  /\ receiver_state' = receiver_state \cup {BIS_SYNCED}
  /\ command_busy' = FALSE
  /\ le_pc' = "wait"
  /\ UNCHANGED <<hostVars, sinkVars, dataVars, pa_sync_handle, pa_sync_source, workVars,
                 audio_on, le_msg, linkVars, bis_answer, commands, radio>>

\* LE_AUDIO_EVT_NOT_STREAMING, and the same lines of SYNC_LOST.
LePause ==
  /\ le_pc \in {"NOT_STREAMING", "lost"}
  /\ LET next == IF le_pc = "lost" THEN "lost_report" ELSE "wait"
     IN  IF strm_state # "PAUSED"
         THEN strm_state' = "PAUSED" /\ le_pc' = IF le_pc = "lost" THEN "lost_stop" ELSE "stop"
         ELSE le_pc' = next /\ UNCHANGED strm_state
  /\ UNCHANGED <<hostVars, sinkVars, audio_on, le_msg, mainVars>>

LeAudioStop ==
  /\ le_pc \in {"stop", "lost_stop"}
  /\ audio_on' = FALSE
  /\ le_pc' = IF le_pc = "stop" THEN "wait" ELSE "lost_report"
  /\ UNCHANGED <<hostVars, sinkVars, strm_state, le_msg, mainVars>>

\* LE_AUDIO_EVT_SYNC_LOST: delete the sync the message names, if any.
LeSyncLost ==
  /\ le_pc = "SYNC_LOST"
  /\ IF le_msg.pa_sync = NULL THEN UNCHANGED <<syncs, sinks>> /\ NoCallback
                              ELSE \E ret \in {0, -1} : DeletePaSync(le_msg.pa_sync, ret)
  /\ le_pc' = "lost"
  /\ UNCHANGED <<init_routine_completed, broadcast_sink, pa_sync_stored, bis_index_bitfield,
                 codeVars, bis_cleanup_work, pa_sync_source, workVars, strm_state, audio_on,
                 le_msg, linkVars, bis_answer, commands, radio>>

\* Clear the flags and both bits, then, when a callback may already have set them anew,
\* the handle and the busy flag.
LeLostReport ==
  /\ le_pc = "lost_report"
  /\ pa_data_notify_enabled' = FALSE /\ pa_data_received_once' = FALSE
  /\ receiver_state' = receiver_state \ {PA_SYNCED, BIS_SYNCED}
  /\ le_pc' = "lost_clear"
  /\ UNCHANGED <<hostVars, sinkVars, command_busy, pa_sync_handle, pa_sync_source, workVars,
                 strm_state, audio_on, le_msg, linkVars, bis_answer, commands, radio>>

LeLostClear ==
  /\ le_pc = "lost_clear"
  /\ pa_sync_handle' = NULL /\ command_busy' = FALSE
  /\ le_pc' = "wait"
  /\ UNCHANGED <<hostVars, sinkVars, receiver_state, dataVars, pa_sync_source, workVars,
                 strm_state, audio_on, le_msg, linkVars, bis_answer, commands, radio>>

\* LE_AUDIO_EVT_NO_VALID_CFG: broadcast_sink_disable() stops the streams, deletes the stored
\* PA sync, which is not forgotten, and unless that fails cleans up.
LeDisableStop ==
  /\ le_pc = "NO_VALID_CFG"
  /\ \/ is_any_active_streams /\ big.sink = broadcast_sink /\ StreamsStop
     \/ UNCHANGED <<big, sync_stream_cnt, le_audio_chan>>
  /\ le_pc' = "disable"
  /\ UNCHANGED <<syncs, sinks, paused, init_routine_completed, broadcast_sink, pa_sync_stored,
                 bis_index_bitfield, codeVars, bis_cleanup_work, strm_state, audio_on, le_msg,
                 mainVars>>

LeDisable ==
  /\ le_pc = "disable"
  /\ \E ret \in {0, -1} :
       /\ IF pa_sync_stored = NULL THEN ret = 0 /\ UNCHANGED <<syncs, sinks>> /\ NoCallback
                                   ELSE DeletePaSync(pa_sync_stored, ret)
       /\ le_pc' = IF ret = 0 THEN "cleanup" ELSE "wait"
  /\ UNCHANGED <<init_routine_completed, broadcast_sink, pa_sync_stored, bis_index_bitfield,
                 codeVars, bis_cleanup_work, pa_sync_source, workVars, strm_state, audio_on,
                 le_msg, linkVars, bis_answer, commands, radio>>

LeCleanup ==
  /\ le_pc = "cleanup"
  /\ Cleanup
  /\ le_pc' = "wait"
  /\ UNCHANGED <<syncs, big, paused, pa_sync_stored, bis_index_bitfield, sync_stream_cnt,
                 codeVars, le_audio_chan, bis_cleanup_work, strm_state, audio_on, le_msg,
                 mainVars>>

LeAudioThread == \/ LeAudioTake \/ LeStreamingStart \/ LeStreamingReport \/ LePause
                 \/ LeAudioStop \/ LeSyncLost \/ LeLostReport \/ LeLostClear
                 \/ LeDisableStop \/ LeDisable \/ LeCleanup

-----------------------------------------------------------------------------
(* Connections, and the thread that reads bt_mgmt_chan *)

LinkChange ==
  /\ ~link => links < MaxLinks
  /\ links' = IF link THEN links ELSE links + 1
  /\ link' = ~link
  /\ bt_mgmt_chan' = Append(bt_mgmt_chan, IF link THEN "DISCONNECTED" ELSE "CONNECTED")
  /\ UNCHANGED <<hostVars, sinkVars, paVars, pa_sync_source, workVars, leVars, current_conn,
                 bis_answer, commands, radio>>

BtMgmtThread ==
  /\ bt_mgmt_chan # << >>
  /\ bt_mgmt_chan' = Tail(bt_mgmt_chan)
  /\ current_conn' = (Head(bt_mgmt_chan) = "CONNECTED")
  /\ pa_data_notify_enabled' = (pa_data_notify_enabled /\ current_conn')
  /\ UNCHANGED <<hostVars, sinkVars, receiver_state, pa_data_received_once, command_busy,
                 pa_sync_handle, pa_sync_source, workVars, leVars, link, links, bis_answer,
                 commands, radio>>

-----------------------------------------------------------------------------
AppCommand == \/ SearchStart \/ SearchStop
              \/ \E source \in Broadcasters : PaSyncStart(source)
              \/ PaSyncRelease
              \/ \E has_code \in BOOLEAN : BisSyncStart(has_code)
              \/ BisSyncStop
              \/ \E on \in BOOLEAN : PaDataNtf(on)

\* The callbacks of BroadcastSink run on the receive thread, its clean-up on the work queue.
OfSink(A) == A /\ UNCHANGED <<paVars, pa_sync_source, workVars, leVars, linkVars, bis_answer,
                              commands>>

StreamEnds == StreamStoppedBySource \/ StreamLost \/ StreamStoppedSilently

SinkCallback ==
  \/ OfSink(\E k \in Sinks : BaseRecv(k) \/ Syncable(k)) /\ UNCHANGED radio
  \/ OfSink(StreamStarted) /\ UNCHANGED radio
  \/ OfSink(StreamEnds) /\ radio < MaxRadio /\ radio' = radio + 1

PaCallback == \E s \in Syncs : PaSynced(s) \/ PaSyncTerm(s) \/ PaReport(s)

Workq == BisSyncWork \/ (OfSink(BisCleanupWork) /\ UNCHANGED radio)

Next == \/ AppCommand \/ SinkCallback \/ PaCallback
        \/ Workq \/ LeAudioThread \/ BtMgmtThread
        \/ LinkChange

Spec == Init /\ [][Next]_vars

\* The threads run while they have something to do; radio and application need not act.
FairSpec == /\ Spec
            /\ WF_vars(Workq) /\ WF_vars(LeAudioThread) /\ WF_vars(BtMgmtThread)

-----------------------------------------------------------------------------
(* Properties *)

TypeOK ==
  /\ SinkTypeOK
  /\ receiver_state \subseteq {SEARCHING, PA_SYNCED, BIS_SYNCED}
  /\ {pa_data_notify_enabled, pa_data_received_once, command_busy, bis_sync_work,
      bis_sync_has_code, audio_on, link, current_conn} \subseteq BOOLEAN
  /\ pa_sync_handle \in Syncs \cup {NULL} /\ pa_sync_source \in Broadcasters \cup {NULL}
  /\ strm_state \in {"PAUSED", "STREAMING"} /\ le_msg \in Message
  /\ bt_mgmt_chan \in Seq({"CONNECTED", "DISCONNECTED"})
  /\ bis_answer \in {"none", "success", "fail"}

\* The handle that the commands give to the host is that of a sync it still holds: no callback,
\* stale message or deletion by another thread leaves main.c with a dangling pointer.
HandleIsLive == pa_sync_handle # NULL => syncs[pa_sync_handle].state # "free"

\* A start that was answered FAIL does not play (broadcast_sink_start() is documented as
\* "0 for success, error otherwise").
FailedStartIsSilent ==
  [][big.state = "pending" /\ big'.state = "streaming" => bis_answer # "fail"]_vars

\* While the sink waits for the broadcast code, as its comment says, the only command that
\* brings the code is not refused.
WaitingForCode == /\ broadcast_sink # NULL /\ Receiving(broadcast_sink)
                  /\ ~paused /\ bis_index_bitfield # {} /\ AwaitsCode(broadcast_sink)
CodeIsAccepted == WaitingForCode /\ PA_SYNCED \in receiver_state => ~command_busy

\* No start of a stream is announced that the LE Audio thread has not heard of, or none after the
\* announcement of an end.
NoStartAnnounced == \A i \in 1 .. Len(le_audio_chan) : le_audio_chan[i].event # "STREAMING"
EndAnnounced ==
  \E i \in 1 .. Len(le_audio_chan) :
    /\ le_audio_chan[i].event \in {"NOT_STREAMING", "SYNC_LOST"}
    /\ \A j \in i + 1 .. Len(le_audio_chan) : le_audio_chan[j].event # "STREAMING"

\* The end is announced, the thread is about to stop the audio system, or that is off.
Silencing ==
  \/ EndAnnounced
  \/ NoStartAnnounced /\ le_pc \in {"NOT_STREAMING", "SYNC_LOST", "lost", "stop", "lost_stop"}
  \/ NoStartAnnounced /\ le_pc # "STREAMING" /\ ~audio_on

\* When the last that the LE Audio thread has to hear of a paused sink is that its streams have
\* ended, the audio system stops, whatever start was under way, unless the user starts anew: no
\* thread undoes that on the way there.
StopSilences ==
  /\ (paused /\ le_audio_chan # << >> /\ le_audio_chan[Len(le_audio_chan)] = Event("NOT_STREAMING"))
       ~> (~audio_on \/ ~paused)
  /\ [][paused /\ Silencing => Silencing']_vars
=============================================================================
