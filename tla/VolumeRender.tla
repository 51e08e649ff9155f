---------------------------- MODULE VolumeRender ----------------------------
(* The volume of a headset: bt_vol_rend.c and bt_rendering_and_capture.c publish *)
(* what the Volume Control Service says on volume_chan, and a thread of          *)
(* hw_codec.c carries it to the codec, which audio_system_start() configures     *)
(* anew from another thread.                                                    *)
(*                                                                             *)
(* The service calls back in the cooperative receive thread.  The channel keeps  *)
(* one message, while the subscriber's queue counts publications: two that are   *)
(* made before the thread runs are read as the second one, twice.              *)
EXTENDS Integers

CONSTANTS VcsVolumes,                   \* some of 0 .. 255
          VOLUME_MSG_SUB_QUEUE_SIZE,
          MAX_VOLUME_REG_VAL,
          MaxVcsChanges                 \* bound: changes and restarts

ASSUME RenderAssumption == /\ VcsVolumes \subseteq 0 .. 255
                           /\ VOLUME_MSG_SUB_QUEUE_SIZE \in Nat \ {0}
                           /\ MAX_VOLUME_REG_VAL \in Nat /\ MaxVcsChanges \in Nat

VARIABLES vcs,              \* volume and mute state of the service
          volume_chan, volume_queue,
          volume_pc,        \* "wait", "read", "set" of volume_msg_sub_thread()
          volume_msg,
          codec,            \* the volume register: volume and mute bit
          prev_volume_reg_val,
          restart,          \* << >>, or the volume that a restart is about to set
          codec_reset,      \* stopped: registers have their defaults
          overtaken,        \* a publication failed, or a restart met one
          vcs_changes
codecVars == <<codec, prev_volume_reg_val, restart, codec_reset>>
threadVars == <<volume_pc, volume_msg>>
renderVars == <<vcs, volume_chan, volume_queue, threadVars, codecVars, overtaken, vcs_changes>>

\* zbus_vol_conversion(), and the limit of hw_codec_volume_set().
zbus_vol_conversion(v) == (v + 1) \div 2
Limited(v) == IF v >= MAX_VOLUME_REG_VAL THEN MAX_VOLUME_REG_VAL ELSE v

Msg(event, v) == [event |-> event, volume |-> v]
CodecDefault == [volume |-> 0, mute |-> FALSE]

RenderInit ==
  \E v \in VcsVolumes : LET reg == Limited(zbus_vol_conversion(v)) IN
    /\ vcs = [volume |-> v, mute |-> FALSE]
    /\ volume_chan = Msg("VOLUME_SET", v) /\ volume_queue = 0
    /\ volume_pc = "wait" /\ volume_msg = Msg("VOLUME_SET", v)
    /\ codec = [volume |-> reg, mute |-> FALSE] /\ prev_volume_reg_val = reg
    /\ restart = <<>> /\ codec_reset = FALSE /\ overtaken = FALSE /\ vcs_changes = 0

Changes == vcs_changes < MaxVcsChanges /\ vcs_changes' = vcs_changes + 1
-----------------------------------------------------------------------------
\* Mutant: muted first.
MuteFirst(state) == <<Msg("VOLUME_MUTE", 0), Msg("VOLUME_SET", state.volume)>>
\* vcs_state_rend_cb_handler(): what it publishes, in its order.
Publications(state) ==
  IF state.mute THEN <<Msg("VOLUME_SET", state.volume), Msg("VOLUME_MUTE", 0)>>
  ELSE <<Msg("VOLUME_SET", state.volume)>>
Count(state) == IF state.mute THEN 2 ELSE 1

\* Mutant: the queue has no end.
QueueForEver(n) == n
QueueLimit(n) == IF n > VOLUME_MSG_SUB_QUEUE_SIZE THEN VOLUME_MSG_SUB_QUEUE_SIZE ELSE n

\* A client writes the control point.  Nothing is published while the channel is read, as
\* K_NO_WAIT does not wait for it.
VcsChanges(state) ==
  /\ Changes /\ state # vcs /\ vcs' = state
  /\ IF volume_pc = "read"
     THEN overtaken' = TRUE /\ UNCHANGED <<volume_chan, volume_queue>>
     ELSE /\ volume_chan' = Publications(state)[Count(state)]
          /\ volume_queue' = QueueLimit(volume_queue + Count(state))
          /\ UNCHANGED overtaken
  /\ UNCHANGED <<threadVars, codecVars>>
-----------------------------------------------------------------------------
\* volume_msg_sub_thread()
VolumeWoken == /\ volume_pc = "wait" /\ volume_queue > 0 /\ volume_queue' = volume_queue - 1
               /\ volume_pc' = "read"
               /\ UNCHANGED <<vcs, volume_chan, volume_msg, codecVars, overtaken, vcs_changes>>
VolumeRead == /\ volume_pc = "read" /\ volume_pc' = "set" /\ volume_msg' = volume_chan
              /\ UNCHANGED <<vcs, volume_chan, volume_queue, codecVars, overtaken, vcs_changes>>

\* Mutant: the mute bit is kept.
VolumeOnly(v) == codec' = [codec EXCEPT !.volume = v]
\* hw_codec_volume_set() writes the whole register, so that it also ends a mute ...
WriteVolume(v) == codec' = [volume |-> v, mute |-> FALSE]
VolumeSet == /\ volume_msg.event = "VOLUME_SET"
             /\ LET v == Limited(zbus_vol_conversion(volume_msg.volume))
                IN WriteVolume(v) /\ prev_volume_reg_val' = v
\* ... and hw_codec_volume_mute() adds the bit.
VolumeMute == /\ volume_msg.event = "VOLUME_MUTE"
              /\ codec' = [codec EXCEPT !.mute = TRUE] /\ UNCHANGED prev_volume_reg_val
VolumeHandled == /\ volume_pc = "set" /\ volume_pc' = "wait"
                 /\ VolumeSet \/ VolumeMute
                 /\ overtaken' = (overtaken \/ restart # <<>>)
                 /\ UNCHANGED <<vcs, volume_chan, volume_queue, volume_msg, restart, codec_reset,
                                vcs_changes>>
-----------------------------------------------------------------------------
\* audio_system_stop() and hw_codec_soft_reset().
CodecStopped == /\ ~codec_reset /\ codec_reset' = TRUE /\ codec' = CodecDefault
                /\ Changes
                /\ UNCHANGED <<vcs, volume_chan, volume_queue, threadVars, prev_volume_reg_val,
                               restart, overtaken>>
LastVolume == prev_volume_reg_val

\* hw_codec_default_conf_enable() with hw_codec_volume_adjust(0): the last volume is read,
\* and written after other threads may have had the SPI bus.
CodecStarts == /\ codec_reset /\ restart = <<>> /\ restart' = <<LastVolume>>
               /\ UNCHANGED <<vcs, volume_chan, volume_queue, threadVars, codec, prev_volume_reg_val,
                              codec_reset, overtaken, vcs_changes>>
CodecStarted == /\ restart # <<>> /\ restart' = <<>> /\ codec_reset' = FALSE
                /\ codec' = [volume |-> restart[1], mute |-> FALSE]
                /\ prev_volume_reg_val' = restart[1]
                /\ UNCHANGED <<vcs, volume_chan, volume_queue, threadVars, overtaken, vcs_changes>>
-----------------------------------------------------------------------------
RenderNext == \/ \E v \in VcsVolumes, m \in BOOLEAN : VcsChanges([volume |-> v, mute |-> m])
              \/ VolumeWoken \/ VolumeRead \/ VolumeHandled
              \/ CodecStopped \/ CodecStarts \/ CodecStarted
RenderSpec == RenderInit /\ [][RenderNext]_renderVars
-----------------------------------------------------------------------------
RenderTypeOK ==
  /\ vcs \in [volume : VcsVolumes, mute : BOOLEAN]
  /\ volume_queue \in 0 .. VOLUME_MSG_SUB_QUEUE_SIZE /\ volume_pc \in {"wait", "read", "set"}
  /\ codec \in [volume : 0 .. MAX_VOLUME_REG_VAL, mute : BOOLEAN]
  /\ prev_volume_reg_val \in 0 .. MAX_VOLUME_REG_VAL

Settled == volume_queue = 0 /\ volume_pc = "wait" /\ ~codec_reset /\ ~overtaken

\* Although publications are merged, an audible headset ends up with the volume of the
\* service, after a restart of the codec too; one that is muted, or changed while it is,
\* falls silent, since the mute is the last of its two publications.  That lasts until the
\* codec is started again, which forgets it.
VolumeIsHeard ==
  /\ [](Settled /\ ~vcs.mute =>
          codec = [volume |-> Limited(zbus_vol_conversion(vcs.volume)), mute |-> FALSE])
  /\ [][VolumeHandled /\ Settled' /\ vcs.mute => codec'.mute]_renderVars
=============================================================================
