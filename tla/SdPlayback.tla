----------------------------- MODULE SdPlayback -----------------------------
(* sd_card_playback.c: a thread reads a WAV or LC3 file frame by frame into a   *)
(* ring buffer, from which the audio datapath mixes a frame into every block of *)
(* the stream.                                                                 *)
(*                                                                             *)
(* The datapath thread has the higher priority and never waits: each of its     *)
(* calls is one step, between any two steps of the playback thread.             *)
EXTENDS Integers, Sequences

CONSTANTS PlayFiles,
          PlayLength,       \* frames of each file
          FrameSize,        \* units of PCM of a frame of each file
          RingSize,         \* CONFIG_SD_CARD_PLAYBACK_RING_BUF_SIZE, in units
          MaxPlays          \* bound: commands that play a file
ASSUME SdAssumption == /\ RingSize \in Nat \ {0} /\ PlayLength \in [PlayFiles -> Nat]
                       /\ FrameSize \in [PlayFiles -> 1 .. RingSize]

VARIABLES m_sem_playback, playback_file,    \* what the last command asked for
          play_pc,          \* "wait", "read", "take", "lock", "copy" of the thread
          open_file, frames_done, pcm_frame_size,
          ring, ring_head,  \* units in the ring buffer; where the next one is stored
          m_sem_space, mtx_ringbuf,
          sd_card_playback_active,
          mixed,            \* number of the last unit that was mixed
          underrun,         \* the datapath has found the ring buffer empty
          plays
ringVars == <<ring, ring_head, m_sem_space>>
sdVars == <<m_sem_playback, playback_file, play_pc, open_file, frames_done, pcm_frame_size, ringVars,
            mtx_ringbuf, sd_card_playback_active, mixed, underrun, plays>>

SdInit == /\ m_sem_playback = FALSE /\ playback_file \in PlayFiles /\ play_pc = "wait"
          /\ open_file = playback_file /\ frames_done = 0 /\ pcm_frame_size = 0
          /\ ring = <<>> /\ ring_head = 0 /\ m_sem_space = FALSE /\ mtx_ringbuf = FALSE
          /\ sd_card_playback_active = FALSE /\ mixed = 0 /\ underrun = FALSE /\ plays = 0

AtMost(a, b) == IF a < b THEN a ELSE b
-----------------------------------------------------------------------------
\* sd_card_playback_wav() and sd_card_playback_lc3(), also while a file is played.
Play(f) == /\ plays < MaxPlays /\ plays' = plays + 1
           /\ playback_file' = f /\ m_sem_playback' = TRUE
           /\ UNCHANGED <<play_pc, open_file, frames_done, pcm_frame_size, ringVars, mtx_ringbuf,
                          sd_card_playback_active, mixed, underrun>>

\* Mutant: what is left of the previous file is played first.
RingKept == UNCHANGED <<ring, ring_head>>
RingReset == ring' = <<>> /\ ring_head' = 0

\* The thread is woken: an empty ring buffer, one token, the file and its header.
StartPlaying(ok) ==
  /\ play_pc = "wait" /\ m_sem_playback
  /\ m_sem_playback' = FALSE /\ RingReset /\ m_sem_space' = TRUE
  /\ open_file' = playback_file /\ frames_done' = 0 /\ mixed' = 0 /\ underrun' = FALSE
  /\ play_pc' = IF ok THEN "read" ELSE "wait"
  /\ pcm_frame_size' = IF ok THEN FrameSize[playback_file] ELSE pcm_frame_size
  /\ UNCHANGED <<playback_file, mtx_ringbuf, sd_card_playback_active, plays>>

\* The loop of play_wav() and play_lc3() is left at the end and on every error.
Finish == play_pc' = "wait" /\ sd_card_playback_active' = FALSE

ReadFrame(ok) ==
  /\ play_pc = "read"
  /\ IF ok /\ frames_done < PlayLength[open_file]
     THEN play_pc' = "take" /\ UNCHANGED sd_card_playback_active
     ELSE Finish
  /\ UNCHANGED <<m_sem_playback, playback_file, open_file, frames_done, pcm_frame_size, ringVars,
                 mtx_ringbuf, mixed, underrun, plays>>

\* Mutant: the thread waits for room for ever.
WaitForRoom == UNCHANGED <<play_pc, sd_card_playback_active>>
GiveUp == Finish

\* Mutant: the token is not taken.
TokenLeft == UNCHANGED m_sem_space
TokenTaken == m_sem_space' = FALSE

\* sd_card_playback_ringbuf_write(): the token, or 20 ms without one ...
TakeSpace == /\ play_pc = "take"
             /\ \/ m_sem_space /\ play_pc' = "lock" /\ UNCHANGED sd_card_playback_active
                \/ ~m_sem_space /\ GiveUp
             /\ TokenTaken
             /\ UNCHANGED <<m_sem_playback, playback_file, open_file, frames_done, pcm_frame_size,
                            ring, ring_head, mtx_ringbuf, mixed, underrun, plays>>

\* ... the mutex, which the datapath never holds across a step ...
LockRing == /\ play_pc = "lock" /\ play_pc' = "copy" /\ mtx_ringbuf' = TRUE
            /\ UNCHANGED <<m_sem_playback, playback_file, open_file, frames_done, pcm_frame_size,
                           ringVars, sd_card_playback_active, mixed, underrun, plays>>

\* Mutant: what is not read yet is overwritten.
RoomToWrapOnly == RingSize - ring_head
RoomToWrap == AtMost(RingSize - Len(ring), RingSize - ring_head)

\* ... and as much of the frame as fits before the buffer wraps; the rest is dropped.
CopyFrame ==
  LET claimed == AtMost(pcm_frame_size, RoomToWrap)
      before == frames_done * pcm_frame_size
  IN /\ play_pc = "copy" /\ play_pc' = "read" /\ mtx_ringbuf' = FALSE
     /\ ring' = ring \o [k \in 1 .. claimed |-> before + k]
     /\ ring_head' = (ring_head + claimed) % RingSize
     /\ frames_done' = frames_done + 1
     /\ sd_card_playback_active' = (sd_card_playback_active \/ frames_done = 0)
     /\ UNCHANGED <<m_sem_playback, playback_file, open_file, pcm_frame_size, m_sem_space, mixed,
                    underrun, plays>>
-----------------------------------------------------------------------------
RoomForFrame(left) == RingSize - Len(left) >= pcm_frame_size

(* sd_card_playback_mix_with_stream(); nothing is mixed while the mutex is taken. *)
MixWithStream ==
  LET n == AtMost(pcm_frame_size, Len(ring))
      left == SubSeq(ring, n + 1, Len(ring))
  IN /\ sd_card_playback_active /\ ~mtx_ringbuf
     /\ ring' = left
     /\ mixed' = IF n > 0 THEN ring[n] ELSE mixed
     /\ underrun' = (underrun \/ n < pcm_frame_size)
     /\ m_sem_space' = (m_sem_space \/ RoomForFrame(left))
     /\ UNCHANGED <<m_sem_playback, playback_file, play_pc, open_file, frames_done, pcm_frame_size,
                    ring_head, mtx_ringbuf, sd_card_playback_active, plays>>
-----------------------------------------------------------------------------
PlaybackThread == \/ \E ok \in BOOLEAN : StartPlaying(ok) \/ ReadFrame(ok)
                  \/ TakeSpace \/ LockRing \/ CopyFrame
SdNext == PlaybackThread \/ MixWithStream \/ \E f \in PlayFiles : Play(f)
SdFairness == WF_sdVars(PlaybackThread)
SdSpec == SdInit /\ [][SdNext]_sdVars /\ SdFairness
-----------------------------------------------------------------------------
SdTypeOK ==
  /\ m_sem_playback \in BOOLEAN /\ playback_file \in PlayFiles /\ open_file \in PlayFiles
  /\ play_pc \in {"wait", "read", "take", "lock", "copy"}
  /\ frames_done \in 0 .. PlayLength[open_file] /\ pcm_frame_size \in 0 .. RingSize
  /\ Len(ring) <= RingSize /\ ring_head \in 0 .. RingSize - 1
  /\ m_sem_space \in BOOLEAN /\ mtx_ringbuf \in BOOLEAN
  /\ sd_card_playback_active \in BOOLEAN /\ mixed \in Nat

\* What is mixed comes from the file that is played, in its order; units are left out
\* only after the datapath has found the ring buffer empty, since its token then counts
\* for a frame that is already on its way.
MixedInOrder == play_pc # "wait" =>
  \A k \in DOMAIN ring : LET before == IF k = 1 THEN mixed ELSE ring[k - 1]
                         IN /\ before < ring[k] /\ ring[k] <= frames_done * pcm_frame_size
                            /\ underrun \/ ring[k] = before + 1

\* The token is not a promise that was overtaken: a frame that goes into the ring buffer
\* has room, again unless it has run empty.
TokenMeansRoom ==
  play_pc \in {"lock", "copy"} /\ ~underrun => RingSize - Len(ring) >= pcm_frame_size

\* The playback thread always comes back for the next command, even when no stream
\* takes the audio from it.
PlaybackEnds == play_pc # "wait" ~> play_pc = "wait"

\* A file is mixed in its order, by a thread that has always room and always comes back.
FilesAreMixed == [](MixedInOrder /\ TokenMeansRoom) /\ PlaybackEnds
=============================================================================
