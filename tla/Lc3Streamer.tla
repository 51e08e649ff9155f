---------------------------- MODULE Lc3Streamer ----------------------------
(* lc3_streamer.c and lc3_file.c: LC3 files streamed from the SD card through a *)
(* fifo of two blocks. The caller holds one block; a work queue reads the next  *)
(* frame into the other one.                                                   *)
(*                                                                             *)
(* The caller runs in a thread of its own, next_frame_load() in the streamer's  *)
(* work queue; a work item that is pending outlives the stream it was for.      *)
EXTENDS Naturals, Sequences, FiniteSets

CONSTANTS StreamSlots,      \* indexes of streams[]
          Files,
          FramesOf,         \* number of frames of each file
          NotLc3,           \* files whose header is not that of an LC3 file
          NoFile,
          NUM_FILES,        \* files that FatFs can have open at a time
          MaxCalls,         \* bound: calls that register, close or check
          MaxReadErrors     \* bound: reads of the card that fail
ASSUME Lc3Assumption == StreamSlots \subseteq Nat /\ FramesOf \in [Files -> Nat] /\ NoFile \notin Files

BUFFER_NUM_FRAMES == 2 \* LC3_STREAMER_BUFFER_NUM_FRAMES

VARIABLES lc3_streams,      \* streams[]: a record per slot
          load_work,        \* slots whose work item is pending
          lost_files,       \* files that stay open though no stream has them
          delivered,        \* number of the frame that the caller was given last
          upset,            \* slots closed while their work was pending, or whose card failed
          calls, read_errors
lc3Vars == <<lc3_streams, load_work, lost_files, delivered, upset, calls, read_errors>>

Closed == [state |-> "idle", loop |-> FALSE, active |-> FALSE, file |-> NoFile, name |-> NoFile,
           pos |-> 0, fifo |-> <<>>, ready |-> FALSE]

Lc3Init == /\ lc3_streams = [i \in StreamSlots |-> Closed] /\ load_work = {} /\ lost_files = 0
           /\ delivered = [i \in StreamSlots |-> 0] /\ upset = {}
           /\ calls = 0 /\ read_errors = 0

OpenFiles == lost_files + Cardinality({i \in StreamSlots : lc3_streams[i].file # NoFile})
IsPlaying(stream) == stream.state \in {"playing", "last_frame"}
Calls == calls < MaxCalls /\ calls' = calls + 1
Reads(ok) == /\ ok \/ read_errors < MaxReadErrors
             /\ read_errors' = read_errors + (IF ok THEN 0 ELSE 1)
-----------------------------------------------------------------------------
(* put_next_frame_to_fifo() on a stream: a free block, the next frame, the lock. *)
(* Its result is 0, -ENODATA at the end of the file or an error.                 *)
BlocksUsed(stream) == Len(stream.fifo) + (IF stream.active THEN 1 ELSE 0)

\* Mutant: a block is taken whether or not one is free.
PutResultUnbounded(stream, ok) ==
  IF ~stream.ready \/ stream.file = NoFile \/ ~ok THEN "error"
  ELSE IF stream.pos = FramesOf[stream.file] THEN "no data" ELSE "ok"

PutResult(stream, ok) ==
  IF ~stream.ready \/ BlocksUsed(stream) = BUFFER_NUM_FRAMES \/ stream.file = NoFile \/ ~ok THEN "error"
  ELSE IF stream.pos = FramesOf[stream.file] THEN "no data" ELSE "ok"

PutNextFrame(stream, ok) ==
  IF PutResult(stream, ok) # "ok" THEN stream
  ELSE [stream EXCEPT !.pos = @ + 1, !.fifo = Append(@, stream.pos + 1)]

\* Mutants: a loop goes on where the file ends; the end of the file goes unnoticed.
RewoundNot(stream) == stream
EndStateUnnoticed == "playing"

\* stream_loop(): the file is closed, opened again and its first frame put.
Rewound(stream) == [stream EXCEPT !.pos = 0]
EndState == "last_frame"

(* next_frame_load(). What the card gives when a loop reads the file again: the  *)
(* header and a frame, no header, which leaves the file open, or no frame, after *)
(* which it is closed.                                                           *)
Rereads == {"frame", "no header", "no frame"}

Loaded(stream, ok, again) ==
  LET result == PutResult(stream, ok)
      restarted == Rewound(stream)
  IN IF result = "ok" THEN PutNextFrame(stream, ok)
     ELSE IF result = "error" THEN [stream EXCEPT !.state = "ended"]
     ELSE IF ~stream.loop THEN [stream EXCEPT !.state = EndState]
     ELSE IF again = "frame" /\ PutResult(restarted, TRUE) = "ok" THEN PutNextFrame(restarted, TRUE)
     ELSE IF again = "no header" THEN [restarted EXCEPT !.state = "ended"]
     ELSE [restarted EXCEPT !.state = "ended", !.file = NoFile]

NextFrameLoad(i, ok, again) ==
  /\ i \in load_work /\ load_work' = load_work \ {i}
  /\ ok \/ again = "frame"
  /\ Reads(ok /\ again = "frame")
  /\ lc3_streams' = [lc3_streams EXCEPT ![i] = Loaded(@, ok, again)]
  /\ upset' = IF ok /\ again = "frame" THEN upset ELSE upset \cup {i}
  /\ UNCHANGED <<lost_files, delivered, calls>>
-----------------------------------------------------------------------------
(* lc3_streamer_next_frame_get(): gives the held block back, then the oldest     *)
(* frame, and has the next one read. Without one ready the caller tries again.   *)
FreeActive(stream) == [stream EXCEPT !.active = FALSE]

NextFrameGet(i) ==
  LET stream == lc3_streams[i]
      freed == FreeActive(stream)
  IN /\ IsPlaying(stream)
     /\ \/ /\ stream.state = "last_frame"
           /\ lc3_streams' = [lc3_streams EXCEPT ![i] = [freed EXCEPT !.state = "ended"]]
           /\ UNCHANGED <<load_work, delivered>>
        \/ /\ stream.state = "playing" /\ stream.fifo = <<>>
           /\ lc3_streams' = [lc3_streams EXCEPT ![i] = freed]
           /\ UNCHANGED <<load_work, delivered>>
        \/ /\ stream.state = "playing" /\ stream.fifo # <<>>
           /\ lc3_streams' = [lc3_streams EXCEPT ![i] = [freed EXCEPT !.active = TRUE, !.fifo = Tail(@)]]
           /\ delivered' = [delivered EXCEPT ![i] = Head(stream.fifo)]
           /\ load_work' = load_work \cup {i}
     /\ UNCHANGED <<lost_files, upset, calls, read_errors>>
-----------------------------------------------------------------------------
(* lc3_file_open(): a file whose header is wrong, or cannot be read, stays open    *)
(* when it returns.                                                              *)
HostOpens == OpenFiles < NUM_FILES
Refused(f, header) == f \in NotLc3 \/ ~header

\* lc3_streamer_file_compatible_check()
CompatibleCheck(f, header) ==
  /\ Calls /\ HostOpens /\ Reads(header)
  /\ lost_files' = lost_files + (IF Refused(f, header) THEN 1 ELSE 0)
  /\ UNCHANGED <<lc3_streams, load_work, delivered, upset>>

\* Mutant: both blocks are filled from the start.
FirstFrameTwice(stream, ok) == PutNextFrame(PutNextFrame(stream, ok), ok)
FirstFrame(stream, ok) == PutNextFrame(stream, ok)

\* Mutant: a stream that ended by itself is only marked idle.
StreamCloseMarked(stream) == [stream EXCEPT !.state = "idle", !.fifo = <<>>, !.active = FALSE]
StreamClose(stream) == [Closed EXCEPT !.loop = stream.loop]

\* lc3_streamer_stream_register(): the first idle slot; k_work_init() on a work item
\* that is still pending leaves it in the queue (and clears its link to the next
\* item, which is not modelled).
Register(f, loop, header, ok) ==
  LET idle == {j \in StreamSlots : lc3_streams[j].state = "idle"}
      i == CHOOSE j \in idle : \A k \in idle : j <= k
      opened == [StreamClose(lc3_streams[i]) EXCEPT !.file = f, !.name = f, !.ready = TRUE]
  IN /\ Calls /\ idle # {} /\ HostOpens /\ Reads(header /\ ok)
     /\ IF Refused(f, header)
        \* the next registration of the slot, which stays idle, overwrites the file
        THEN ok /\ lost_files' = lost_files + 1 /\ UNCHANGED lc3_streams
        ELSE /\ lc3_streams' = [lc3_streams EXCEPT ![i] =
                  IF PutResult(opened, ok) = "ok"
                  THEN [FirstFrame(opened, ok) EXCEPT !.state = "playing", !.loop = loop]
                  ELSE [opened EXCEPT !.state = "ended"]]
             /\ UNCHANGED lost_files
     /\ delivered' = [delivered EXCEPT ![i] = 0]
     /\ upset' = IF i \in load_work \/ ~header \/ ~ok THEN upset \cup {i} ELSE upset \ {i}
     /\ UNCHANGED load_work

\* lc3_streamer_stream_close() leaves the work item alone, close_all drains the queue.
CloseStream(i) == /\ Calls
                  /\ lc3_streams' = [lc3_streams EXCEPT ![i] = StreamClose(@)]
                  /\ delivered' = [delivered EXCEPT ![i] = 0]
                  /\ upset' = IF i \in load_work THEN upset \cup {i} ELSE upset
                  /\ UNCHANGED <<load_work, lost_files, read_errors>>
CloseAllStreams == /\ Calls /\ load_work = {}
                   /\ lc3_streams' = [i \in StreamSlots |-> StreamClose(lc3_streams[i])]
                   /\ delivered' = [i \in StreamSlots |-> 0] /\ upset' = {}
                   /\ UNCHANGED <<load_work, lost_files, read_errors>>
-----------------------------------------------------------------------------
Lc3Next ==
  \/ \E i \in StreamSlots : NextFrameGet(i) \/ CloseStream(i)
  \/ \E i \in StreamSlots, ok \in BOOLEAN, again \in Rereads : NextFrameLoad(i, ok, again)
  \/ \E f \in Files, header \in BOOLEAN :
       CompatibleCheck(f, header) \/ \E loop, ok \in BOOLEAN : Register(f, loop, header, ok)
  \/ CloseAllStreams

\* The work queue runs, and whoever plays a stream goes on asking for frames.
Lc3Fairness == \A i \in StreamSlots : /\ WF_lc3Vars(NextFrameLoad(i, TRUE, "frame"))
                                      /\ WF_lc3Vars(NextFrameGet(i))
Lc3Spec == Lc3Init /\ [][Lc3Next]_lc3Vars /\ Lc3Fairness
-----------------------------------------------------------------------------
Lc3TypeOK ==
  /\ lc3_streams \in [StreamSlots -> [state : {"idle", "playing", "last_frame", "ended"},
                        loop : BOOLEAN, active : BOOLEAN, file : Files \cup {NoFile},
                        name : Files \cup {NoFile}, pos : Nat, fifo : Seq(Nat), ready : BOOLEAN]]
  /\ \A i \in StreamSlots : BlocksUsed(lc3_streams[i]) <= BUFFER_NUM_FRAMES
  /\ load_work \subseteq StreamSlots /\ upset \subseteq StreamSlots /\ lost_files \in Nat

\* An idle slot owns no file and no block: what is open belongs to a stream that is in
\* use, and closing gives everything back, whatever the stream was doing.
IdleOwnsNothing == \A i \in StreamSlots :
  lc3_streams[i].state = "idle" => lc3_streams[i].file = NoFile /\ BlocksUsed(lc3_streams[i]) = 0

\* Two blocks are enough: with one read in flight for each frame given out, a read never
\* finds the fifo full. So a stream ends at the end of its file, unless the card failed
\* or work of a stream that was closed runs in its slot.
ReadHasRoom == \A i \in StreamSlots \ upset :
  IsPlaying(lc3_streams[i]) =>
    BlocksUsed(lc3_streams[i]) + (IF i \in load_work THEN 1 ELSE 0) <= BUFFER_NUM_FRAMES

\* A file is streamed in its order to its end and then given back, whatever the caller and
\* the work queue did in which order: no frame comes twice and none is left out, a stream
\* that does not loop ends after the last frame, one that loops does not end, and a caller
\* who goes on asking comes to the end of a file that does not loop.
NextInOrder(i) ==
  LET stream == lc3_streams[i]
      last == FramesOf[stream.file]
  IN IsPlaying(stream) =>
       /\ delivered'[i] \notin {delivered[i], 0} =>
            delivered'[i] = IF delivered[i] = last THEN 1 ELSE delivered[i] + 1
       /\ lc3_streams'[i].state = "ended" => ~stream.loop /\ delivered[i] = last
FilesAreStreamed ==
  /\ [](IdleOwnsNothing /\ ReadHasRoom)
  /\ [][\A i \in StreamSlots \ upset' : NextInOrder(i)]_lc3Vars
  /\ \A i \in StreamSlots :
       lc3_streams[i].state = "playing" /\ ~lc3_streams[i].loop ~> lc3_streams[i].state # "playing"
=============================================================================
