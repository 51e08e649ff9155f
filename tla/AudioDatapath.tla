--------------------------- MODULE AudioDatapath ---------------------------
(* src/audio/audio_datapath.c as the headset builds it: the output FIFO between *)
(* stream_out(), which the datapath thread runs for every frame, and the I2S    *)
(* interrupt, which takes one block every millisecond, with the drift and       *)
(* presentation compensation that keep the two in step.                         *)
(*                                                                              *)
(* Times are in the unit of the ISO timestamps, scaled down. The interrupt runs *)
(* once per BLK_PERIOD_US and advances the clock; an SDU arrives Latency after  *)
(* its reference. The thread is preemptible: the interrupt, and a stop from the *)
(* Bluetooth receive thread, may fall between any two of its steps. What the    *)
(* error of the audio clock is, which drift compensation sees, is left open.    *)
EXTENDS Integers, FiniteSets

CONSTANTS
  FIFO_NUM_BLKS, NUM_BLKS_IN_FRAME,
  BLK_PERIOD_US,
  DRIFT_COMP_WAITING_CNT, PRES_COMP_NUM_DATA_PTS,
  AUDIO_MIN_PRES_DLY_US, AUDIO_MAX_PRES_DLY_US, BT_AUDIO_PRESENTATION_DELAY_US,
  PresDelays,      \* the presentation delays that a source may ask for
  Latencies,       \* the transport latencies that SDUs may have
  Jitter,          \* what the latency of one SDU may add to that of its stream
  MaxTime,         \* bound: interrupts, as a time
  MaxOdd,          \* bound: restarts, lost, repeated, skewed, undecodable frames, lost locks
  MaxBusy          \* the interrupts that may fall into the handling of one frame

ASSUME DatapathAssumption ==
  /\ FIFO_NUM_BLKS \in Nat /\ NUM_BLKS_IN_FRAME \in Nat \ {0}
  /\ FIFO_NUM_BLKS > 2 * NUM_BLKS_IN_FRAME      \* a FIFO of 120 and frames of 10 blocks
  /\ BLK_PERIOD_US \in Nat \ {0} /\ BLK_PERIOD_US % 2 = 0
  /\ FIFO_NUM_BLKS = (2 * AUDIO_MAX_PRES_DLY_US) \div BLK_PERIOD_US
  /\ DRIFT_COMP_WAITING_CNT \in Nat /\ PRES_COMP_NUM_DATA_PTS \in Nat \ {0}
  /\ AUDIO_MIN_PRES_DLY_US \in Nat /\ AUDIO_MAX_PRES_DLY_US \in Nat
  /\ BT_AUDIO_PRESENTATION_DELAY_US \in AUDIO_MIN_PRES_DLY_US .. AUDIO_MAX_PRES_DLY_US
  /\ PresDelays \subseteq Nat
  /\ Latencies \subseteq Nat /\ Latencies # {} /\ Jitter \subseteq Nat /\ Jitter # {}
  /\ MaxTime \in Nat /\ MaxOdd \in Nat /\ MaxBusy \in Nat

VARIABLES
  stream_started,
  prod_blk_idx, cons_blk_idx, prod_blk_ts,
  prev_pres_sdu_ref_us, current_pres_dly_us,
  drift_state, drift_ctr,
  pres_state, pres_ctr, sum_err_dly_us, pres_delay_us,
  alt_in_use,            \* alt.buf_0_in_use and alt.buf_1_in_use
  i2s,                   \* the buffers that I2S is sending, and will send next
  now,                   \* the time of the next interrupt
  thread, meta,          \* the datapath thread and the frame it handles
  adj, copied, busy,     \* its loops, and the interrupts since it took the frame
  sdu, latency, odd,                  \* the next SDU reference, its stream, and the bounds
  fill, steady, adjusted \* observed only: blocks in the FIFO; see the properties

fifoVars  == <<prod_blk_idx, cons_blk_idx, prod_blk_ts>>
driftVars == <<drift_state, drift_ctr>>
presVars  == <<pres_state, pres_ctr, sum_err_dly_us>>
loopVars  == <<thread, meta, adj, copied, busy>>
envVars   == <<sdu, latency, odd>>
seenVars  == <<fill, steady, adjusted>>

vars == <<stream_started, fifoVars, prev_pres_sdu_ref_us, current_pres_dly_us, driftVars,
          presVars, pres_delay_us, alt_in_use, i2s, now, loopVars, envVars, seenVars>>

Blocks == 0 .. FIFO_NUM_BLKS - 1

\* Mutant: the last block is followed by one that does not exist.
NextIdxPastEnd(i) == IF i < FIFO_NUM_BLKS THEN i + 1 ELSE 0

NEXT_IDX(i) == IF i < FIFO_NUM_BLKS - 1 THEN i + 1 ELSE 0
PREV_IDX(i) == IF i > 0 THEN i - 1 ELSE FIFO_NUM_BLKS - 1
FRAME == NUM_BLKS_IN_FRAME * BLK_PERIOD_US     \* CONFIG_AUDIO_FRAME_DURATION_US

\* A buffer of I2S is a FIFO block or one of the two alternative buffers.
Block(i)  == [alt |-> FALSE, idx |-> i]
Alt(i)    == [alt |-> TRUE, idx |-> i]
NoBuffers == [sending |-> Alt(0), next |-> Alt(0)]

\* C division truncates towards zero.
Quotient(a, b) == IF a >= 0 THEN a \div b ELSE -((-a) \div b)

filled_blocks_get ==
  CASE cons_blk_idx < prod_blk_idx -> prod_blk_idx - cons_blk_idx
    [] cons_blk_idx > prod_blk_idx -> (FIFO_NUM_BLKS - cons_blk_idx) + prod_blk_idx
    [] OTHER                       -> 0

\* audio_datapath_init()
Init ==
  /\ stream_started = FALSE
  /\ prod_blk_idx = 0 /\ cons_blk_idx = 0 /\ prod_blk_ts = [b \in Blocks |-> 0]
  /\ prev_pres_sdu_ref_us = 0 /\ current_pres_dly_us = 0
  /\ drift_state = "INIT" /\ drift_ctr = 0
  /\ pres_state = "INIT" /\ pres_ctr = 0 /\ sum_err_dly_us = 0
  /\ pres_delay_us = BT_AUDIO_PRESENTATION_DELAY_US
  /\ alt_in_use = {} /\ i2s = NoBuffers
  /\ now = BLK_PERIOD_US
  /\ thread = "wait" /\ meta = [ref_ts_us |-> 0, data_rx_ts_us |-> 0]
  /\ adj = 0 /\ copied = 0 /\ busy = 0
  /\ sdu = 0 /\ latency = 0 /\ odd = 0
  /\ fill = 0 /\ steady = FALSE /\ adjusted = FALSE

-----------------------------------------------------------------------------
(* Start, stop and configuration *)

\* Something out of the ordinary happens.
Odd == odd < MaxOdd /\ odd' = odd + 1

\* audio_datapath_pres_delay_us_set(), by the LE Audio thread before it starts a stream.
PresDelaySet(delay_us) ==
  /\ ~stream_started
  /\ pres_delay_us' = IF delay_us \in AUDIO_MIN_PRES_DLY_US .. AUDIO_MAX_PRES_DLY_US
                      THEN delay_us ELSE pres_delay_us
  /\ UNCHANGED <<stream_started, fifoVars, prev_pres_sdu_ref_us, current_pres_dly_us, driftVars,
                 presVars, alt_in_use, i2s, now, loopVars, envVars, seenVars>>

\* Mutant: the consumer starts where the producer does.
ConsumerAtProducer == 0

\* audio_datapath_i2s_start() takes the two blocks behind the producer, the nearer one first.
ConsumerStart == PREV_IDX(PREV_IDX(0))

\* audio_datapath_start() with a new stream of SDUs. The thread that starts has a lower
\* priority than the datapath thread, which therefore waits.
Start ==
  /\ ~stream_started /\ thread = "wait"
  /\ IF now = BLK_PERIOD_US THEN UNCHANGED odd ELSE Odd
  /\ stream_started' = TRUE
  /\ prod_blk_idx' = 0 /\ cons_blk_idx' = ConsumerStart
  /\ prod_blk_ts' = [b \in Blocks |-> 0]
  /\ i2s' = [sending |-> Block(PREV_IDX(0)), next |-> Block(ConsumerStart)]
  /\ sdu' = now /\ latency' \in Latencies
  /\ fill' = 2 /\ steady' = (drift_state = "INIT") /\ adjusted' = FALSE
  /\ UNCHANGED <<prev_pres_sdu_ref_us, current_pres_dly_us, driftVars, presVars, pres_delay_us,
                 alt_in_use, now, loopVars>>

\* audio_datapath_stop(); what drift compensation has learnt is kept.
Stop ==
  /\ stream_started
  /\ stream_started' = FALSE
  /\ i2s' = NoBuffers /\ alt_in_use' = {}
  /\ prev_pres_sdu_ref_us' = 0
  /\ pres_state' = "INIT"
  /\ UNCHANGED <<fifoVars, current_pres_dly_us, driftVars, pres_ctr, sum_err_dly_us,
                 pres_delay_us, now, loopVars, envVars, seenVars>>

-----------------------------------------------------------------------------
(* The I2S interrupt *)

\* audio_datapath_drift_compensation(): a wait in every state but INIT, then whether the
\* calibrated frequency is valid, and whether the error is within the thresholds.
DriftWaits == drift_state # "INIT" /\ drift_ctr + 1 < DRIFT_COMP_WAITING_CNT

DriftCompensation ==
  \/ /\ DriftWaits
     /\ drift_ctr' = drift_ctr + 1
     /\ UNCHANGED <<drift_state, odd>>
  \/ /\ drift_state = "INIT"
     /\ drift_state' = IF prev_pres_sdu_ref_us # 0 THEN "CALIB" ELSE "INIT"
     /\ UNCHANGED <<drift_ctr, odd>>
  \/ /\ ~DriftWaits
     /\ drift_ctr' = 0
     /\ \/ drift_state = "CALIB"  /\ drift_state' = "OFFSET" /\ UNCHANGED odd
        \/ drift_state = "CALIB"  /\ drift_state' = "INIT"   /\ Odd
        \/ drift_state = "OFFSET" /\ drift_state' = "LOCKED" /\ UNCHANGED odd
        \/ drift_state = "OFFSET" /\ drift_state' = "OFFSET" /\ Odd
        \/ drift_state = "LOCKED" /\ drift_state' = "LOCKED" /\ UNCHANGED odd
        \/ drift_state = "LOCKED" /\ drift_state' = "INIT"   /\ Odd

\* Mutant: a buffer that has been sent is not freed.
AltKept == alt_in_use

\* alt_buffer_free() of the buffer that has been sent.
AltAfterFree == IF i2s.sending.alt THEN alt_in_use \ {i2s.sending.idx} ELSE alt_in_use

\* Mutant: the consumer takes the last block too.
UnderrunWhenEmpty == cons_blk_idx = prod_blk_idx

\* There is no block after the one that is being taken.
Underrun == NEXT_IDX(cons_blk_idx) = prod_blk_idx

\* The SDUs that are due have arrived, and the thread is not starved.
InTime == /\ \E j \in Jitter : now - 1 < sdu + latency + j
          /\ thread # "wait" => busy < MaxBusy

\* audio_datapath_i2s_blk_complete()
I2sBlkComplete ==
  /\ stream_started /\ now < MaxTime /\ InTime
  /\ current_pres_dly_us' = now - prod_blk_ts[cons_blk_idx]
  /\ IF ~Underrun
     THEN /\ cons_blk_idx' = NEXT_IDX(cons_blk_idx)
          /\ i2s' = [sending |-> i2s.next, next |-> Block(NEXT_IDX(cons_blk_idx))]
          /\ alt_in_use' = AltAfterFree
          /\ fill' = fill - 1
     ELSE LET free == {0, 1} \ AltAfterFree
              buf  == IF 0 \in free THEN 0 ELSE 1
          IN  /\ free # {}
              /\ i2s' = [sending |-> i2s.next, next |-> Alt(buf)]
              /\ alt_in_use' = AltAfterFree \cup {buf}
              /\ UNCHANGED <<cons_blk_idx, fill>>
  /\ DriftCompensation
  /\ now' = now + BLK_PERIOD_US
  /\ busy' = IF thread = "wait" THEN 0 ELSE busy + 1
  /\ steady' = (steady /\ (drift_state = "LOCKED" => drift_state' = "LOCKED"))
  /\ UNCHANGED <<stream_started, prod_blk_idx, prod_blk_ts, prev_pres_sdu_ref_us, presVars,
                 pres_delay_us, thread, meta, adj, copied, sdu, latency, adjusted>>

-----------------------------------------------------------------------------
(* audio_datapath_stream_out(), on the datapath thread *)

\* The thread takes a frame with the reference ref, received at rx.
Take(ref, rx) ==
  /\ thread = "wait" /\ stream_started
  /\ meta' = [ref_ts_us |-> ref, data_rx_ts_us |-> rx]
  /\ thread' = "begin" /\ busy' = 0
  /\ UNCHANGED <<stream_started, fifoVars, prev_pres_sdu_ref_us, current_pres_dly_us, driftVars,
                 presVars, pres_delay_us, alt_in_use, i2s, now, adj, copied, latency,
                 fill, adjusted>>

\* The next SDU arrives; its reference may be off by a little.
SduArrives ==
  \E j \in Jitter :
    /\ now - 1 = sdu + latency + j
    /\ sdu' = sdu + FRAME
    /\ \/ Take(sdu, now - 1) /\ UNCHANGED odd /\ steady' = steady
       \/ Take(sdu + 1, now - 1) /\ Odd /\ steady' = FALSE

\* The next SDU is lost on its way.
SduLost ==
  /\ stream_started /\ Odd
  /\ \E j \in Jitter : now - 1 = sdu + latency + j
  /\ sdu' = sdu + FRAME /\ steady' = FALSE
  /\ UNCHANGED <<stream_started, fifoVars, prev_pres_sdu_ref_us, current_pres_dly_us, driftVars,
                 presVars, pres_delay_us, alt_in_use, i2s, now, loopVars, latency, fill,
                 adjusted>>

\* The last frame comes again, as when the channels of an SDU were not joined.
SduRepeated ==
  /\ prev_pres_sdu_ref_us # 0
  /\ Take(meta.ref_ts_us, now - 1) /\ Odd
  /\ UNCHANGED <<sdu, steady>>

\* The reference after that of the last frame: whether it is that of a later frame, and an
\* estimate for one that is not exactly a frame later. (SDU_REF_CH_DELTA_MAX_US is below the
\* resolution of the clock here.)
Delta           == meta.ref_ts_us - prev_pres_sdu_ref_us
NotConsecutive  == prev_pres_sdu_ref_us # 0 /\ ~(0 <= Delta /\ Delta < FRAME + FRAME \div 2)
EstimatedSduRef == IF prev_pres_sdu_ref_us = 0 \/ NotConsecutive THEN meta.ref_ts_us
                   ELSE prev_pres_sdu_ref_us + FRAME

\* The number of blocks that correct an average error, to the nearest one and limited.
AdjustBlocks(err) ==
  LET half == BLK_PERIOD_US \div 2
      blks == IF err = 0 THEN 0
              ELSE Quotient(IF err > 0 THEN err + half ELSE err - half, BLK_PERIOD_US)
      max  == FIFO_NUM_BLKS \div 2
  IN  IF blks > max THEN max ELSE IF blks < -max THEN -max ELSE blks

Enter(state, ctr, sum) == pres_state' = state /\ pres_ctr' = ctr /\ sum_err_dly_us' = sum

\* Mutant: measure again at once, while blocks from before the correction are still played.
WaitNotAtAll(ctr) == TRUE

\* In WAIT every block that was in the FIFO is played before the delay is measured again.
WaitIsOver(ctr) == ctr > FIFO_NUM_BLKS \div NUM_BLKS_IN_FRAME

\* audio_datapath_presentation_compensation(): the next state, and the blocks to insert or remove.
PresentationCompensation ==
  LET state  == IF NotConsecutive THEN "WAIT" ELSE pres_state
      ctr    == IF NotConsecutive THEN 0 ELSE pres_ctr
      wanted == pres_delay_us - (meta.data_rx_ts_us - EstimatedSduRef)
      half   == BLK_PERIOD_US \div 2
      err    == Quotient(sum_err_dly_us, PRES_COMP_NUM_DATA_PTS)
  IN  CASE drift_state # "LOCKED" -> Enter("INIT", pres_ctr, sum_err_dly_us) /\ adj' = 0
        [] drift_state = "LOCKED" /\ state = "INIT" -> Enter("MEAS", 0, 0) /\ adj' = 0
        [] drift_state = "LOCKED" /\ state = "MEAS" /\ ctr < PRES_COMP_NUM_DATA_PTS ->
             Enter("MEAS", ctr + 1, sum_err_dly_us + wanted - current_pres_dly_us) /\ adj' = 0
        [] drift_state = "LOCKED" /\ state = "MEAS" /\ ctr >= PRES_COMP_NUM_DATA_PTS ->
             /\ Enter(IF err >= half \/ err <= -half THEN "WAIT" ELSE "LOCKED", 0, sum_err_dly_us)
             /\ adj' = AdjustBlocks(err)
        [] drift_state = "LOCKED" /\ state = "WAIT" ->
             /\ Enter(IF WaitIsOver(ctr) THEN "INIT" ELSE "WAIT", ctr + 1, sum_err_dly_us)
             /\ adj' = 0
        [] OTHER -> UNCHANGED presVars /\ adj' = 0

\* A repeated frame is dropped, and any frame once the stream is stopped.
DropFrame ==
  /\ thread = "begin"
  /\ ~stream_started \/ meta.ref_ts_us = prev_pres_sdu_ref_us
  /\ thread' = "wait"
  /\ UNCHANGED <<stream_started, fifoVars, prev_pres_sdu_ref_us, current_pres_dly_us, driftVars,
                 presVars, pres_delay_us, alt_in_use, i2s, now, meta, adj, copied, busy, envVars,
                 seenVars>>

Compensate ==
  /\ thread = "begin" /\ stream_started /\ meta.ref_ts_us # prev_pres_sdu_ref_us
  /\ prev_pres_sdu_ref_us' = EstimatedSduRef
  /\ PresentationCompensation
  /\ thread' = "adjust"
  /\ adjusted' = (adjusted \/ adj' # 0)
  /\ UNCHANGED <<stream_started, fifoVars, current_pres_dly_us, driftVars, pres_delay_us,
                 alt_in_use, i2s, now, meta, copied, busy, envVars, fill, steady>>

\* One round of the loop that inserts muted blocks ...
InsertBlock ==
  /\ thread = "adjust" /\ adj > 0
  /\ prod_blk_ts' = [prod_blk_ts EXCEPT ![prod_blk_idx] =
                       meta.data_rx_ts_us - adj * BLK_PERIOD_US]
  /\ prod_blk_idx' = NEXT_IDX(prod_blk_idx)
  /\ adj' = adj - 1 /\ fill' = fill + 1
  /\ UNCHANGED <<stream_started, cons_blk_idx, prev_pres_sdu_ref_us, current_pres_dly_us,
                 driftVars, presVars, pres_delay_us, alt_in_use, i2s, now, thread, meta, copied,
                 busy, envVars, steady, adjusted>>

\* ... or removes blocks.
RemoveBlock ==
  /\ thread = "adjust" /\ adj < 0
  /\ prod_blk_idx' = PREV_IDX(prod_blk_idx)
  /\ adj' = adj + 1 /\ fill' = fill - 1
  /\ UNCHANGED <<stream_started, cons_blk_idx, prod_blk_ts, prev_pres_sdu_ref_us,
                 current_pres_dly_us, driftVars, presVars, pres_delay_us, alt_in_use, i2s, now,
                 thread, meta, copied, busy, envVars, steady, adjusted>>

Overrun == filled_blocks_get + NUM_BLKS_IN_FRAME > FIFO_NUM_BLKS

\* A frame that does not decode to the right size, or that finds the FIFO full, is discarded.
\* The codec of a stopped stream is gone; what it returns then is not initialised.
Discard ==
  /\ thread = "adjust" /\ adj = 0
  /\ \/ Overrun /\ UNCHANGED odd
     \/ ~stream_started /\ UNCHANGED odd
     \/ ~Overrun /\ stream_started /\ Odd
  /\ thread' = "wait"
  /\ steady' = (steady /\ odd' = odd)
  /\ UNCHANGED <<stream_started, fifoVars, prev_pres_sdu_ref_us, current_pres_dly_us, driftVars,
                 presVars, pres_delay_us, alt_in_use, i2s, now, meta, adj, copied, busy, sdu,
                 latency, fill, adjusted>>

Decode ==
  /\ thread = "adjust" /\ adj = 0 /\ ~Overrun
  /\ thread' = "copy" /\ copied' = 0
  /\ UNCHANGED <<stream_started, fifoVars, prev_pres_sdu_ref_us, current_pres_dly_us, driftVars,
                 presVars, pres_delay_us, alt_in_use, i2s, now, meta, adj, busy, envVars, seenVars>>

OutBlkIdx == (prod_blk_idx + copied) % FIFO_NUM_BLKS

CopyBlock ==
  /\ thread = "copy" /\ copied < NUM_BLKS_IN_FRAME
  /\ prod_blk_ts' = [prod_blk_ts EXCEPT ![OutBlkIdx] =
                       meta.data_rx_ts_us + copied * BLK_PERIOD_US]
  /\ copied' = copied + 1
  /\ UNCHANGED <<stream_started, prod_blk_idx, cons_blk_idx, prev_pres_sdu_ref_us,
                 current_pres_dly_us, driftVars, presVars, pres_delay_us, alt_in_use, i2s, now,
                 thread, meta, adj, busy, envVars, seenVars>>

\* The blocks become visible to the consumer only now.
Publish ==
  /\ thread = "copy" /\ copied = NUM_BLKS_IN_FRAME
  /\ prod_blk_idx' = OutBlkIdx
  /\ fill' = fill + NUM_BLKS_IN_FRAME
  /\ thread' = "wait"
  /\ UNCHANGED <<stream_started, cons_blk_idx, prod_blk_ts, prev_pres_sdu_ref_us,
                 current_pres_dly_us, driftVars, presVars, pres_delay_us, alt_in_use, i2s, now,
                 meta, adj, copied, busy, envVars, steady, adjusted>>

StreamOut == \/ DropFrame \/ Compensate \/ InsertBlock \/ RemoveBlock
             \/ Discard \/ Decode \/ CopyBlock \/ Publish

Next == \/ \E delay_us \in PresDelays : PresDelaySet(delay_us)
        \/ Start \/ Stop
        \/ I2sBlkComplete
        \/ SduArrives \/ SduLost \/ SduRepeated
        \/ StreamOut

Spec == Init /\ [][Next]_vars

-----------------------------------------------------------------------------
(* Properties *)

Buffers == [alt : {FALSE}, idx : Blocks] \cup [alt : {TRUE}, idx : {0, 1}]

TypeOK ==
  /\ stream_started \in BOOLEAN
  /\ prod_blk_idx \in Blocks /\ cons_blk_idx \in Blocks /\ prod_blk_ts \in [Blocks -> Int]
  /\ prev_pres_sdu_ref_us \in Nat /\ current_pres_dly_us \in Int
  /\ drift_state \in {"INIT", "CALIB", "OFFSET", "LOCKED"} /\ drift_ctr \in Nat
  /\ pres_state \in {"INIT", "MEAS", "WAIT", "LOCKED"} /\ pres_ctr \in Nat
  /\ sum_err_dly_us \in Int
  /\ pres_delay_us \in AUDIO_MIN_PRES_DLY_US .. AUDIO_MAX_PRES_DLY_US
  /\ alt_in_use \subseteq {0, 1}
  /\ i2s \in [sending : Buffers, next : Buffers]
  /\ now \in Nat /\ busy \in Nat /\ adj \in Int /\ copied \in 0 .. NUM_BLKS_IN_FRAME
  /\ thread \in {"wait", "begin", "adjust", "copy"}
  /\ meta \in [ref_ts_us : Nat, data_rx_ts_us : Nat]
  /\ sdu \in Nat /\ latency \in Nat /\ odd \in Nat
  /\ fill \in Int /\ steady \in BOOLEAN /\ adjusted \in BOOLEAN

\* However long the FIFO stays empty, the interrupt finds one of the two alternative buffers
\* free, having freed what has been sent: alt_buffer_get() failing would be fatal.
AltBufferFree == stream_started => AltAfterFree # {0, 1}

\* The two indexes tell how many blocks there are, though equal indexes stand for none: neither
\* side, nor the removal of blocks, ever passes the other, and the FIFO is never filled up. Nor do
\* they meet in a block: the thread never writes one that I2S sends or has been given to send next.
NothingOverrun ==
  /\ [](stream_started => filled_blocks_get = fill)
  /\ [][stream_started /\ stream_started' =>
          \A b \in Blocks : prod_blk_ts'[b] # prod_blk_ts[b]
                              => Block(b) \notin {i2s.sending, i2s.next}]_vars

\* A correction fits: the blocks that it inserts leave one free, and of the blocks that it removes
\* one is left, whatever the interrupt takes while the thread handles the frame.
CorrectionFits ==
  Compensate => /\ adj' > 0 => fill + adj' < FIFO_NUM_BLKS
                /\ adj' < 0 => fill + adj' + busy > MaxBusy

\* A frame fits: none is taken that fills the FIFO to the last block, which the test for an overrun
\* lets pass though the indexes would then say that the FIFO is empty.
FrameFits == Decode /\ stream_started => filled_blocks_get + NUM_BLKS_IN_FRAME # FIFO_NUM_BLKS

\* One correction suffices: the next measurement finds the presentation delay within half a block
\* and locks. (steady: since a start without a drift lock nothing odd has happened; adjusted: a
\* correction has been made since.)
OneCorrection == steady /\ adjusted /\ Compensate => adj' = 0

\* What the thread decides from its measurements, without asking how much room there is, fits; and
\* with a constant latency it does not go on correcting for ever.
DecisionsFit == [][CorrectionFits /\ FrameFits /\ OneCorrection]_vars

\* What the code never checks of its configuration and its source, and the FIFO relies on: a frame
\* is handled before the next one comes; what is left of the shortest presentation delay after the
\* longest latency outlasts the handling; and the longest delay, a frame and that handling fit.
MaxJitter == CHOOSE j \in Jitter : \A k \in Jitter : k <= j
HalfBlk   == BLK_PERIOD_US \div 2

Margins ==
  /\ \E j \in Jitter : \A k \in Jitter : k <= j
  /\ MaxBusy > 0 /\ MaxJitter + (MaxBusy + 1) * BLK_PERIOD_US < FRAME
  /\ \A l \in Latencies :
       /\ AUDIO_MIN_PRES_DLY_US > l + 1 + 2 * MaxJitter + MaxBusy * BLK_PERIOD_US + HalfBlk
       /\ AUDIO_MAX_PRES_DLY_US + 2 * MaxJitter + (MaxBusy + 1) * BLK_PERIOD_US + HalfBlk + FRAME
            < FIFO_NUM_BLKS * BLK_PERIOD_US + l + 1
=============================================================================
