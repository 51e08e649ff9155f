------------------------- MODULE AudioDatapathProofs -------------------------
(* The types of the audio datapath, its alternative buffers, and the FIFO between the  *)
(* thread and the interrupt, for every size of the FIFO and of a frame, every latency, *)
(* and every order of interrupts, frames, starts and stops. A steady stream never      *)
(* overruns the FIFO, which is derived from the timing of its SDUs and interrupts.     *)
EXTENDS AudioDatapath, TLAPS

\* The steps that go from one block to another stay in the FIFO.
LEMMA BlocksStay ==
    ASSUME NEW i \in Blocks
    PROVE  NEXT_IDX(i) \in Blocks /\ PREV_IDX(i) \in Blocks
BY DatapathAssumption DEF Blocks, NEXT_IDX, PREV_IDX

LEMMA FirstBlocks == 0 \in Blocks /\ PREV_IDX(0) \in Blocks /\ ConsumerStart \in Blocks
<1>1. 0 \in Blocks
    BY DatapathAssumption DEF Blocks
<1> QED
    BY <1>1, BlocksStay DEF ConsumerStart

\* C division gives an integer.
LEMMA QuotientType ==
    ASSUME NEW a \in Int, NEW b \in Nat \ {0}
    PROVE  Quotient(a, b) \in Int
<1>1. \A c \in Int : c \div b \in Int
    OBVIOUS
<1> QED
    BY <1>1 DEF Quotient

LEMMA AdjustBlocksType ==
    ASSUME NEW err \in Int
    PROVE  AdjustBlocks(err) \in Int
<1> DEFINE half == BLK_PERIOD_US \div 2
           max  == FIFO_NUM_BLKS \div 2
           e    == IF err > 0 THEN err + half ELSE err - half
           blks == IF err = 0 THEN 0 ELSE Quotient(e, BLK_PERIOD_US)
<1>1. half \in Int /\ max \in Int
    BY DatapathAssumption
<1>2. e \in Int
    <2> HIDE DEF half
    <2> QED
        BY <1>1
<1>3. blks \in Int
    <2> HIDE DEF e
    <2> QED
        BY <1>2, DatapathAssumption, QuotientType
<1>4. AdjustBlocks(err) = IF blks > max THEN max ELSE IF blks < -max THEN -max ELSE blks
    BY DEF AdjustBlocks
<1> HIDE DEF half, max, e, blks
<1> QED
    BY <1>1, <1>3, <1>4

\* The types, and that the clock has begun.
TypeInv == TypeOK /\ now > 0

\* The alternative buffers in use are those that I2S has: none while it is stopped, and
\* never the same one twice.
AltsOf(b) == IF b.alt THEN {b.idx} ELSE {}
AltInv == /\ ~stream_started => alt_in_use = {}
          /\ stream_started => /\ alt_in_use = AltsOf(i2s.sending) \cup AltsOf(i2s.next)
                               /\ AltsOf(i2s.sending) \cap AltsOf(i2s.next) = {}

\* Where the two buffers of I2S are of the types of buffers.
LEMMA BufferKinds ==
    ASSUME NEW i \in Blocks, NEW j \in {0, 1}
    PROVE  /\ Block(i) \in Buffers /\ Alt(j) \in Buffers
           /\ AltsOf(Block(i)) = {} /\ AltsOf(Alt(j)) = {j}
BY DEF Block, Alt, Buffers, AltsOf

LEMMA AltsInTwo ==
    ASSUME NEW b \in Buffers
    PROVE  AltsOf(b) = {} \/ AltsOf(b) = {0} \/ AltsOf(b) = {1}
<1>1. CASE b \in [alt : {FALSE}, idx : Blocks]
    BY <1>1 DEF AltsOf
<1>2. CASE b \in [alt : {TRUE}, idx : {0, 1}]
    BY <1>2 DEF AltsOf
<1> QED
    BY <1>1, <1>2 DEF Buffers

USE DEF fifoVars, driftVars, presVars, loopVars, envVars, seenVars

\* Starting, stopping and configuring.
LEMMA ControlTypes ==
    ASSUME TypeInv,
           (\E delay_us \in PresDelays : PresDelaySet(delay_us)) \/ Start \/ Stop
    PROVE  TypeInv'
<1> USE DatapathAssumption
<1>1. CASE \E delay_us \in PresDelays : PresDelaySet(delay_us)
    BY <1>1 DEF PresDelaySet, TypeInv, TypeOK
<1>2. NoBuffers \in [sending : Buffers, next : Buffers]
    BY BufferKinds, FirstBlocks DEF NoBuffers
<1>3. [sending |-> Block(PREV_IDX(0)), next |-> Block(ConsumerStart)]
          \in [sending : Buffers, next : Buffers]
    BY BufferKinds, FirstBlocks
<1>4. CASE Start
    <2>1. steady' \in BOOLEAN /\ adjusted' \in BOOLEAN /\ stream_started' \in BOOLEAN
        BY <1>4, Zenon DEF Start
    <2>2. odd' \in Nat
        BY <1>4 DEF Start, Odd, TypeInv, TypeOK
    <2>3. sdu' \in Nat /\ latency' \in Nat /\ fill' \in Int
        BY <1>4 DEF Start, TypeInv, TypeOK
    <2>4. /\ prod_blk_idx' \in Blocks /\ cons_blk_idx' \in Blocks
          /\ prod_blk_ts' \in [Blocks -> Int]
          /\ i2s' \in [sending : Buffers, next : Buffers]
        BY <1>3, <1>4, FirstBlocks DEF Start
    <2> QED
        BY <1>4, <2>1, <2>2, <2>3, <2>4 DEF Start, TypeInv, TypeOK
<1>5. CASE Stop
    <2>1. stream_started' \in BOOLEAN
        BY <1>5, Zenon DEF Stop
    <2> QED
        BY <1>2, <1>5, <2>1 DEF Stop, TypeInv, TypeOK
<1> QED
    BY <1>1, <1>4, <1>5

\* The interrupt.
LEMMA InterruptTypes ==
    ASSUME TypeInv, I2sBlkComplete
    PROVE  TypeInv'
<1> USE DatapathAssumption
<1>1. /\ drift_state' \in {"INIT", "CALIB", "OFFSET", "LOCKED"}
      /\ drift_ctr' \in Nat /\ odd' \in Nat
    <2>1. DriftCompensation
        BY DEF I2sBlkComplete
    <2> QED
        BY <2>1 DEF DriftCompensation, Odd, TypeInv, TypeOK
<1>2. /\ cons_blk_idx' \in Blocks /\ i2s' \in [sending : Buffers, next : Buffers]
      /\ alt_in_use' \subseteq {0, 1} /\ fill' \in Int
    <2>1. cons_blk_idx \in Blocks /\ i2s.next \in Buffers /\ AltAfterFree \subseteq {0, 1}
        BY DEF TypeInv, TypeOK, AltAfterFree
    <2>2. CASE Underrun
        <3>1. PICK buf \in {0, 1} :
                  /\ i2s' = [sending |-> i2s.next, next |-> Alt(buf)]
                  /\ alt_in_use' = AltAfterFree \cup {buf}
                  /\ UNCHANGED <<cons_blk_idx, fill>>
            BY <2>2 DEF I2sBlkComplete
        <3>2. Alt(buf) \in Buffers
            BY FirstBlocks, BufferKinds
        <3> QED
            BY <2>1, <3>1, <3>2 DEF TypeInv, TypeOK
    <2>3. CASE ~Underrun
        <3>1. /\ cons_blk_idx' = NEXT_IDX(cons_blk_idx)
              /\ i2s' = [sending |-> i2s.next, next |-> Block(NEXT_IDX(cons_blk_idx))]
              /\ alt_in_use' = AltAfterFree /\ fill' = fill - 1
            BY <2>3 DEF I2sBlkComplete
        <3>2. NEXT_IDX(cons_blk_idx) \in Blocks
            BY <2>1, BlocksStay
        <3>3. Block(NEXT_IDX(cons_blk_idx)) \in Buffers
            BY <3>2, BufferKinds
        <3> QED
            BY <2>1, <3>1, <3>2, <3>3 DEF TypeInv, TypeOK
    <2> QED
        BY <2>2, <2>3
<1>3. /\ current_pres_dly_us' \in Int /\ now' \in Nat /\ now' > 0 /\ busy' \in Nat
    <2>1. prod_blk_ts[cons_blk_idx] \in Int
        BY DEF TypeInv, TypeOK
    <2> QED
        BY <2>1 DEF I2sBlkComplete, TypeInv, TypeOK
<1>4. steady' \in BOOLEAN
    BY Zenon DEF I2sBlkComplete
<1> QED
    BY <1>1, <1>2, <1>3, <1>4 DEF I2sBlkComplete, TypeInv, TypeOK

\* Frames that arrive, are lost or are repeated.
LEMMA ArrivalTypes ==
    ASSUME TypeInv, SduArrives \/ SduLost \/ SduRepeated
    PROVE  TypeInv'
<1> USE DatapathAssumption
<1>1. FRAME \in Nat
    BY DEF FRAME
<1>2. ASSUME NEW ref \in Nat, Take(ref, now - 1), sdu' \in Nat, odd' \in Nat, steady' \in BOOLEAN
      PROVE  TypeInv'
    <2>1. meta' \in [ref_ts_us : Nat, data_rx_ts_us : Nat]
        BY <1>2 DEF Take, TypeInv, TypeOK
    <2> QED
        BY <1>2, <2>1 DEF Take, TypeInv, TypeOK
<1>3. CASE SduArrives
    <2>1. sdu \in Nat /\ sdu + 1 \in Nat
        BY DEF TypeInv, TypeOK
    <2>2. sdu' \in Nat
        BY <1>1, <1>3, <2>1 DEF SduArrives
    <2>3. CASE Take(sdu, now - 1) /\ UNCHANGED odd /\ steady' = steady
        BY <1>2, <2>1, <2>2, <2>3 DEF TypeInv, TypeOK
    <2>4. CASE Take(sdu + 1, now - 1) /\ Odd /\ steady' = FALSE
        <3>1. odd' \in Nat
            BY <2>4 DEF Odd, TypeInv, TypeOK
        <3>2. steady' \in BOOLEAN
            BY <2>4, Zenon
        <3> QED
            BY <1>2, <2>1, <2>2, <2>4, <3>1, <3>2
    <2> QED
        BY <1>3, <2>3, <2>4 DEF SduArrives
<1>4. CASE SduLost
    <2>1. steady' \in BOOLEAN
        BY <1>4, Zenon DEF SduLost
    <2>2. sdu' \in Nat /\ odd' \in Nat
        BY <1>1, <1>4 DEF SduLost, Odd, TypeInv, TypeOK
    <2> QED
        BY <1>4, <2>1, <2>2 DEF SduLost, TypeInv, TypeOK
<1>5. CASE SduRepeated
    <2>1. meta.ref_ts_us \in Nat /\ Take(meta.ref_ts_us, now - 1)
        BY <1>5 DEF SduRepeated, TypeInv, TypeOK
    <2>2. sdu' \in Nat /\ odd' \in Nat /\ steady' \in BOOLEAN
        BY <1>5 DEF SduRepeated, Odd, TypeInv, TypeOK
    <2> QED
        BY <1>2, <2>1, <2>2
<1> QED
    BY <1>3, <1>4, <1>5

\* What presentation compensation computes.
LEMMA CompensationTypes ==
    ASSUME TypeInv, Compensate
    PROVE  TypeInv'
<1> USE DatapathAssumption
<1>1. FRAME \in Nat
    BY DEF FRAME
<1>2. EstimatedSduRef \in Nat
    BY <1>1 DEF EstimatedSduRef, TypeInv, TypeOK
<1> DEFINE state  == IF NotConsecutive THEN "WAIT" ELSE pres_state
           ctr    == IF NotConsecutive THEN 0 ELSE pres_ctr
           wanted == pres_delay_us - (meta.data_rx_ts_us - EstimatedSduRef)
           half   == BLK_PERIOD_US \div 2
           err    == Quotient(sum_err_dly_us, PRES_COMP_NUM_DATA_PTS)
           room   == IF err >= half \/ err <= -half THEN "WAIT" ELSE "LOCKED"
           over   == IF WaitIsOver(ctr) THEN "INIT" ELSE "WAIT"
<1>3. ctr \in Nat /\ wanted \in Int /\ sum_err_dly_us + wanted - current_pres_dly_us \in Int
    BY <1>2 DEF TypeInv, TypeOK
<1>4. AdjustBlocks(err) \in Int
    <2>1. err \in Int
        BY QuotientType DEF TypeInv, TypeOK
    <2> QED
        BY <2>1, AdjustBlocksType
<1>5. room \in {"WAIT", "LOCKED"} /\ over \in {"INIT", "WAIT"}
    OBVIOUS
<1>6. \/ Enter("INIT", pres_ctr, sum_err_dly_us) /\ adj' = 0
      \/ Enter("MEAS", 0, 0) /\ adj' = 0
      \/ Enter("MEAS", ctr + 1, sum_err_dly_us + wanted - current_pres_dly_us) /\ adj' = 0
      \/ Enter(room, 0, sum_err_dly_us) /\ adj' = AdjustBlocks(err)
      \/ Enter(over, ctr + 1, sum_err_dly_us) /\ adj' = 0
      \/ UNCHANGED presVars /\ adj' = 0
    <2>1. PresentationCompensation
        BY DEF Compensate
    <2> QED
        BY <2>1, Zenon DEF PresentationCompensation
<1> HIDE DEF state, ctr, wanted, half, err, room, over
<1>7. /\ pres_state' \in {"INIT", "MEAS", "WAIT", "LOCKED"} /\ pres_ctr' \in Nat
      /\ sum_err_dly_us' \in Int /\ adj' \in Int
    BY <1>3, <1>4, <1>5, <1>6 DEF Enter, TypeInv, TypeOK
<1>8. adjusted' \in BOOLEAN
    BY Zenon DEF Compensate
<1> QED
    BY <1>2, <1>7, <1>8 DEF Compensate, TypeInv, TypeOK

\* The rest of stream_out().
LEMMA StreamOutTypes ==
    ASSUME TypeInv, StreamOut
    PROVE  TypeInv'
<1> USE DatapathAssumption
<1>1. CASE DropFrame
    BY <1>1 DEF DropFrame, TypeInv, TypeOK
<1>2. CASE InsertBlock
    <2>1. adj \in Int /\ meta.data_rx_ts_us - adj * BLK_PERIOD_US \in Int
        BY DEF TypeInv, TypeOK
    <2>2. NEXT_IDX(prod_blk_idx) \in Blocks
        BY BlocksStay DEF TypeInv, TypeOK
    <2> QED
        BY <1>2, <2>1, <2>2 DEF InsertBlock, TypeInv, TypeOK
<1>3. CASE RemoveBlock
    <2>1. PREV_IDX(prod_blk_idx) \in Blocks
        BY BlocksStay DEF TypeInv, TypeOK
    <2> QED
        BY <1>3, <2>1 DEF RemoveBlock, TypeInv, TypeOK
<1>4. CASE Discard
    <2>1. odd' \in Nat
        BY <1>4 DEF Discard, Odd, TypeInv, TypeOK
    <2>2. steady' \in BOOLEAN
        BY <1>4, Zenon DEF Discard
    <2> QED
        BY <1>4, <2>1, <2>2 DEF Discard, TypeInv, TypeOK
<1>5. CASE Decode
    BY <1>5 DEF Decode, TypeInv, TypeOK
<1>6. CASE CopyBlock
    <2>1. copied \in Nat /\ meta.data_rx_ts_us + copied * BLK_PERIOD_US \in Int
        BY DEF TypeInv, TypeOK
    <2>2. copied' \in 0 .. NUM_BLKS_IN_FRAME
        BY <1>6 DEF CopyBlock, TypeInv, TypeOK
    <2>3. prod_blk_ts' \in [Blocks -> Int]
        BY <1>6, <2>1 DEF CopyBlock, TypeInv, TypeOK
    <2> QED
        BY <1>6, <2>2, <2>3 DEF CopyBlock, TypeInv, TypeOK
<1>7. CASE Publish
    <2>1. OutBlkIdx \in Blocks
        <3>1. prod_blk_idx + copied \in Nat /\ FIFO_NUM_BLKS \in Nat \ {0}
            BY DEF TypeInv, TypeOK, Blocks
        <3>2. \A a \in Nat, b \in Nat \ {0} : a % b \in 0 .. b - 1
            OBVIOUS
        <3> QED
            BY <3>1, <3>2 DEF OutBlkIdx, Blocks
    <2> QED
        BY <1>7, <2>1 DEF Publish, TypeInv, TypeOK
<1> QED
    BY <1>1, <1>2, <1>3, <1>4, <1>5, <1>6, <1>7, CompensationTypes DEF StreamOut

\* Where no buffer of I2S changes and nothing starts or stops, the books are as they were.
LEMMA AltUntouched ==
    ASSUME AltInv, UNCHANGED <<stream_started, alt_in_use, i2s>>
    PROVE  AltInv'
BY DEF AltInv, AltsOf

\* What freeing the buffer that has been sent leaves: the one to be sent next, at most.
LEMMA AltFreed ==
    ASSUME TypeInv, AltInv, stream_started
    PROVE  AltAfterFree = AltsOf(i2s.next)
<1>1. i2s.sending \in Buffers /\ i2s.next \in Buffers
    BY DEF TypeInv, TypeOK
<1>2. AltAfterFree = alt_in_use \ AltsOf(i2s.sending)
    BY Zenon DEF AltAfterFree, AltsOf
<1>3. /\ alt_in_use = AltsOf(i2s.sending) \cup AltsOf(i2s.next)
      /\ AltsOf(i2s.sending) \cap AltsOf(i2s.next) = {}
    BY DEF AltInv
<1> QED
    BY <1>2, <1>3

\* The interrupt hands a buffer on, frees the one before it and may take another one.
LEMMA AltHandedOn ==
    ASSUME TypeInv, AltInv, I2sBlkComplete
    PROVE  AltInv'
<1>1. stream_started /\ stream_started' = stream_started
    BY DEF I2sBlkComplete
<1>2. AltAfterFree = AltsOf(i2s.next)
    BY <1>1, AltFreed
<1>3. CASE Underrun
    <2>1. PICK buf \in {0, 1} \ AltAfterFree :
              /\ i2s' = [sending |-> i2s.next, next |-> Alt(buf)]
              /\ alt_in_use' = AltAfterFree \cup {buf}
        BY <1>3 DEF I2sBlkComplete
    <2>2. AltsOf(Alt(buf)) = {buf}
        BY FirstBlocks, BufferKinds
    <2>3. i2s'.sending = i2s.next /\ i2s'.next = Alt(buf)
        BY <2>1
    <2> QED
        BY <1>1, <1>2, <2>1, <2>2, <2>3 DEF AltInv
<1>4. CASE ~Underrun
    <2>1. /\ i2s' = [sending |-> i2s.next, next |-> Block(NEXT_IDX(cons_blk_idx))]
          /\ alt_in_use' = AltAfterFree
        BY <1>4 DEF I2sBlkComplete
    <2>2. AltsOf(Block(NEXT_IDX(cons_blk_idx))) = {}
        BY BlocksStay, BufferKinds DEF TypeInv, TypeOK
    <2>3. i2s'.sending = i2s.next /\ i2s'.next = Block(NEXT_IDX(cons_blk_idx))
        BY <2>1
    <2> QED
        BY <1>1, <1>2, <2>1, <2>2, <2>3 DEF AltInv
<1> QED
    BY <1>3, <1>4

\* Every step keeps both.
LEMMA DatapathKept == TypeInv /\ AltInv /\ [Next]_vars => TypeInv' /\ AltInv'
<1> SUFFICES ASSUME TypeInv, AltInv, [Next]_vars PROVE TypeInv' /\ AltInv'
    OBVIOUS
<1>1. CASE \E delay_us \in PresDelays : PresDelaySet(delay_us)
    <2>1. AltInv'
        BY <1>1, AltUntouched DEF PresDelaySet
    <2> QED
        BY <1>1, <2>1, ControlTypes
<1>2. CASE Start
    <2>1. stream_started' /\ alt_in_use' = {}
        BY <1>2 DEF Start, AltInv
    <2>2. /\ i2s'.sending = Block(PREV_IDX(0)) /\ i2s'.next = Block(ConsumerStart)
          /\ AltsOf(Block(PREV_IDX(0))) = {} /\ AltsOf(Block(ConsumerStart)) = {}
        BY <1>2, FirstBlocks, BufferKinds DEF Start
    <2> QED
        BY <1>2, <2>1, <2>2, ControlTypes DEF AltInv
<1>3. CASE Stop
    <2>1. ~stream_started' /\ alt_in_use' = {}
        BY <1>3 DEF Stop
    <2> QED
        BY <1>3, <2>1, ControlTypes DEF AltInv
<1>4. CASE I2sBlkComplete
    BY <1>4, InterruptTypes, AltHandedOn
<1>5. CASE SduArrives \/ SduLost \/ SduRepeated
    <2>1. UNCHANGED <<stream_started, alt_in_use, i2s>>
        BY <1>5 DEF SduArrives, SduLost, SduRepeated, Take
    <2> QED
        BY <1>5, <2>1, ArrivalTypes, AltUntouched
<1>6. CASE StreamOut
    <2>1. UNCHANGED <<stream_started, alt_in_use, i2s>>
        BY <1>6 DEF StreamOut, DropFrame, Compensate, InsertBlock, RemoveBlock, Discard, Decode,
                    CopyBlock, Publish
    <2> QED
        BY <1>6, <2>1, StreamOutTypes, AltUntouched
<1>7. CASE UNCHANGED vars
    <2>1. TypeInv'
        BY <1>7 DEF vars, TypeInv, TypeOK
    <2>2. UNCHANGED <<stream_started, alt_in_use, i2s>>
        BY <1>7 DEF vars
    <2> QED
        BY <2>1, <2>2, AltUntouched
<1> QED
    BY <1>1, <1>2, <1>3, <1>4, <1>5, <1>6, <1>7 DEF Next

LEMMA DatapathAtStart == Init => TypeInv /\ AltInv
<1> SUFFICES ASSUME Init PROVE TypeInv /\ AltInv
    OBVIOUS
<1> USE DatapathAssumption
<1>1. stream_started \in BOOLEAN /\ steady \in BOOLEAN /\ adjusted \in BOOLEAN
    BY Zenon DEF Init
<1>2. i2s \in [sending : Buffers, next : Buffers]
    BY BufferKinds, FirstBlocks DEF Init, NoBuffers
<1>3. prod_blk_idx \in Blocks /\ cons_blk_idx \in Blocks /\ prod_blk_ts \in [Blocks -> Int]
    BY FirstBlocks DEF Init
<1>4. TypeInv
    BY <1>1, <1>2, <1>3 DEF Init, TypeInv, TypeOK
<1>5. AltInv
    BY DEF Init, AltInv
<1> QED
    BY <1>4, <1>5

\* The indexes stay in the FIFO, and the buffers of I2S are blocks of it or one of the two
\* alternative ones, whatever is inserted, removed, lost or repeated.
THEOREM DatapathTypesCorrect == Spec => []TypeOK
<1>1. TypeInv => TypeOK
    BY DEF TypeInv
<1> QED
    BY <1>1, DatapathAtStart, DatapathKept, PTL DEF Spec

\* alt_buffer_get() never fails in the interrupt: of the two alternative buffers only the
\* one to be sent next is in use, however long the FIFO stays empty and across restarts.
THEOREM AltBufferAlwaysFree == Spec => []AltBufferFree
<1>1. TypeInv /\ AltInv => AltBufferFree
    <2> SUFFICES ASSUME TypeInv, AltInv, stream_started PROVE AltAfterFree # {0, 1}
        BY DEF AltBufferFree
    <2>1. AltAfterFree = AltsOf(i2s.next)
        BY AltFreed
    <2>2. i2s.next \in Buffers
        BY DEF TypeInv, TypeOK
    <2> QED
        BY <2>1, <2>2, AltsInTwo
<1> QED
    BY <1>1, DatapathAtStart, DatapathKept, PTL DEF Spec
-----------------------------------------------------------------------------
(* The FIFO: the producer is fill blocks ahead of the consumer, around the end. *)

Ahead(i, n) == IF i + n < FIFO_NUM_BLKS THEN i + n ELSE i + n - FIFO_NUM_BLKS

LEMMA FifoSize == FIFO_NUM_BLKS \in Nat /\ FIFO_NUM_BLKS > 2 /\ NUM_BLKS_IN_FRAME \in Nat \ {0}
BY DatapathAssumption

\* Equal indexes stand for no block, but no more than that is lost.
LEMMA FilledIsAhead ==
    ASSUME cons_blk_idx \in Blocks, NEW n \in 0 .. FIFO_NUM_BLKS - 1,
           prod_blk_idx = Ahead(cons_blk_idx, n)
    PROVE  filled_blocks_get = n
BY FifoSize DEF filled_blocks_get, Ahead, Blocks

\* What a step of either index does to the distance.
LEMMA AheadSteps ==
    ASSUME NEW i \in Blocks, NEW n \in 0 .. FIFO_NUM_BLKS - 1
    PROVE  /\ Ahead(i, n) \in Blocks
           /\ n < FIFO_NUM_BLKS - 1 => NEXT_IDX(Ahead(i, n)) = Ahead(i, n + 1)
           /\ n > 0 => /\ PREV_IDX(Ahead(i, n)) = Ahead(i, n - 1)
                       /\ Ahead(NEXT_IDX(i), n - 1) = Ahead(i, n)
           /\ NEXT_IDX(i) = Ahead(i, n) <=> n = 1
           /\ PREV_IDX(NEXT_IDX(i)) = i
BY FifoSize DEF Ahead, Blocks, NEXT_IDX, PREV_IDX

\* A block that is at least one ahead of the consumer, and leaves one free behind it, is neither
\* the consumer's nor the one before that.
LEMMA AheadApart ==
    ASSUME NEW i \in Blocks, NEW n \in 1 .. FIFO_NUM_BLKS - 2
    PROVE  Ahead(i, n) # i /\ Ahead(i, n) # PREV_IDX(i)
BY FifoSize DEF Ahead, Blocks, PREV_IDX

\* The block that a frame's k-th block goes to.
LEMMA AheadModulo ==
    ASSUME NEW i \in Blocks, NEW n \in Nat, NEW k \in Nat, n + k < FIFO_NUM_BLKS
    PROVE  (Ahead(i, n) + k) % FIFO_NUM_BLKS = Ahead(i, n + k)
<1> DEFINE a == Ahead(i, n) + k
<1>1. a \in Nat /\ a < 2 * FIFO_NUM_BLKS
    BY FifoSize DEF Ahead, Blocks
<1>2. a % FIFO_NUM_BLKS = IF a < FIFO_NUM_BLKS THEN a ELSE a - FIFO_NUM_BLKS
    <2> HIDE DEF a
    <2> QED
        BY <1>1, FifoSize
<1>3. Ahead(i, n + k) = IF a < FIFO_NUM_BLKS THEN a ELSE a - FIFO_NUM_BLKS
    BY FifoSize DEF Ahead, Blocks
<1> QED
    BY <1>2, <1>3

\* Between the producer and the consumer there is a block at least, and one is free.
RoomInv == fill \in 1 .. FIFO_NUM_BLKS - 1 /\ prod_blk_idx = Ahead(cons_blk_idx, fill)

\* No interrupt has yet come since the start, which gives I2S the two blocks in the wrong order,
\* and until then no frame is there to be handled.
JustStarted == thread = "wait" /\ prev_pres_sdu_ref_us = 0 /\ sdu >= now

\* I2S has been given the consumer's block or an alternative buffer, and sends the same, or the
\* block before it.
GivenInv   == i2s.next.alt \/ i2s.next = Block(cons_blk_idx)
SendingInv == \/ i2s.sending.alt
              \/ i2s.sending = Block(cons_blk_idx)
              \/ i2s.sending = Block(PREV_IDX(cons_blk_idx))
              \/ JustStarted

\* What is left of a correction fits, and so does the frame that is copied.
AdjustInv == thread = "adjust" => /\ adj > 0 => fill + adj < FIFO_NUM_BLKS
                                  /\ adj < 0 => fill + adj + busy > MaxBusy
CopyInv   == thread = "copy" => fill + NUM_BLKS_IN_FRAME < FIFO_NUM_BLKS

StartedInv == RoomInv /\ GivenInv /\ SendingInv /\ AdjustInv /\ CopyInv
FifoInv    == /\ busy <= MaxBusy
              /\ ~stream_started => prev_pres_sdu_ref_us = 0
              /\ stream_started => StartedInv

\* The numbers that the invariant relates, and the first state after a start.
LEMMA FifoNumbers ==
    ASSUME TypeInv
    PROVE  /\ fill \in Int /\ adj \in Int /\ busy \in Nat /\ MaxBusy \in Nat /\ copied \in Nat
           /\ cons_blk_idx \in Blocks /\ prod_blk_idx \in Blocks
           /\ sdu \in Nat /\ now \in Nat
BY DatapathAssumption DEF TypeInv, TypeOK

LEMMA FifoAfterStart ==
    ASSUME TypeInv, FifoInv, Start
    PROVE  FifoInv'
<1>1. /\ thread' = "wait" /\ prev_pres_sdu_ref_us' = 0 /\ sdu' = now /\ now' = now
      /\ busy' = busy /\ busy <= MaxBusy /\ stream_started'
    BY DEF Start, FifoInv
<1>2. JustStarted'
    BY <1>1, FifoNumbers DEF JustStarted
<1>3. RoomInv'
    <2>1. prod_blk_idx' = 0 /\ cons_blk_idx' = FIFO_NUM_BLKS - 2 /\ fill' = 2
        BY FifoSize DEF Start, ConsumerStart, PREV_IDX
    <2> QED
        BY <2>1, FifoSize DEF RoomInv, Ahead
<1>4. GivenInv'
    BY DEF Start, GivenInv
<1> QED
    BY <1>1, <1>2, <1>3, <1>4 DEF FifoInv, StartedInv, SendingInv, AdjustInv, CopyInv

\* The interrupt: what it takes it takes from what the producer has left.
LEMMA FifoAfterInterrupt ==
    ASSUME TypeInv, FifoInv, I2sBlkComplete
    PROVE  FifoInv'
<1>1. /\ stream_started /\ stream_started' = stream_started /\ StartedInv /\ busy <= MaxBusy
      /\ UNCHANGED <<prod_blk_idx, thread, adj, copied>>
    BY DEF I2sBlkComplete, FifoInv
<1>2. /\ thread = "wait" => busy' = 0
      /\ thread # "wait" => busy' = busy + 1 /\ busy < MaxBusy
    BY DEF I2sBlkComplete, InTime
<1>3. busy' <= MaxBusy
    BY <1>1, <1>2, FifoNumbers
<1>4. \/ /\ NEXT_IDX(cons_blk_idx) = prod_blk_idx
         /\ i2s'.next.alt /\ i2s'.sending = i2s.next
         /\ cons_blk_idx' = cons_blk_idx /\ fill' = fill
      \/ /\ NEXT_IDX(cons_blk_idx) # prod_blk_idx
         /\ i2s'.next = Block(NEXT_IDX(cons_blk_idx)) /\ i2s'.sending = i2s.next
         /\ cons_blk_idx' = NEXT_IDX(cons_blk_idx) /\ fill' = fill - 1
    <2>1. CASE Underrun
        <3>1. PICK buf : /\ i2s' = [sending |-> i2s.next, next |-> Alt(buf)]
                         /\ UNCHANGED <<cons_blk_idx, fill>>
            BY <2>1 DEF I2sBlkComplete
        <3>2. i2s'.sending = i2s.next /\ i2s'.next = Alt(buf)
            BY <3>1
        <3> QED
            BY <2>1, <3>1, <3>2 DEF Underrun, Alt
    <2>2. CASE ~Underrun
        <3>1. /\ i2s' = [sending |-> i2s.next, next |-> Block(NEXT_IDX(cons_blk_idx))]
              /\ cons_blk_idx' = NEXT_IDX(cons_blk_idx) /\ fill' = fill - 1
            BY <2>2 DEF I2sBlkComplete
        <3>2. i2s'.sending = i2s.next /\ i2s'.next = Block(NEXT_IDX(cons_blk_idx))
            BY <3>1
        <3> QED
            BY <2>2, <3>1, <3>2 DEF Underrun
    <2> QED
        BY <2>1, <2>2
<1>5. fill \in 1 .. FIFO_NUM_BLKS - 1 /\ prod_blk_idx = Ahead(cons_blk_idx, fill)
    BY <1>1 DEF StartedInv, RoomInv
<1>6. RoomInv' /\ (fill' = fill \/ fill' = fill - 1)
    <2>1. CASE NEXT_IDX(cons_blk_idx) = prod_blk_idx
        BY <1>1, <1>4, <1>5, <2>1 DEF RoomInv
    <2>2. CASE NEXT_IDX(cons_blk_idx) # prod_blk_idx
        <3>1. fill # 1 /\ Ahead(NEXT_IDX(cons_blk_idx), fill - 1) = prod_blk_idx
            BY <1>5, <2>2, AheadSteps, FifoNumbers
        <3>2. cons_blk_idx' = NEXT_IDX(cons_blk_idx) /\ fill' = fill - 1
            BY <1>4, <2>2
        <3> QED
            BY <1>1, <1>5, <3>1, <3>2, FifoSize DEF RoomInv
    <2> QED
        BY <2>1, <2>2
<1>7. GivenInv'
    BY <1>4 DEF GivenInv
<1>8. SendingInv'
    <2>1. i2s.next.alt \/ i2s.next = Block(cons_blk_idx)
        BY <1>1 DEF StartedInv, GivenInv
    <2>2. PREV_IDX(NEXT_IDX(cons_blk_idx)) = cons_blk_idx
        BY <1>5, AheadSteps, FifoNumbers
    <2> QED
        BY <1>4, <2>1, <2>2 DEF SendingInv
<1>9. AdjustInv'
    <2>1. CASE thread # "adjust"
        BY <1>1, <2>1 DEF AdjustInv
    <2>2. CASE thread = "adjust"
        <3>1. /\ adj > 0 => fill + adj < FIFO_NUM_BLKS
              /\ adj < 0 => fill + adj + busy > MaxBusy
              /\ busy' = busy + 1
            BY <1>1, <1>2, <2>2 DEF StartedInv, AdjustInv
        <3>2. fill' <= fill /\ fill' + busy' >= fill + busy
            BY <1>6, <3>1, FifoNumbers
        <3>3. fill' \in Int
            BY <1>6, FifoNumbers
        <3> QED
            BY <1>1, <3>1, <3>2, <3>3, FifoNumbers, FifoSize DEF AdjustInv
    <2> QED
        BY <2>1, <2>2
<1>10. CopyInv'
    BY <1>1, <1>6, FifoNumbers, FifoSize DEF StartedInv, CopyInv
<1> QED
    BY <1>1, <1>3, <1>6, <1>7, <1>8, <1>9, <1>10 DEF FifoInv, StartedInv

\* A frame that comes, or is lost on its way: the first interrupt has been by then.
LEMMA FifoAfterArrival ==
    ASSUME TypeInv, FifoInv, SduArrives \/ SduLost \/ SduRepeated
    PROVE  FifoInv'
<1>1. /\ UNCHANGED <<stream_started, fill, prod_blk_idx, cons_blk_idx, i2s, adj,
                     prev_pres_sdu_ref_us>>
      /\ stream_started
      /\ (thread' = "begin" /\ busy' = 0) \/ UNCHANGED <<thread, busy>>
    BY DEF SduArrives, SduLost, SduRepeated, Take
<1>2. ~JustStarted
    <2>1. CASE SduArrives \/ SduLost
        <3>1. PICK j \in Jitter : now - 1 = sdu + latency + j
            BY <2>1 DEF SduArrives, SduLost
        <3>2. j \in Nat /\ latency \in Nat
            BY DatapathAssumption DEF TypeInv, TypeOK
        <3> QED
            BY <3>1, <3>2, FifoNumbers DEF JustStarted
    <2>2. CASE SduRepeated
        BY <2>2 DEF SduRepeated, JustStarted
    <2> QED
        BY <2>1, <2>2
<1>3. StartedInv /\ busy <= MaxBusy
    BY <1>1 DEF FifoInv
<1>4. RoomInv' /\ GivenInv' /\ SendingInv'
    BY <1>1, <1>2, <1>3 DEF StartedInv, RoomInv, GivenInv, SendingInv
<1>5. AdjustInv' /\ CopyInv' /\ busy' <= MaxBusy
    BY <1>1, <1>3, FifoNumbers DEF StartedInv, AdjustInv, CopyInv
<1> QED
    BY <1>1, <1>4, <1>5 DEF FifoInv, StartedInv

\* The thread, at whatever point of its frame a stop may have come.
ThreadMoves == UNCHANGED <<stream_started, cons_blk_idx, i2s, busy>>

LEMMA ThreadSteps ==
    ASSUME StreamOut
    PROVE  /\ ThreadMoves
           /\ ~stream_started => prev_pres_sdu_ref_us' = prev_pres_sdu_ref_us
           /\ thread # "wait"
BY DEF ThreadMoves, StreamOut, DropFrame, Compensate, InsertBlock, RemoveBlock, Discard, Decode,
       CopyBlock, Publish

\* The thread does not touch what I2S has.
LEMMA I2sKept ==
    ASSUME StartedInv, ThreadMoves, thread # "wait"
    PROVE  GivenInv' /\ SendingInv'
BY DEF StartedInv, GivenInv, SendingInv, JustStarted, ThreadMoves

\* The steps of the thread that move no index.
LEMMA FifoAfterDecision ==
    ASSUME TypeInv, StartedInv, stream_started, CorrectionFits, FrameFits,
           DropFrame \/ Compensate \/ Discard \/ Decode \/ CopyBlock
    PROVE  RoomInv' /\ AdjustInv' /\ CopyInv'
<1>1. UNCHANGED <<fill, prod_blk_idx, cons_blk_idx, busy>>
    BY DEF DropFrame, Compensate, Discard, Decode, CopyBlock
<1>2. RoomInv'
    BY <1>1 DEF StartedInv, RoomInv
<1> SUFFICES AdjustInv' /\ CopyInv'
    BY <1>2
<1>3. CASE DropFrame \/ Discard
    BY <1>3 DEF DropFrame, Discard, AdjustInv, CopyInv
<1>4. CASE Compensate
    <2>1. thread' = "adjust"
        BY <1>4 DEF Compensate
    <2>2. /\ adj' > 0 => fill + adj' < FIFO_NUM_BLKS
          /\ adj' < 0 => fill + adj' + busy > MaxBusy
        BY <1>4 DEF CorrectionFits
    <2> QED
        BY <1>1, <2>1, <2>2 DEF AdjustInv, CopyInv
<1>5. CASE Decode
    <2>1. /\ thread' = "copy" /\ ~(filled_blocks_get + NUM_BLKS_IN_FRAME > FIFO_NUM_BLKS)
          /\ filled_blocks_get + NUM_BLKS_IN_FRAME # FIFO_NUM_BLKS
        BY <1>5 DEF Decode, FrameFits, Overrun
    <2>2. filled_blocks_get = fill
        BY FilledIsAhead, FifoNumbers, FifoSize DEF StartedInv, RoomInv
    <2> QED
        BY <1>1, <2>1, <2>2, FifoNumbers, FifoSize DEF AdjustInv, CopyInv
<1>6. CASE CopyBlock
    BY <1>1, <1>6 DEF CopyBlock, StartedInv, AdjustInv, CopyInv
<1> QED
    BY <1>3, <1>4, <1>5, <1>6

\* A block that is inserted or removed takes its part of the correction with it.
LEMMA FifoAfterAdjustment ==
    ASSUME TypeInv, StartedInv, busy <= MaxBusy, InsertBlock \/ RemoveBlock
    PROVE  RoomInv' /\ AdjustInv' /\ CopyInv'
<1>1. /\ thread = "adjust" /\ UNCHANGED <<thread, cons_blk_idx, busy>>
      /\ adj > 0 => fill + adj < FIFO_NUM_BLKS
      /\ adj < 0 => fill + adj + busy > MaxBusy
    BY DEF InsertBlock, RemoveBlock, StartedInv, AdjustInv
<1>2. fill \in 1 .. FIFO_NUM_BLKS - 1 /\ prod_blk_idx = Ahead(cons_blk_idx, fill)
    BY DEF StartedInv, RoomInv
<1>3. CASE InsertBlock
    <2>1. adj > 0 /\ adj' = adj - 1 /\ fill' = fill + 1 /\ prod_blk_idx' = NEXT_IDX(prod_blk_idx)
        BY <1>3 DEF InsertBlock
    <2>2. fill < FIFO_NUM_BLKS - 1
        BY <1>1, <2>1, FifoNumbers, FifoSize
    <2>3. prod_blk_idx' = Ahead(cons_blk_idx, fill + 1)
        BY <1>2, <2>1, <2>2, AheadSteps, FifoNumbers, FifoSize
    <2>4. RoomInv'
        BY <1>1, <1>2, <2>1, <2>2, <2>3, FifoNumbers, FifoSize DEF RoomInv
    <2> QED
        BY <1>1, <2>1, <2>4, FifoNumbers, FifoSize DEF AdjustInv, CopyInv
<1>4. CASE RemoveBlock
    <2>1. adj < 0 /\ adj' = adj + 1 /\ fill' = fill - 1 /\ prod_blk_idx' = PREV_IDX(prod_blk_idx)
        BY <1>4 DEF RemoveBlock
    <2>2. fill > 1
        BY <1>1, <2>1, FifoNumbers, FifoSize
    <2>3. prod_blk_idx' = Ahead(cons_blk_idx, fill - 1)
        BY <1>2, <2>1, <2>2, AheadSteps, FifoNumbers, FifoSize
    <2>4. RoomInv'
        BY <1>1, <1>2, <2>1, <2>2, <2>3, FifoNumbers, FifoSize DEF RoomInv
    <2> QED
        BY <1>1, <2>1, <2>4, FifoNumbers, FifoSize DEF AdjustInv, CopyInv
<1> QED
    BY <1>3, <1>4

\* The frame becomes visible, and leaves a block free.
LEMMA FifoAfterPublish ==
    ASSUME TypeInv, StartedInv, Publish
    PROVE  RoomInv' /\ AdjustInv' /\ CopyInv'
<1>1. /\ thread = "copy" /\ thread' = "wait" /\ cons_blk_idx' = cons_blk_idx
      /\ prod_blk_idx' = (prod_blk_idx + NUM_BLKS_IN_FRAME) % FIFO_NUM_BLKS
      /\ fill' = fill + NUM_BLKS_IN_FRAME
    BY DEF Publish, OutBlkIdx
<1>2. /\ fill \in 1 .. FIFO_NUM_BLKS - 1 /\ prod_blk_idx = Ahead(cons_blk_idx, fill)
      /\ fill + NUM_BLKS_IN_FRAME < FIFO_NUM_BLKS
    BY <1>1 DEF StartedInv, RoomInv, CopyInv
<1>3. prod_blk_idx' = Ahead(cons_blk_idx, fill + NUM_BLKS_IN_FRAME)
    BY <1>1, <1>2, AheadModulo, FifoNumbers, FifoSize
<1>4. RoomInv'
    BY <1>1, <1>2, <1>3, FifoSize DEF RoomInv
<1> QED
    BY <1>1, <1>4 DEF AdjustInv, CopyInv

LEMMA FifoAfterThread ==
    ASSUME TypeInv, FifoInv, CorrectionFits, FrameFits, StreamOut
    PROVE  FifoInv'
<1>1. /\ stream_started' = stream_started /\ busy' = busy /\ ThreadMoves /\ thread # "wait"
      /\ ~stream_started => prev_pres_sdu_ref_us' = prev_pres_sdu_ref_us
    BY ThreadSteps DEF ThreadMoves
<1>2. ASSUME stream_started PROVE StartedInv'
    <2>1. StartedInv /\ busy <= MaxBusy
        BY <1>2 DEF FifoInv
    <2>2. GivenInv' /\ SendingInv'
        BY <1>1, <2>1, I2sKept
    <2>3. RoomInv' /\ AdjustInv' /\ CopyInv'
        BY <1>2, <2>1, FifoAfterDecision, FifoAfterAdjustment, FifoAfterPublish DEF StreamOut
    <2> QED
        BY <2>2, <2>3 DEF StartedInv
<1> QED
    BY <1>1, <1>2 DEF FifoInv

\* What the thread writes is ahead of the consumer, and not all around.
LEMMA WrittenAhead ==
    ASSUME TypeInv, FifoInv, Next, stream_started, stream_started',
           NEW b \in Blocks, prod_blk_ts'[b] # prod_blk_ts[b]
    PROVE  thread # "wait" /\ \E n \in 1 .. FIFO_NUM_BLKS - 2 : b = Ahead(cons_blk_idx, n)
<1>1. StartedInv /\ busy <= MaxBusy
    BY DEF FifoInv
<1>2. fill \in 1 .. FIFO_NUM_BLKS - 1 /\ prod_blk_idx = Ahead(cons_blk_idx, fill)
    BY <1>1 DEF StartedInv, RoomInv
<1>3. prod_blk_ts' # prod_blk_ts
    OBVIOUS
<1>4. InsertBlock \/ CopyBlock
    BY <1>3 DEF Next, PresDelaySet, Start, Stop, I2sBlkComplete, SduArrives, SduLost, SduRepeated,
                Take, StreamOut, DropFrame, Compensate, RemoveBlock, Discard, Decode, Publish
<1>5. CASE InsertBlock
    <2>1. /\ thread = "adjust" /\ adj > 0
          /\ prod_blk_ts' = [prod_blk_ts EXCEPT ![prod_blk_idx] =
                               meta.data_rx_ts_us - adj * BLK_PERIOD_US]
        BY <1>5 DEF InsertBlock
    <2>2. b = prod_blk_idx
        BY <2>1 DEF TypeInv, TypeOK
    <2>3. fill + adj < FIFO_NUM_BLKS
        BY <1>1, <2>1 DEF StartedInv, AdjustInv
    <2> QED
        BY <1>2, <2>1, <2>2, <2>3, FifoNumbers, FifoSize
<1>6. CASE CopyBlock
    <2>1. /\ thread = "copy" /\ copied < NUM_BLKS_IN_FRAME
          /\ prod_blk_ts' = [prod_blk_ts EXCEPT ![OutBlkIdx] =
                               meta.data_rx_ts_us + copied * BLK_PERIOD_US]
        BY <1>6 DEF CopyBlock
    <2>2. b = (prod_blk_idx + copied) % FIFO_NUM_BLKS
        BY <2>1 DEF TypeInv, TypeOK, OutBlkIdx
    <2>3. fill + NUM_BLKS_IN_FRAME < FIFO_NUM_BLKS
        BY <1>1, <2>1 DEF StartedInv, CopyInv
    <2>4. fill + copied \in 1 .. FIFO_NUM_BLKS - 2 /\ fill \in Nat
        BY <1>2, <2>1, <2>3, FifoNumbers, FifoSize
    <2>5. (Ahead(cons_blk_idx, fill) + copied) % FIFO_NUM_BLKS = Ahead(cons_blk_idx, fill + copied)
        BY ONLY <2>4, AheadModulo, FifoNumbers, FifoSize, TypeInv
    <2>6. b = Ahead(cons_blk_idx, fill + copied)
        BY <1>2, <2>2, <2>5
    <2> QED
        BY <2>1, <2>4, <2>6
<1> QED
    BY <1>4, <1>5, <1>6
-----------------------------------------------------------------------------
(* A steady stream: what its times say of the FIFO. *)

\* How long n blocks take; the products are kept out of the rest by these facts.
Dur(n) == n * BLK_PERIOD_US

LEMMA Products ==
    ASSUME NEW a \in Int, NEW b \in Int, NEW c \in Int
    PROVE  /\ a * b \in Int /\ (a + b) * c = a * c + b * c /\ (a - b) * c = a * c - b * c
           /\ 0 * c = 0 /\ 1 * c = c
           /\ a * c = c * a
OBVIOUS

LEMMA ProductOrder ==
    ASSUME NEW a \in Int, NEW b \in Int, NEW c \in Nat, a <= b
    PROVE  a * c <= b * c
<1>1. PICK d \in Nat : b = a + d
    <2>1. b - a \in Nat /\ b = a + (b - a)
        OBVIOUS
    <2> QED
        BY <2>1
<1>2. b * c = a * c + d * c
    BY <1>1
<1>3. d * c \in Nat /\ a * c \in Int
    OBVIOUS
<1> QED
    BY <1>2, <1>3

LEMMA DurFacts ==
    ASSUME NEW a \in Int, NEW b \in Int
    PROVE  /\ Dur(a) \in Int /\ Dur(a + b) = Dur(a) + Dur(b) /\ Dur(a - b) = Dur(a) - Dur(b)
           /\ Dur(0) = 0 /\ Dur(1) = BLK_PERIOD_US
           /\ a <= b => Dur(a) <= Dur(b)
           /\ Dur(a) < Dur(b) => a < b
<1>1. BLK_PERIOD_US \in Nat
    BY DatapathAssumption
<1>2. /\ Dur(a) \in Int /\ Dur(a + b) = Dur(a) + Dur(b) /\ Dur(a - b) = Dur(a) - Dur(b)
      /\ Dur(0) = 0 /\ Dur(1) = BLK_PERIOD_US
    BY <1>1, Products DEF Dur
<1>3. a <= b => Dur(a) <= Dur(b)
    BY <1>1, ProductOrder DEF Dur
<1>4. b <= a => Dur(b) <= Dur(a)
    BY <1>1, ProductOrder DEF Dur
<1>5. Dur(b) \in Int
    BY <1>1 DEF Dur
<1> QED
    BY <1>2, <1>3, <1>4, <1>5

LEMMA DurStep ==
    ASSUME NEW a \in Int
    PROVE  /\ Dur(a) \in Int /\ Dur(a + 1) = Dur(a) + BLK_PERIOD_US
           /\ Dur(a - 1) = Dur(a) - BLK_PERIOD_US
BY DatapathAssumption, Products DEF Dur

LEMMA DurSum ==
    \A a, b \in Int : /\ Dur(a) \in Int /\ Dur(a + b) = Dur(a) + Dur(b)
                      /\ Dur(a - b) = Dur(a) - Dur(b)
BY DurFacts

LEMMA DurOrder == \A a, b \in Int : a <= b => Dur(a) <= Dur(b)
BY DurFacts

\* The average of what was summed lies where each of the sums does, ...
LEMMA QuotientBounds ==
    ASSUME NEW a \in Int, NEW n \in Nat \ {0}, NEW lo \in Int, NEW hi \in Int,
           n * lo <= a, a <= n * hi
    PROVE  Quotient(a, n) \in Int /\ lo <= Quotient(a, n) /\ Quotient(a, n) <= hi
<1>1. \A c \in Int : /\ c \div n \in Int
                     /\ n * (c \div n) <= c /\ c < n * (c \div n) + n
    OBVIOUS
<1>2. ASSUME NEW x \in Int, NEW y \in Int, n * x < n * y + n
      PROVE  x <= y
    <2>1. y + 1 <= x => (y + 1) * n <= x * n
        BY ProductOrder
    <2>2. (y + 1) * n = n * y + n /\ x * n = n * x
        OBVIOUS
    <2>3. n * x \in Int /\ n * y \in Int
        OBVIOUS
    <2> QED
        BY <1>2, <2>1, <2>2, <2>3
<1>3. CASE a >= 0
    <2>1. PICK q \in Int : q = a \div n
        BY <1>1
    <2>2. Quotient(a, n) = q /\ n * q <= a /\ a < n * q + n
        BY <1>1, <1>3, <2>1 DEF Quotient
    <2>3. n * lo \in Int /\ n * hi \in Int /\ n * q \in Int
        OBVIOUS
    <2>4. lo <= q
        BY <1>2, <2>2, <2>3
    <2>5. q <= hi
        BY <1>2, <2>2, <2>3
    <2> QED
        BY <2>2, <2>4, <2>5
<1>4. CASE a < 0
    <2>1. PICK q \in Int : q = (-a) \div n
        BY <1>1
    <2>2. Quotient(a, n) = -q /\ n * q <= -a /\ -a < n * q + n
        BY <1>1, <1>4, <2>1 DEF Quotient
    <2>3. n * lo \in Int /\ n * hi \in Int /\ n * q \in Int
          /\ n * (-lo) = -(n * lo) /\ n * (-hi) = -(n * hi) /\ -lo \in Int /\ -hi \in Int
        OBVIOUS
    <2>4. -hi <= q
        BY <1>2, <2>2, <2>3
    <2>5. q <= -lo
        BY <1>2, <2>2, <2>3
    <2> QED
        BY <2>2, <2>4, <2>5
<1> QED
    BY <1>3, <1>4

LEMMA BlocksIn ==
    ASSUME NEW c \in Nat
    PROVE  \E q \in Nat : q = c \div BLK_PERIOD_US /\ Dur(q) <= c /\ c < Dur(q) + BLK_PERIOD_US
<1>1. BLK_PERIOD_US \in Nat \ {0}
    BY DatapathAssumption
<1>2. PICK q \in Nat : q = c \div BLK_PERIOD_US
    BY <1>1
<1>3. BLK_PERIOD_US * q <= c /\ c < BLK_PERIOD_US * q + BLK_PERIOD_US
    BY <1>1, <1>2
<1>4. Dur(q) = BLK_PERIOD_US * q
    BY <1>1 DEF Dur
<1> QED
    BY <1>2, <1>3, <1>4

\* ... and a correction by it is to the nearest block, or by less.
LEMMA AdjustBounds ==
    ASSUME NEW err \in Int, NEW n \in Int, n = AdjustBlocks(err)
    PROVE  /\ n > 0 => Dur(n) <= err + HalfBlk
           /\ n < 0 => err - HalfBlk <= Dur(n)
           /\ n # 0 => err >= HalfBlk \/ err <= -HalfBlk
<1> DEFINE max  == FIFO_NUM_BLKS \div 2
           e    == IF err > 0 THEN err + HalfBlk ELSE err - HalfBlk
           blks == IF err = 0 THEN 0 ELSE Quotient(e, BLK_PERIOD_US)
<1>1. /\ HalfBlk \in Nat /\ max \in Nat /\ BLK_PERIOD_US \in Nat \ {0}
      /\ BLK_PERIOD_US = 2 * HalfBlk
    BY DatapathAssumption DEF HalfBlk
<1>2. n = IF blks > max THEN max ELSE IF blks < -max THEN -max ELSE blks
    BY DEF AdjustBlocks, HalfBlk
<1>3. PICK a \in Nat : a = IF err > 0 THEN err + HalfBlk ELSE HalfBlk - err
    <2>1. HalfBlk \in Nat
        BY <1>1
    <2>2. (IF err > 0 THEN err + HalfBlk ELSE HalfBlk - err) \in Nat
        BY ONLY <2>1, err \in Int
    <2> QED
        BY <2>2
<1>4. PICK q \in Nat : q = a \div BLK_PERIOD_US /\ Dur(q) <= a /\ a < Dur(q) + BLK_PERIOD_US
    BY BlocksIn
<1>5. /\ err > 0 => blks = q
      /\ err < 0 => blks = -q
      /\ err = 0 => blks = 0
    <2>1. ASSUME err > 0 PROVE e >= 0 /\ e = a
        BY <1>1, <1>3, <2>1
    <2>2. ASSUME err < 0 PROVE ~(e >= 0) /\ -e = a
        BY <1>1, <1>3, <2>2
    <2> HIDE DEF e
    <2> QED
        BY <1>4, <2>1, <2>2 DEF Quotient
<1> HIDE DEF max, e, blks
<1>6. Dur(q) \in Int /\ Dur(n) \in Int /\ Dur(1) = BLK_PERIOD_US /\ Dur(0) = 0
    BY DurFacts
<1>7. q = 0 \/ BLK_PERIOD_US <= Dur(q)
    <2>1. 1 <= q => Dur(1) <= Dur(q)
        BY DurFacts
    <2> QED
        BY <1>6, <2>1
<1>8. CASE err > 0
    <2>1. n <= q /\ n >= 0 /\ (q = 0 => n = 0)
        BY <1>1, <1>2, <1>5, <1>8
    <2>2. Dur(n) <= Dur(q)
        BY <2>1, DurFacts
    <2> QED
        BY <1>1, <1>3, <1>4, <1>6, <1>7, <1>8, <2>1, <2>2
<1>9. CASE err < 0
    <2>1. -n <= q /\ n <= 0 /\ (q = 0 => n = 0)
        BY <1>1, <1>2, <1>5, <1>9
    <2>2. Dur(-q) <= Dur(n)
        BY <2>1, DurFacts
    <2>3. Dur(0 - q) = Dur(0) - Dur(q) /\ 0 - q = -q
        BY DurFacts
    <2>4. -Dur(q) <= Dur(n) /\ a = HalfBlk - err
        BY <1>3, <1>6, <1>9, <2>2, <2>3
    <2>5. err - HalfBlk <= Dur(n)
        BY <1>1, <1>4, <1>6, <2>4
    <2>6. n # 0 => err <= -HalfBlk
        BY <1>1, <1>4, <1>6, <1>7, <2>1, <2>4
    <2> QED
        BY <2>1, <2>5, <2>6
<1>10. CASE err = 0
    <2>1. n = 0
        BY <1>1, <1>2, <1>5, <1>10
    <2> QED
        BY <2>1
<1> QED
    BY <1>8, <1>9, <1>10

\* The frame that the thread has yet to put into the FIFO, and the reference of the first SDU that
\* is not in it: that of this frame, or of the next to arrive.
Handling == thread \in {"adjust", "copy"}
Pending  == Handling \/ (thread = "begin" /\ meta.ref_ts_us # prev_pres_sdu_ref_us)
NextSdu  == IF Pending THEN meta.ref_ts_us ELSE sdu

\* How far playing is behind the references: an interrupt that finds a block leaves it as it is, and
\* so does a frame. Only a missing block and a correction change it.
Lag == Dur(fill) + now - NextSdu

\* What it can become for want of blocks, and by a correction.
Late      == latency + MaxJitter + 1 + Dur(MaxBusy + 1)
Corrected == pres_delay_us + 2 * MaxJitter + Dur(MaxBusy + 1) + HalfBlk

\* The references follow one another, and nothing is measured before the first.
RefInv ==
  /\ prev_pres_sdu_ref_us = 0 => pres_state = "INIT" /\ ~adjusted /\ thread \in {"wait", "begin"}
  /\ thread = "wait" => IF prev_pres_sdu_ref_us = 0 THEN sdu > 0
                        ELSE meta.ref_ts_us = prev_pres_sdu_ref_us
                             /\ sdu = prev_pres_sdu_ref_us + FRAME
  /\ thread # "wait" => meta.ref_ts_us > 0 /\ sdu = meta.ref_ts_us + FRAME
  /\ thread = "begin" =>
       prev_pres_sdu_ref_us \in {0, meta.ref_ts_us, meta.ref_ts_us - FRAME}
  /\ Handling => prev_pres_sdu_ref_us = meta.ref_ts_us

\* The clock: the next SDU is not overdue, and a frame is handled as it comes.
TimeInv ==
  /\ latency \in Latencies
  /\ ~Pending => now <= sdu + latency + MaxJitter + BLK_PERIOD_US
  /\ Pending => /\ now = meta.data_rx_ts_us + 1 + Dur(busy)
                /\ meta.data_rx_ts_us - meta.ref_ts_us - latency \in 0 .. MaxJitter

LagInv ==
  /\ ~adjusted => Lag <= Late
  /\ adj # 0 => adjusted /\ pres_state = "WAIT" /\ pres_ctr = 0
  /\ Lag <= Corrected
  /\ adj > 0 => Lag + Dur(adj) <= Corrected
  /\ Dur(adj) <= pres_delay_us + MaxJitter - latency - 1 + HalfBlk

\* Of the blocks behind the producer, Fresh have come since the start, or since the last correction:
\* their timestamps tell when they were received, as if there had been no others.
Behind(i, m) == IF i >= m THEN i - m ELSE i - m + FIFO_NUM_BLKS

Fresh == CASE prev_pres_sdu_ref_us = 0 -> 0
           [] prev_pres_sdu_ref_us # 0 /\ pres_state = "WAIT" ->
                (IF Handling THEN pres_ctr ELSE pres_ctr + 1) * NUM_BLKS_IN_FRAME
           [] prev_pres_sdu_ref_us # 0 /\ pres_state # "WAIT" /\ adjusted -> FIFO_NUM_BLKS
           [] OTHER -> IF Handling THEN 0 ELSE NUM_BLKS_IN_FRAME

StampOf(m) == prod_blk_ts[Behind(prod_blk_idx, m)]

TsInv == \A m \in 1 .. fill :
           m <= Fresh => StampOf(m) + Dur(m) - NextSdu - latency \in 0 .. MaxJitter

CopiedInv == thread = "copy" =>
  \A k \in 0 .. copied - 1 :
     prod_blk_ts[(prod_blk_idx + k) % FIFO_NUM_BLKS] = meta.data_rx_ts_us + Dur(k)

\* So the delay last measured tells the lag, up to the jitter, or less than it by what was missing
\* since; and what has been summed up tells how far it is from the one wanted.
CurInv ==
  /\ prev_pres_sdu_ref_us # 0 /\ ~Handling /\ pres_state # "WAIT"
  /\ now - NextSdu >= latency + 1
  => /\ current_pres_dly_us + latency <= Lag
     /\ current_pres_dly_us + latency + MaxJitter >= IF Lag > Late THEN Lag ELSE now - NextSdu

Highest == pres_delay_us + MaxJitter - (IF Lag > Late THEN Lag ELSE latency + 1)
Lowest  == pres_delay_us - MaxJitter - Lag

SumInv == pres_state = "MEAS" =>
  /\ pres_ctr <= PRES_COMP_NUM_DATA_PTS
  /\ pres_ctr * Lowest <= sum_err_dly_us /\ sum_err_dly_us <= pres_ctr * Highest

DriftInv == pres_state # "INIT" \/ adjusted => drift_state = "LOCKED"

SteadyInv == RefInv /\ TimeInv /\ LagInv /\ TsInv /\ CopiedInv /\ CurInv /\ SumInv /\ DriftInv

StreamInv ==
  /\ busy <= MaxBusy
  /\ thread # "adjust" => adj = 0
  /\ ~stream_started => prev_pres_sdu_ref_us = 0 /\ pres_state = "INIT"
  /\ stream_started /\ steady => StartedInv /\ SteadyInv

\* The numbers that it relates, and what the margins say of them.
LEMMA Numbers ==
    ASSUME TypeInv
    PROVE  /\ fill \in Int /\ adj \in Int /\ busy \in Nat /\ copied \in Nat /\ MaxBusy \in Nat
           /\ sdu \in Nat /\ now \in Nat /\ latency \in Nat /\ prev_pres_sdu_ref_us \in Nat
           /\ meta.ref_ts_us \in Nat /\ meta.data_rx_ts_us \in Nat
           /\ pres_delay_us \in Nat /\ current_pres_dly_us \in Int /\ sum_err_dly_us \in Int
           /\ pres_ctr \in Nat /\ NextSdu \in Nat /\ Lag \in Int
           /\ BLK_PERIOD_US \in Nat \ {0} /\ FRAME = Dur(NUM_BLKS_IN_FRAME)
           /\ HalfBlk \in Nat /\ BLK_PERIOD_US = 2 * HalfBlk
<1>1. /\ fill \in Int /\ adj \in Int /\ busy \in Nat /\ copied \in Nat /\ MaxBusy \in Nat
      /\ sdu \in Nat /\ now \in Nat /\ latency \in Nat /\ prev_pres_sdu_ref_us \in Nat
      /\ meta.ref_ts_us \in Nat /\ meta.data_rx_ts_us \in Nat
      /\ pres_delay_us \in Nat /\ current_pres_dly_us \in Int /\ sum_err_dly_us \in Int
      /\ pres_ctr \in Nat
    BY DatapathAssumption DEF TypeInv, TypeOK
<1>2. NextSdu \in Nat
    BY <1>1 DEF NextSdu
<1>3. Dur(fill) \in Int
    BY <1>1, DurFacts
<1>4. Lag \in Int
    BY <1>1, <1>2, <1>3 DEF Lag
<1>5. /\ BLK_PERIOD_US \in Nat \ {0} /\ HalfBlk \in Nat /\ BLK_PERIOD_US = 2 * HalfBlk
    BY DatapathAssumption DEF HalfBlk
<1>6. FRAME = Dur(NUM_BLKS_IN_FRAME)
    BY DEF FRAME, Dur
<1> QED
    BY <1>1, <1>2, <1>4, <1>5, <1>6

LEMMA MarginFacts ==
    ASSUME Margins
    PROVE  /\ MaxJitter \in Nat /\ \A j \in Jitter : j \in 0 .. MaxJitter
           /\ MaxBusy \in Nat /\ MaxBusy > 0 /\ Dur(MaxBusy) \in Nat
           /\ Dur(MaxBusy + 1) = Dur(MaxBusy) + BLK_PERIOD_US
           /\ BLK_PERIOD_US <= Dur(MaxBusy)
           /\ MaxJitter + Dur(MaxBusy + 1) < Dur(NUM_BLKS_IN_FRAME)
           /\ Dur(NUM_BLKS_IN_FRAME) \in Nat /\ Dur(FIFO_NUM_BLKS) \in Nat
           /\ BLK_PERIOD_US \in Nat \ {0} /\ HalfBlk \in Nat /\ BLK_PERIOD_US = 2 * HalfBlk
<1>1. MaxJitter \in Jitter /\ \A j \in Jitter : j <= MaxJitter
    BY Zenon DEF Margins, MaxJitter
<1>2. MaxJitter \in Nat /\ \A j \in Jitter : j \in 0 .. MaxJitter
    BY <1>1, DatapathAssumption
<1>3. MaxBusy \in Nat /\ MaxBusy > 0
    BY DatapathAssumption DEF Margins
<1>4. /\ BLK_PERIOD_US \in Nat \ {0} /\ HalfBlk \in Nat /\ BLK_PERIOD_US = 2 * HalfBlk
    BY DatapathAssumption DEF HalfBlk
<1>5. /\ Dur(MaxBusy) \in Int /\ Dur(MaxBusy + 1) = Dur(MaxBusy) + BLK_PERIOD_US
      /\ BLK_PERIOD_US <= Dur(MaxBusy)
    <2>1. 1 <= MaxBusy /\ 1 \in Int
        BY <1>3
    <2> QED
        BY <1>3, <2>1, DurFacts
<1>6. Dur(MaxBusy) \in Nat
    BY <1>4, <1>5
<1>7. Dur(NUM_BLKS_IN_FRAME) \in Nat /\ Dur(FIFO_NUM_BLKS) \in Nat
    BY DatapathAssumption DEF Dur
<1>8. MaxJitter + Dur(MaxBusy + 1) < Dur(NUM_BLKS_IN_FRAME)
    BY DEF Margins, Dur, FRAME
<1> QED
    BY <1>2, <1>3, <1>4, <1>5, <1>6, <1>7, <1>8

LEMMA DelayMargins ==
    ASSUME Margins, NEW l \in Latencies,
           NEW p \in AUDIO_MIN_PRES_DLY_US .. AUDIO_MAX_PRES_DLY_US
    PROVE  /\ p \in Nat /\ l \in Nat
           /\ p > l + 1 + 2 * MaxJitter + Dur(MaxBusy) + HalfBlk
           /\ p + 2 * MaxJitter + Dur(MaxBusy + 1) + HalfBlk + Dur(NUM_BLKS_IN_FRAME)
                < Dur(FIFO_NUM_BLKS) + l + 1
<1>1. /\ AUDIO_MIN_PRES_DLY_US > l + 1 + 2 * MaxJitter + Dur(MaxBusy) + HalfBlk
      /\ AUDIO_MAX_PRES_DLY_US + 2 * MaxJitter + Dur(MaxBusy + 1) + HalfBlk
            + Dur(NUM_BLKS_IN_FRAME) < Dur(FIFO_NUM_BLKS) + l + 1
    BY Zenon DEF Margins, Dur, FRAME
<1>2. /\ AUDIO_MIN_PRES_DLY_US \in Nat /\ AUDIO_MAX_PRES_DLY_US \in Nat
      /\ p \in Nat /\ l \in Nat /\ AUDIO_MIN_PRES_DLY_US <= p /\ p <= AUDIO_MAX_PRES_DLY_US
    BY DatapathAssumption
<1>3. /\ MaxJitter \in Nat /\ HalfBlk \in Nat /\ Dur(MaxBusy) \in Nat
      /\ Dur(MaxBusy + 1) = Dur(MaxBusy) + BLK_PERIOD_US /\ BLK_PERIOD_US \in Nat
      /\ Dur(NUM_BLKS_IN_FRAME) \in Nat /\ Dur(FIFO_NUM_BLKS) \in Nat
    BY MarginFacts
<1> QED
    BY <1>1, <1>2, <1>3

\* A steady stream that starts.
LEMMA SteadyStart ==
    ASSUME TypeInv, TypeInv', Margins, StreamInv, Start
    PROVE  SteadyInv'
<1>1. /\ thread' = "wait" /\ prev_pres_sdu_ref_us' = 0 /\ pres_state' = "INIT" /\ adj' = 0
      /\ sdu' = now' /\ now' > 0 /\ latency' \in Latencies /\ fill' = 2 /\ ~adjusted'
    <2>1. ~adjusted'
        BY Zenon DEF Start
    <2> QED
        BY <2>1 DEF Start, StreamInv, TypeInv
<1>2. ~Handling' /\ ~Pending' /\ NextSdu' = now'
    BY <1>1 DEF Handling, Pending, NextSdu
<1>3. now' \in Nat /\ pres_delay_us' \in AUDIO_MIN_PRES_DLY_US .. AUDIO_MAX_PRES_DLY_US
    BY DEF TypeInv, TypeOK
<1>4. Dur(2) = 2 * BLK_PERIOD_US /\ Dur(0) = 0
    BY DatapathAssumption DEF Dur
<1>5. Lag' = 2 * BLK_PERIOD_US
    BY <1>1, <1>2, <1>3, <1>4, MarginFacts DEF Lag
<1>6. RefInv' /\ CopiedInv' /\ CurInv' /\ SumInv' /\ DriftInv'
    BY <1>1, <1>2, <1>3 DEF RefInv, CopiedInv, CurInv, SumInv, DriftInv
<1>7. TsInv'
    BY <1>1, <1>2 DEF TsInv, Fresh
<1>8. TimeInv'
    BY <1>1, <1>2, <1>3, MarginFacts, DatapathAssumption DEF TimeInv
<1>9. LagInv'
    <2>1. /\ latency' \in Nat /\ pres_delay_us' \in Nat
          /\ pres_delay_us' > latency' + 1 + 2 * MaxJitter + Dur(MaxBusy) + HalfBlk
        BY <1>1, <1>3, DelayMargins
    <2>2. /\ 2 * BLK_PERIOD_US <= latency' + MaxJitter + 1 + Dur(MaxBusy + 1)
          /\ 2 * BLK_PERIOD_US <= pres_delay_us' + 2 * MaxJitter + Dur(MaxBusy + 1) + HalfBlk
          /\ 0 <= pres_delay_us' + MaxJitter - latency' - 1 + HalfBlk
        BY <2>1, MarginFacts
    <2> QED
        BY <1>1, <1>4, <1>5, <2>2 DEF LagInv, Late, Corrected
<1> QED
    BY <1>6, <1>7, <1>8, <1>9 DEF SteadyInv

\* The block that the consumer is at, which the interrupt measures.
LEMMA Consumed ==
    ASSUME TypeInv, RoomInv
    PROVE  Behind(prod_blk_idx, fill) = cons_blk_idx
BY FifoNumbers, FifoSize DEF RoomInv, Behind, Ahead, Blocks

LEMMA Started ==
    ASSUME TypeInv, StartedInv
    PROVE  fill \in 1 .. FIFO_NUM_BLKS - 1 /\ RoomInv /\ BLK_PERIOD_US <= Dur(fill) /\ Dur(fill) \in Int
<1>1. fill \in 1 .. FIFO_NUM_BLKS - 1 /\ RoomInv
    BY DEF StartedInv, RoomInv
<1>2. 1 <= fill /\ fill \in Int /\ 1 \in Int
    BY <1>1, FifoSize
<1> QED
    BY <1>1, <1>2, DurFacts

\* When the interrupt finds no block, the lag becomes what it can for want of blocks, no more.
LEMMA LagAfterInterrupt ==
    ASSUME TypeInv, TypeInv', Margins, StartedInv, TimeInv, busy <= MaxBusy, I2sBlkComplete
    PROVE  /\ NextSdu' = NextSdu /\ (Pending' <=> Pending) /\ (Handling' <=> Handling)
           /\ now' = now + BLK_PERIOD_US /\ Late' = Late
           /\ Lag' = Lag \/ (Lag' = Lag + BLK_PERIOD_US /\ Lag' <= Late)
           /\ fill' <= fill
           /\ TimeInv'
<1>1. /\ UNCHANGED <<thread, meta, sdu, prev_pres_sdu_ref_us, latency>>
      /\ now' = now + BLK_PERIOD_US /\ InTime
      /\ busy' = IF thread = "wait" THEN 0 ELSE busy + 1
    BY DEF I2sBlkComplete
<1>2. /\ NextSdu' = NextSdu /\ (Pending' <=> Pending) /\ (Handling' <=> Handling)
      /\ Late' = Late
    BY <1>1 DEF NextSdu, Pending, Handling, Late
<1>3. \/ Underrun /\ fill' = fill
      \/ ~Underrun /\ fill' = fill - 1
    BY DEF I2sBlkComplete
<1>4. Underrun => fill = 1
    BY Started, AheadSteps, FifoNumbers DEF Underrun, RoomInv
<1>5. /\ now \in Nat /\ NextSdu \in Nat /\ sdu \in Nat /\ latency \in Nat /\ fill \in Int
      /\ meta.ref_ts_us \in Nat /\ meta.data_rx_ts_us \in Nat /\ busy \in Nat
    BY Numbers
<1>6. /\ MaxJitter \in Nat /\ \A j \in Jitter : j \in 0 .. MaxJitter
      /\ MaxBusy \in Nat /\ Dur(MaxBusy) \in Nat
      /\ Dur(MaxBusy + 1) = Dur(MaxBusy) + BLK_PERIOD_US
      /\ BLK_PERIOD_US <= Dur(MaxBusy) /\ BLK_PERIOD_US \in Nat \ {0}
    BY MarginFacts
<1>7. now <= sdu + latency + MaxJitter
    BY <1>1, <1>5, <1>6 DEF InTime
<1>8. ASSUME Pending
      PROVE  /\ busy' = busy + 1 /\ busy < MaxBusy /\ Dur(busy + 1) = Dur(busy) + BLK_PERIOD_US
             /\ Dur(busy) + BLK_PERIOD_US <= Dur(MaxBusy) /\ Dur(busy) \in Int
             /\ now = meta.data_rx_ts_us + 1 + Dur(busy)
             /\ meta.data_rx_ts_us - meta.ref_ts_us - latency \in 0 .. MaxJitter
    <2>1. busy' = busy + 1 /\ busy < MaxBusy
        BY <1>1, <1>8 DEF InTime, Pending, Handling
    <2>2. busy + 1 <= MaxBusy /\ busy + 1 \in Int /\ 1 \in Int
        BY <1>5, <1>6, <2>1
    <2>3. Dur(busy + 1) = Dur(busy) + BLK_PERIOD_US /\ Dur(busy) \in Int
        BY <1>5, DurStep
    <2>4. Dur(busy + 1) <= Dur(MaxBusy)
        BY <1>6, <2>2, DurOrder
    <2> QED
        BY <1>8, <2>1, <2>3, <2>4 DEF TimeInv
<1>9. TimeInv'
    <2>1. CASE ~Pending
        BY <1>1, <1>2, <1>5, <1>6, <1>7, <2>1 DEF TimeInv
    <2>2. CASE Pending
        <3>1. now' = meta.data_rx_ts_us + 1 + Dur(busy')
            BY <1>1, <1>5, <1>6, <1>8, <2>2
        <3> QED
            BY <1>1, <1>2, <1>8, <2>2, <3>1 DEF TimeInv
    <2> QED
        BY <2>1, <2>2
<1>10. Dur(fill) \in Int /\ Dur(fill - 1) = Dur(fill) - BLK_PERIOD_US
    BY <1>5, DurStep
<1>11. CASE ~Underrun
    <2>1. Lag' = Lag /\ fill' <= fill
        BY <1>1, <1>2, <1>3, <1>5, <1>6, <1>10, <1>11 DEF Lag
    <2> QED
        BY <1>1, <1>2, <1>9, <2>1
<1>12. CASE Underrun
    <2>1. fill' = fill /\ Dur(fill) = BLK_PERIOD_US
        <3>1. fill' = fill /\ fill = 1
            BY <1>3, <1>4, <1>12
        <3> QED
            BY <3>1, DurFacts
    <2>2. Lag' = Lag + BLK_PERIOD_US /\ Lag' = now - NextSdu + 2 * BLK_PERIOD_US
        BY <1>1, <1>2, <1>5, <1>6, <2>1 DEF Lag
    <2>3. CASE ~Pending
        <3>1. NextSdu = sdu
            BY <2>3 DEF NextSdu
        <3> QED
            BY <1>1, <1>2, <1>5, <1>6, <1>7, <1>9, <2>1, <2>2, <3>1 DEF Late
    <2>4. CASE Pending
        <3>1. NextSdu = meta.ref_ts_us
            BY <2>4 DEF NextSdu
        <3>2. now - NextSdu <= latency + MaxJitter + 1 + Dur(MaxBusy) - BLK_PERIOD_US
            BY <1>5, <1>6, <1>8, <2>4, <3>1
        <3>3. Lag' <= Late
            BY <1>5, <1>6, <2>2, <3>2 DEF Late
        <3> QED
            BY <1>1, <1>2, <1>5, <1>9, <2>1, <2>2, <3>3
    <2> QED
        BY <2>3, <2>4
<1> QED
    BY <1>11, <1>12

\* What it measures is the lag, up to the jitter of the block's frame.
LEMMA Measured ==
    ASSUME TypeInv, Margins, StartedInv, RefInv, LagInv, TsInv, latency \in Latencies,
           prev_pres_sdu_ref_us # 0, ~Handling, pres_state # "WAIT",
           now + BLK_PERIOD_US - NextSdu >= latency + 1
    PROVE  LET delay == now - prod_blk_ts[cons_blk_idx]
           IN  delay + latency <= Lag /\ delay + latency + MaxJitter >= Lag
<1>1. fill \in 1 .. FIFO_NUM_BLKS - 1 /\ fill \in Int /\ Dur(fill) \in Int
    BY Started, FifoSize
<1>2. /\ now \in Nat /\ NextSdu \in Nat /\ latency \in Nat /\ Lag = Dur(fill) + now - NextSdu
    BY Numbers DEF Lag
<1>3. fill <= Fresh
    <2>1. CASE adjusted
        <3>1. Fresh = FIFO_NUM_BLKS
            BY <2>1 DEF Fresh
        <3> QED
            BY <1>1, <3>1, FifoSize
    <2>2. CASE ~adjusted
        <3>1. Fresh = NUM_BLKS_IN_FRAME
            BY <2>2 DEF Fresh
        <3>2. Lag <= latency + MaxJitter + 1 + Dur(MaxBusy + 1)
            BY <2>2 DEF LagInv, Late
        <3>3. Dur(fill) < Dur(NUM_BLKS_IN_FRAME) + BLK_PERIOD_US
            BY <1>1, <1>2, <3>2, MarginFacts
        <3>4. NUM_BLKS_IN_FRAME \in Int /\ NUM_BLKS_IN_FRAME + 1 \in Int
            BY FifoSize
        <3>5. Dur(NUM_BLKS_IN_FRAME + 1) = Dur(NUM_BLKS_IN_FRAME) + BLK_PERIOD_US
            BY <3>4, DurStep
        <3>6. fill < NUM_BLKS_IN_FRAME + 1
            BY <1>1, <3>3, <3>4, <3>5, DurFacts
        <3> QED
            BY <1>1, <3>1, <3>4, <3>6
    <2> QED
        BY <2>1, <2>2
<1>4. StampOf(fill) + Dur(fill) - NextSdu - latency \in 0 .. MaxJitter
    BY <1>1, <1>3 DEF TsInv
<1>5. StampOf(fill) = prod_blk_ts[cons_blk_idx]
    BY Started, Consumed DEF StampOf
<1>6. prod_blk_ts[cons_blk_idx] \in Int /\ MaxJitter \in Nat
    BY MarginFacts DEF TypeInv, TypeOK
<1> QED
    BY <1>1, <1>2, <1>4, <1>5, <1>6

LEMMA SteadyInterrupt ==
    ASSUME TypeInv, TypeInv', Margins, StartedInv, SteadyInv, busy <= MaxBusy, steady',
           I2sBlkComplete
    PROVE  SteadyInv'
<1>1. /\ NextSdu' = NextSdu /\ (Pending' <=> Pending) /\ (Handling' <=> Handling)
      /\ now' = now + BLK_PERIOD_US /\ Late' = Late
      /\ Lag' = Lag \/ (Lag' = Lag + BLK_PERIOD_US /\ Lag' <= Late)
      /\ fill' <= fill
      /\ TimeInv'
    BY LagAfterInterrupt DEF SteadyInv
<1>2. /\ UNCHANGED <<thread, meta, sdu, prev_pres_sdu_ref_us, latency, pres_state, pres_ctr,
                     sum_err_dly_us, pres_delay_us, adj, copied, prod_blk_idx, prod_blk_ts>>
      /\ current_pres_dly_us' = now - prod_blk_ts[cons_blk_idx]
    BY DEF I2sBlkComplete
<1>3. adjusted' = adjusted /\ (drift_state = "LOCKED" => drift_state' = "LOCKED")
    BY Zenon DEF I2sBlkComplete
<1>4. /\ Lag \in Int /\ Lag' \in Int /\ now \in Nat /\ NextSdu \in Nat /\ latency \in Nat
      /\ pres_delay_us \in Nat /\ adj \in Int /\ BLK_PERIOD_US \in Nat \ {0} /\ HalfBlk \in Nat
    <2>1. Lag \in Int /\ BLK_PERIOD_US \in Nat \ {0}
        BY Numbers
    <2> QED
        BY <1>1, <2>1, Numbers
<1>5. /\ latency \in Latencies /\ MaxJitter \in Nat
      /\ pres_delay_us > latency + 1 + 2 * MaxJitter + Dur(MaxBusy) + HalfBlk
      /\ Dur(MaxBusy) \in Nat /\ Dur(MaxBusy + 1) \in Nat
    <2>1. latency \in Latencies
        BY DEF SteadyInv, TimeInv
    <2>2. pres_delay_us \in AUDIO_MIN_PRES_DLY_US .. AUDIO_MAX_PRES_DLY_US
        BY DEF TypeInv, TypeOK
    <2> QED
        BY <2>1, <2>2, DelayMargins, MarginFacts
<1>6. RefInv'
    BY <1>1, <1>2, <1>3 DEF SteadyInv, RefInv
<1>7. Late \in Int /\ Corrected' = Corrected /\ Corrected \in Int /\ Late <= Corrected
    BY <1>2, <1>4, <1>5 DEF Late, Corrected
<1>8. LagInv'
    <2>1. Dur(adj) \in Int
        BY <1>4, DurStep
    <2>2. LagInv
        BY DEF SteadyInv
    <2>3. ASSUME Lag' <= Late, adj > 0 PROVE Lag' + Dur(adj) <= Corrected
        <3>1. Dur(adj) <= pres_delay_us + MaxJitter - latency - 1 + HalfBlk
            BY <2>2 DEF LagInv
        <3> QED
            BY <1>4, <1>5, <2>1, <2>3, <3>1 DEF Late, Corrected
    <2>4. Lag' <= Late => Lag' <= Corrected
        BY <1>4, <1>7
    <2> QED
        BY <1>1, <1>2, <1>3, <1>7, <2>2, <2>3, <2>4 DEF LagInv
<1>9. TsInv'
    <2>1. Fresh' = Fresh
        BY <1>1, <1>2, <1>3 DEF Fresh
    <2>2. \A m : StampOf(m)' = StampOf(m)
        BY <1>2 DEF StampOf
    <2>3. \A m \in 1 .. fill' : m \in 1 .. fill
        BY <1>1, FifoNumbers DEF TypeInv, TypeOK
    <2> QED
        BY <1>1, <1>2, <2>1, <2>2, <2>3 DEF SteadyInv, TsInv
<1>10. CopiedInv'
    BY <1>2 DEF SteadyInv, CopiedInv
<1>11. CurInv'
    <2> SUFFICES ASSUME prev_pres_sdu_ref_us # 0, ~Handling, pres_state # "WAIT",
                        now' - NextSdu >= latency + 1
                 PROVE  /\ current_pres_dly_us' + latency <= Lag'
                        /\ current_pres_dly_us' + latency + MaxJitter
                             >= IF Lag' > Late THEN Lag' ELSE now' - NextSdu
        BY <1>1, <1>2 DEF CurInv
    <2>1. /\ current_pres_dly_us' + latency <= Lag
          /\ current_pres_dly_us' + latency + MaxJitter >= Lag
        <3>0. now' = now + BLK_PERIOD_US
            BY <1>1, Zenon
        <3>1. now + BLK_PERIOD_US - NextSdu >= latency + 1
            BY <1>4, <3>0
        <3>2. RefInv /\ LagInv /\ TsInv
            BY DEF SteadyInv
        <3> QED
            BY <1>2, <1>5, <3>1, <3>2, Measured
    <2>2. Lag >= now' - NextSdu
        <3>1. BLK_PERIOD_US <= Dur(fill) /\ Dur(fill) \in Int
            BY Started
        <3> QED
            BY <1>1, <1>4, <3>1 DEF Lag
    <2>3. current_pres_dly_us' \in Int
        BY DEF TypeInv, TypeOK
    <2>4. CASE Lag' > Late
        <3>1. Lag' = Lag
            BY <1>1, <1>4, <1>7, <2>4
        <3> QED
            BY <2>1, <2>4, <3>1
    <2>5. CASE ~(Lag' > Late)
        <3>1. /\ current_pres_dly_us' + latency + MaxJitter >= now' - NextSdu
              /\ current_pres_dly_us' + latency <= Lag'
            <4>1. Lag <= Lag' /\ now' \in Int
                BY <1>1, <1>4
            <4>2. PICK before \in Int, after \in Int, s \in Nat, j \in Nat :
                      before = Lag /\ after = Lag' /\ s = NextSdu /\ j = MaxJitter
                BY <1>4, <1>5
            <4>3. PICK delay \in Int, t \in Int : delay = current_pres_dly_us' /\ t = now'
                BY <2>3, <4>1
            <4>4. /\ delay + latency + j >= before /\ delay + latency <= before
                  /\ before <= after /\ before >= t - s /\ latency \in Nat
                BY <1>4, <2>1, <2>2, <4>1, <4>2, <4>3
            <4>5. delay + latency + j >= t - s /\ delay + latency <= after
                BY <4>4
            <4> QED
                BY <4>2, <4>3, <4>5
        <3> QED
            BY <2>5, <3>1
    <2> QED
        BY <2>4, <2>5
<1>12. SumInv'
    <2> SUFFICES ASSUME pres_state = "MEAS"
                 PROVE  /\ pres_ctr * Lowest' <= sum_err_dly_us
                        /\ sum_err_dly_us <= pres_ctr * Highest'
        BY <1>2 DEF SteadyInv, SumInv
    <2>1. Highest' = Highest
        BY <1>1, <1>2, <1>4, <1>7 DEF Highest
    <2>2. Lowest' <= Lowest /\ Lowest' \in Int /\ Lowest \in Int
        <3>1. Lag <= Lag'
            BY <1>1, <1>4
        <3>2. pres_delay_us' = pres_delay_us
            BY <1>2
        <3>3. PICK before \in Int, after \in Int : before = Lag /\ after = Lag'
            BY <1>4
        <3>4. PICK most \in Nat, j \in Nat : most = pres_delay_us /\ j = MaxJitter
            BY <1>4, <1>5
        <3>5. before <= after
            BY <3>1, <3>3
        <3>6. Lowest = most - j - before /\ Lowest' = most - j - after
            BY <3>2, <3>3, <3>4 DEF Lowest
        <3>7. most - j - after <= most - j - before
            BY ONLY <3>5, before \in Int, after \in Int, most \in Nat, j \in Nat
        <3> QED
            BY <3>6, <3>7
    <2>3. pres_ctr \in Nat /\ sum_err_dly_us \in Int
        BY Numbers
    <2>4. Lowest' * pres_ctr <= Lowest * pres_ctr
        BY <2>2, <2>3, ProductOrder
    <2>5. /\ pres_ctr * Lowest = Lowest * pres_ctr /\ pres_ctr * Lowest' = Lowest' * pres_ctr
          /\ pres_ctr * Lowest \in Int /\ pres_ctr * Lowest' \in Int
        BY <2>2, <2>3
    <2>6. pres_ctr * Lowest <= sum_err_dly_us /\ sum_err_dly_us <= pres_ctr * Highest
        BY DEF SteadyInv, SumInv
    <2> HIDE DEF Lowest, Highest
    <2>7. pres_ctr * Lowest' <= sum_err_dly_us
        BY <2>3, <2>4, <2>5, <2>6
    <2> QED
        BY <2>1, <2>6, <2>7
<1>13. DriftInv'
    BY <1>2, <1>3 DEF SteadyInv, DriftInv
<1> QED
    BY <1>1, <1>6, <1>8, <1>9, <1>10, <1>11, <1>12, <1>13 DEF SteadyInv

\* A step that leaves the numbers alone, the next reference too, leaves what they relate.
SameNumbers == UNCHANGED <<fill, now, latency, adjusted, prev_pres_sdu_ref_us, presVars,
                           pres_delay_us, current_pres_dly_us, drift_state, adj>>

LEMMA Untouched ==
    ASSUME SteadyInv, SameNumbers, NextSdu' = NextSdu, Handling' <=> Handling
    PROVE  /\ LagInv' /\ CurInv' /\ SumInv' /\ DriftInv' /\ Fresh' = Fresh
           /\ UNCHANGED <<prod_blk_idx, prod_blk_ts>> => TsInv'
<1>1. /\ UNCHANGED <<fill, now, latency, prev_pres_sdu_ref_us, pres_state, pres_ctr,
                     sum_err_dly_us, pres_delay_us, current_pres_dly_us, drift_state, adj>>
      /\ (adjusted' <=> adjusted)
    BY DEF SameNumbers
<1>2. Lag' = Lag /\ Late' = Late /\ Corrected' = Corrected
    BY <1>1 DEF Lag, Late, Corrected
<1>3. LagInv' /\ DriftInv'
    BY <1>1, <1>2 DEF SteadyInv, LagInv, DriftInv
<1>4. CurInv'
    BY <1>1, <1>2 DEF SteadyInv, CurInv
<1>5. SumInv'
    <2>1. Lowest' = Lowest /\ Highest' = Highest
        BY <1>1, <1>2 DEF Lowest, Highest
    <2> QED
        BY <1>1, <2>1 DEF SteadyInv, SumInv
<1>6. Fresh' = Fresh
    BY <1>1 DEF Fresh
<1>7. ASSUME UNCHANGED <<prod_blk_idx, prod_blk_ts>> PROVE TsInv'
    <2>1. \A m : StampOf(m)' = StampOf(m)
        BY <1>7 DEF StampOf
    <2> QED
        BY <1>1, <1>6, <2>1 DEF SteadyInv, TsInv
<1> QED
    BY <1>3, <1>4, <1>5, <1>6, <1>7

\* The next frame, or the last one again, which will be dropped.
LEMMA SteadyArrival ==
    ASSUME TypeInv, Margins, SteadyInv, steady', SduArrives \/ SduLost \/ SduRepeated
    PROVE  SteadyInv'
<1>1. /\ FRAME \in Nat \ {0} /\ sdu \in Nat /\ now \in Nat /\ latency \in Nat
      /\ prev_pres_sdu_ref_us \in Nat /\ meta.ref_ts_us \in Nat
    <2>1. FRAME \in Nat \ {0}
        BY DatapathAssumption, MarginFacts DEF FRAME, Dur, Margins
    <2> QED
        BY <2>1, Numbers
<1>2. PICK ref \in Nat :
        /\ Take(ref, now - 1)
        /\ \/ /\ ref = sdu /\ sdu' = sdu + FRAME
              /\ \E j \in Jitter : now - 1 = sdu + latency + j
           \/ ref = meta.ref_ts_us /\ prev_pres_sdu_ref_us # 0 /\ sdu' = sdu
    <2>1. ~SduLost
        BY Zenon DEF SduLost
    <2>2. CASE SduArrives
        <3>1. Take(sdu, now - 1) /\ sdu' = sdu + FRAME
              /\ \E j \in Jitter : now - 1 = sdu + latency + j
            BY <2>2, Zenon DEF SduArrives
        <3> QED
            BY <1>1, <3>1
    <2>3. CASE SduRepeated
        BY <1>1, <2>3 DEF SduRepeated
    <2> QED
        BY <2>1, <2>2, <2>3
<1>3. /\ thread = "wait" /\ thread' = "begin" /\ busy' = 0
      /\ meta' = [ref_ts_us |-> ref, data_rx_ts_us |-> now - 1]
      /\ SameNumbers /\ UNCHANGED <<prod_blk_idx, prod_blk_ts, copied>>
    <2>1. Take(ref, now - 1)
        BY <1>2
    <2>2. SameNumbers
        BY <2>1 DEF Take, SameNumbers
    <2> QED
        BY <2>1, <2>2 DEF Take
<1>4. /\ UNCHANGED <<now, latency, prev_pres_sdu_ref_us, pres_state>>
      /\ (adjusted' <=> adjusted)
    BY <1>3 DEF SameNumbers
<1>5. meta'.ref_ts_us = ref /\ meta'.data_rx_ts_us = now - 1
    BY <1>3
<1>6. ~Handling /\ ~Handling' /\ ~Pending /\ NextSdu = sdu /\ (Pending' <=> ref # prev_pres_sdu_ref_us)
    BY <1>3, <1>4, <1>5 DEF Handling, Pending, NextSdu
<1>7. /\ prev_pres_sdu_ref_us = 0 => sdu > 0 /\ pres_state = "INIT" /\ ~adjusted
      /\ prev_pres_sdu_ref_us # 0 => /\ meta.ref_ts_us = prev_pres_sdu_ref_us
                                     /\ sdu = prev_pres_sdu_ref_us + FRAME
    BY <1>3 DEF SteadyInv, RefInv
<1>8. NextSdu' = NextSdu
    BY <1>1, <1>2, <1>5, <1>6, <1>7 DEF NextSdu
<1>9. RefInv'
    BY <1>1, <1>2, <1>3, <1>4, <1>5, <1>6, <1>7 DEF RefInv, Handling
<1>10. TimeInv'
    <2>1. CASE ref = sdu
        <3>1. PICK j \in Jitter : now - 1 = sdu + latency + j
            BY <1>1, <1>2, <1>7, <2>1
        <3>2. j \in 0 .. MaxJitter /\ Dur(0) = 0 /\ j \in Nat
            BY MarginFacts, DurFacts
        <3>3. /\ now = meta'.data_rx_ts_us + 1 + Dur(0)
              /\ meta'.data_rx_ts_us - meta'.ref_ts_us - latency = j
            BY <1>1, <1>5, <2>1, <3>1, <3>2
        <3>4. Pending'
            BY <1>1, <1>6, <1>7, <2>1
        <3> QED
            BY <1>3, <1>4, <3>2, <3>3, <3>4 DEF SteadyInv, TimeInv
    <2>2. CASE ref # sdu
        <3>1. sdu' = sdu /\ ~Pending'
            BY <1>2, <1>6, <1>7, <2>2
        <3> QED
            BY <1>4, <1>6, <3>1 DEF SteadyInv, TimeInv
    <2> QED
        BY <2>1, <2>2
<1>11. CopiedInv'
    BY <1>3 DEF CopiedInv
<1> QED
    BY <1>3, <1>6, <1>8, <1>9, <1>10, <1>11, Untouched DEF SteadyInv

\* The repeated frame is dropped.
LEMMA SteadyDrop ==
    ASSUME TypeInv, SteadyInv, stream_started, DropFrame
    PROVE  SteadyInv'
<1>1. /\ thread = "begin" /\ thread' = "wait" /\ meta.ref_ts_us = prev_pres_sdu_ref_us
      /\ UNCHANGED <<sdu, meta, prod_blk_idx, prod_blk_ts>> /\ SameNumbers
    BY DEF DropFrame, SameNumbers
<1>2. UNCHANGED <<now, latency, prev_pres_sdu_ref_us, pres_state>> /\ (adjusted' <=> adjusted)
    BY <1>1 DEF SameNumbers
<1>3. ~Handling /\ ~Handling' /\ ~Pending /\ ~Pending' /\ NextSdu = sdu /\ NextSdu' = sdu
    BY <1>1 DEF Handling, Pending, NextSdu
<1>4. RefInv'
    BY <1>1, <1>2, <1>3, Numbers DEF SteadyInv, RefInv
<1>5. TimeInv'
    BY <1>1, <1>2, <1>3 DEF SteadyInv, TimeInv
<1>6. CopiedInv'
    BY <1>1 DEF CopiedInv
<1> QED
    BY <1>1, <1>3, <1>4, <1>5, <1>6, Untouched DEF SteadyInv

\* A frame that is handled is the next one, and its time tells how long it took to come.
LEMMA InOrder ==
    ASSUME TypeInv, Margins, SteadyInv, thread = "begin",
           meta.ref_ts_us # prev_pres_sdu_ref_us
    PROVE  /\ ~NotConsecutive /\ EstimatedSduRef = meta.ref_ts_us /\ meta.ref_ts_us # 0
           /\ Pending /\ ~Handling /\ NextSdu = meta.ref_ts_us
<1>1. /\ FRAME \in Nat \ {0} /\ prev_pres_sdu_ref_us \in Nat /\ meta.ref_ts_us \in Nat
      /\ FRAME < FRAME + FRAME \div 2
    <2>1. PICK h \in Nat \ {0} : BLK_PERIOD_US = 2 * h
        <3>1. /\ BLK_PERIOD_US = 2 * HalfBlk /\ HalfBlk \in Nat /\ BLK_PERIOD_US \in Nat \ {0}
            BY MarginFacts
        <3>2. HalfBlk # 0
            BY <3>1
        <3> QED
            BY <3>1, <3>2
    <2>2. PICK k \in Nat \ {0} : FRAME = 2 * k
        <3>1. NUM_BLKS_IN_FRAME * h \in Nat \ {0}
            BY DatapathAssumption, <2>1
        <3>2. FRAME = 2 * (NUM_BLKS_IN_FRAME * h)
            BY DatapathAssumption, <2>1 DEF FRAME
        <3> QED
            BY <3>1, <3>2
    <2>3. FRAME \in Nat \ {0} /\ FRAME < FRAME + FRAME \div 2
        BY <2>2
    <2> QED
        BY <2>3, Numbers
<1>2. /\ meta.ref_ts_us > 0
      /\ prev_pres_sdu_ref_us = 0 \/ prev_pres_sdu_ref_us = meta.ref_ts_us - FRAME
    BY DEF SteadyInv, RefInv
<1>3. prev_pres_sdu_ref_us # 0 => Delta = FRAME /\ prev_pres_sdu_ref_us + FRAME = meta.ref_ts_us
    BY <1>1, <1>2 DEF Delta
<1>4. ~NotConsecutive
    BY <1>1, <1>3 DEF NotConsecutive
<1>5. EstimatedSduRef = meta.ref_ts_us
    BY <1>2, <1>3, <1>4 DEF EstimatedSduRef
<1>6. Pending /\ ~Handling /\ NextSdu = meta.ref_ts_us
    BY DEF Pending, Handling, NextSdu
<1> QED
    BY <1>1, <1>2, <1>4, <1>5, <1>6

\* When a frame is handled, the clock is past its reference by the latency and the handling.
LEMMA Elapsed ==
    ASSUME TypeInv, Margins, TimeInv, busy <= MaxBusy, Pending
    PROVE  /\ now - NextSdu >= latency + 1
           /\ now - NextSdu <= latency + MaxJitter + 1 + Dur(busy)
           /\ meta.data_rx_ts_us - meta.ref_ts_us - latency \in 0 .. MaxJitter
           /\ Dur(busy) \in Nat /\ Dur(busy) <= Dur(MaxBusy)
<1>1. /\ now = meta.data_rx_ts_us + 1 + Dur(busy) /\ NextSdu = meta.ref_ts_us
      /\ meta.data_rx_ts_us - meta.ref_ts_us - latency \in 0 .. MaxJitter
    BY DEF TimeInv, NextSdu
<1>2. /\ busy \in Nat /\ meta.data_rx_ts_us \in Nat /\ meta.ref_ts_us \in Nat /\ latency \in Nat
      /\ MaxJitter \in Nat /\ MaxBusy \in Nat
    BY Numbers, MarginFacts
<1>3. Dur(busy) \in Nat
    BY <1>2, DatapathAssumption DEF Dur
<1>4. Dur(busy) <= Dur(MaxBusy)
    BY <1>2, DurOrder
<1> QED
    BY <1>1, <1>2, <1>3, <1>4

\* The correction: no more blocks than what is missing at most, and no fewer than would leave the
\* lag short of the delay by more than the jitter and half a block.
LEMMA CorrectionBounds ==
    ASSUME TypeInv, Margins, SteadyInv, pres_state = "MEAS", PRES_COMP_NUM_DATA_PTS <= pres_ctr,
           NEW n \in Int,
           n = AdjustBlocks(Quotient(sum_err_dly_us, PRES_COMP_NUM_DATA_PTS))
    PROVE  /\ n > 0 => Dur(n) <= Highest + HalfBlk
           /\ n < 0 => Lowest - HalfBlk <= Dur(n)
           /\ n # 0 => LET err == Quotient(sum_err_dly_us, PRES_COMP_NUM_DATA_PTS)
                       IN  err >= HalfBlk \/ err <= -HalfBlk
<1>1. PRES_COMP_NUM_DATA_PTS \in Nat \ {0} /\ pres_ctr = PRES_COMP_NUM_DATA_PTS
    BY DatapathAssumption, Numbers DEF SteadyInv, SumInv
<1>2. /\ Lag \in Int /\ latency \in Nat /\ pres_delay_us \in Nat /\ MaxJitter \in Nat
      /\ sum_err_dly_us \in Int /\ HalfBlk \in Nat
    BY Numbers, MarginFacts
<1>3. PICK lo \in Int, hi \in Int : lo = Lowest /\ hi = Highest
    <2>1. PICK lag \in Int, j \in Nat : lag = Lag /\ j = MaxJitter
        BY <1>2
    <2>2. /\ pres_delay_us - j - lag \in Int /\ pres_delay_us + j - lag \in Int
          /\ pres_delay_us + j - (latency + 1) \in Int
        BY <1>2
    <2>3. /\ Lowest = pres_delay_us - j - lag
          /\ Highest = IF lag > Late THEN pres_delay_us + j - lag ELSE pres_delay_us + j - (latency + 1)
        BY <2>1 DEF Lowest, Highest
    <2> HIDE DEF Lowest, Highest
    <2> QED
        BY <2>2, <2>3
<1>4. PRES_COMP_NUM_DATA_PTS * lo <= sum_err_dly_us /\ sum_err_dly_us <= PRES_COMP_NUM_DATA_PTS * hi
    BY <1>1, <1>3 DEF SteadyInv, SumInv
<1>5. PICK err \in Int : /\ err = Quotient(sum_err_dly_us, PRES_COMP_NUM_DATA_PTS)
                         /\ lo <= err /\ err <= hi
    BY <1>1, <1>2, <1>4, QuotientBounds
<1>6. /\ n > 0 => Dur(n) <= err + HalfBlk
      /\ n < 0 => err - HalfBlk <= Dur(n)
      /\ n # 0 => err >= HalfBlk \/ err <= -HalfBlk
    BY <1>5, AdjustBounds
<1>7. Dur(n) \in Int
    BY DurStep
<1>8. PICK d \in Int, h \in Nat : d = Dur(n) /\ h = HalfBlk
    BY <1>2, <1>7
<1>9. (n > 0 => d <= hi + h) /\ (n < 0 => lo - h <= d)
    BY <1>5, <1>6, <1>8
<1> QED
    BY <1>3, <1>5, <1>6, <1>8, <1>9

\* What presentation compensation does with it.
Average == Quotient(sum_err_dly_us, PRES_COMP_NUM_DATA_PTS)
Error   == pres_delay_us - (meta.data_rx_ts_us - meta.ref_ts_us)

Unlocked  == pres_state = "INIT" /\ ~adjusted /\ pres_state' = "INIT" /\ adj' = 0
Begins    == pres_state = "INIT" /\ Enter("MEAS", 0, 0) /\ adj' = 0
Measures  == /\ pres_state = "MEAS" /\ pres_ctr < PRES_COMP_NUM_DATA_PTS /\ adj' = 0
             /\ Enter("MEAS", pres_ctr + 1, sum_err_dly_us + Error - current_pres_dly_us)
Corrects  == /\ pres_state = "MEAS" /\ pres_ctr >= PRES_COMP_NUM_DATA_PTS
             /\ adj' = AdjustBlocks(Average) /\ pres_ctr' = 0
             /\ pres_state' = IF Average >= HalfBlk \/ Average <= -HalfBlk
                              THEN "WAIT" ELSE "LOCKED"
Waits     == /\ pres_state = "WAIT" /\ pres_ctr' = pres_ctr + 1 /\ adj' = 0
             /\ pres_state' = IF WaitIsOver(pres_ctr) THEN "INIT" ELSE "WAIT"
StaysLocked == pres_state = "LOCKED" /\ UNCHANGED presVars /\ adj' = 0

LEMMA Decision ==
    ASSUME TypeInv, Margins, SteadyInv, Compensate
    PROVE  \/ Unlocked
           \/ drift_state = "LOCKED" /\ (Begins \/ Measures \/ Corrects \/ Waits \/ StaysLocked)
<1>1. thread = "begin" /\ meta.ref_ts_us # prev_pres_sdu_ref_us /\ PresentationCompensation
    BY DEF Compensate
<1>2. ~NotConsecutive /\ EstimatedSduRef = meta.ref_ts_us
    BY <1>1, InOrder
<1>3. /\ pres_state \in {"INIT", "MEAS", "WAIT", "LOCKED"}
      /\ pres_ctr \in Nat /\ PRES_COMP_NUM_DATA_PTS \in Nat
    BY DatapathAssumption DEF TypeInv, TypeOK
<1>4. DriftInv
    BY DEF SteadyInv
<1>5. CASE drift_state # "LOCKED"
    <2>1. Enter("INIT", pres_ctr, sum_err_dly_us) /\ adj' = 0
        BY <1>1, <1>5 DEF PresentationCompensation
    <2> QED
        BY <1>4, <1>5, <2>1 DEF DriftInv, Unlocked, Enter
<1>6. CASE drift_state = "LOCKED" /\ pres_state = "INIT"
    <2>1. Enter("MEAS", 0, 0) /\ adj' = 0
        BY <1>1, <1>2, <1>6 DEF PresentationCompensation
    <2> QED
        BY <1>6, <2>1 DEF Begins
<1>7. CASE drift_state = "LOCKED" /\ pres_state = "MEAS" /\ pres_ctr < PRES_COMP_NUM_DATA_PTS
    <2>1. /\ Enter("MEAS", pres_ctr + 1,
                   sum_err_dly_us + (pres_delay_us - (meta.data_rx_ts_us - EstimatedSduRef))
                     - current_pres_dly_us)
          /\ adj' = 0
        BY <1>1, <1>2, <1>3, <1>7 DEF PresentationCompensation
    <2> QED
        BY <1>2, <1>7, <2>1 DEF Measures, Error
<1>8. CASE drift_state = "LOCKED" /\ pres_state = "MEAS" /\ ~(pres_ctr < PRES_COMP_NUM_DATA_PTS)
    <2>1. pres_ctr >= PRES_COMP_NUM_DATA_PTS
        BY <1>3, <1>8
    <2>2. /\ Enter(IF Average >= HalfBlk \/ Average <= -HalfBlk THEN "WAIT" ELSE "LOCKED", 0,
                   sum_err_dly_us)
          /\ adj' = AdjustBlocks(Average)
        BY <1>1, <1>2, <1>8, <2>1 DEF PresentationCompensation, Average, HalfBlk
    <2> QED
        BY <1>8, <2>1, <2>2 DEF Corrects, Enter
<1>9. CASE drift_state = "LOCKED" /\ pres_state = "WAIT"
    <2>1. /\ Enter(IF WaitIsOver(pres_ctr) THEN "INIT" ELSE "WAIT", pres_ctr + 1, sum_err_dly_us)
          /\ adj' = 0
        BY <1>1, <1>2, <1>9 DEF PresentationCompensation
    <2> QED
        BY <1>9, <2>1 DEF Waits, Enter
<1>10. CASE drift_state = "LOCKED" /\ pres_state = "LOCKED"
    <2>1. UNCHANGED presVars /\ adj' = 0
        BY <1>1, <1>2, <1>10 DEF PresentationCompensation
    <2> QED
        BY <1>10, <2>1 DEF StaysLocked
<1> QED
    BY <1>3, <1>5, <1>6, <1>7, <1>8, <1>9, <1>10

\* A correction leaves the lag within its bounds, and the blocks it inserts and removes fit.
LEMMA CorrectionIsBounded ==
    ASSUME TypeInv, TypeInv', Margins, StartedInv, SteadyInv, busy <= MaxBusy, Pending, Corrects
    PROVE  /\ adj' > 0 => /\ Lag + Dur(adj') <= Corrected
                          /\ fill + adj' < FIFO_NUM_BLKS
           /\ adj' < 0 => fill + adj' + busy > MaxBusy
           /\ Dur(adj') <= pres_delay_us + MaxJitter - latency - 1 + HalfBlk
           /\ adj' # 0 => pres_state' = "WAIT"
<1>1. PICK n \in Int : n = adj'
    BY DEF TypeInv, TypeOK
<1>2. /\ n > 0 => Dur(n) <= Highest + HalfBlk
      /\ n < 0 => Lowest - HalfBlk <= Dur(n)
      /\ n # 0 => Average >= HalfBlk \/ Average <= -HalfBlk
    BY <1>1, CorrectionBounds, Zenon DEF Corrects, Average
<1>3. PICK lag \in Int, now_ \in Nat, ref \in Nat, l \in Nat, p \in Nat :
        lag = Lag /\ now_ = now /\ ref = NextSdu /\ l = latency /\ p = pres_delay_us
    BY Numbers
<1>4. PICK j \in Nat, h \in Nat, mb \in Nat, fr \in Nat, ff \in Nat, blk \in Nat \ {0} :
        /\ j = MaxJitter /\ h = HalfBlk /\ mb = Dur(MaxBusy) /\ fr = Dur(NUM_BLKS_IN_FRAME)
        /\ ff = Dur(FIFO_NUM_BLKS) /\ blk = BLK_PERIOD_US /\ blk = 2 * h
        /\ Dur(MaxBusy + 1) = mb + blk
    BY MarginFacts
<1>5. /\ p > l + 1 + 2 * j + mb + h
      /\ p + 2 * j + mb + blk + h + fr < ff + l + 1
    <2>1. latency \in Latencies /\ pres_delay_us \in AUDIO_MIN_PRES_DLY_US .. AUDIO_MAX_PRES_DLY_US
        BY DEF SteadyInv, TimeInv, TypeInv, TypeOK
    <2>2. /\ pres_delay_us > latency + 1 + 2 * MaxJitter + Dur(MaxBusy) + HalfBlk
          /\ pres_delay_us + 2 * MaxJitter + Dur(MaxBusy + 1) + HalfBlk + Dur(NUM_BLKS_IN_FRAME)
                < Dur(FIFO_NUM_BLKS) + latency + 1
        BY <2>1, DelayMargins
    <2> QED
        BY <1>3, <1>4, <2>2
<1>6. PICK db \in Nat : /\ db = Dur(busy) /\ db <= mb
                        /\ now_ - ref >= l + 1 /\ now_ - ref <= l + j + 1 + db
    BY <1>3, <1>4, Elapsed DEF SteadyInv
<1>7. /\ Late = l + j + 1 + mb + blk /\ Corrected = p + 2 * j + mb + blk + h
    BY <1>3, <1>4 DEF Late, Corrected
<1>8. /\ Highest = IF lag > l + j + 1 + mb + blk THEN p + j - lag ELSE p + j - l - 1
      /\ Lowest = p - j - lag
    BY <1>3, <1>4, <1>7 DEF Highest, Lowest
<1>9. PICK d \in Int, df \in Int, dn \in Int :
        /\ d = Dur(n) /\ df = Dur(fill) /\ dn = Dur(fill + n) /\ dn = df + d
        /\ lag = df + now_ - ref
    <2>1. Dur(n) \in Int /\ Dur(fill) \in Int /\ Dur(fill + n) = Dur(fill) + Dur(n)
        BY Numbers, DurFacts
    <2> QED
        BY <1>3, <2>1 DEF Lag
<1>10. ASSUME n > 0
       PROVE  /\ d <= p + j - l - 1 + h
              /\ lag + d <= p + 2 * j + mb + blk + h
              /\ dn < ff
    <2>1. d <= Highest + HalfBlk
        BY <1>2, <1>9, <1>10
    <2>2. CASE lag > l + j + 1 + mb + blk
        <3>1. d <= p + j - lag + h
            BY <1>4, <1>8, <2>1, <2>2
        <3> QED
            BY <1>5, <1>6, <1>9, <2>2, <3>1
    <2>3. CASE ~(lag > l + j + 1 + mb + blk)
        <3>1. d <= p + j - l - 1 + h
            BY <1>4, <1>8, <2>1, <2>3
        <3> QED
            BY <1>5, <1>6, <1>9, <2>3, <3>1
    <2> QED
        BY <2>2, <2>3
<1>11. fill \in Int /\ busy \in Nat /\ MaxBusy \in Nat /\ FIFO_NUM_BLKS \in Int
    BY Numbers, FifoSize
<1>12. n > 0 => fill + n < FIFO_NUM_BLKS
    <2> SUFFICES ASSUME n > 0 PROVE fill + n < FIFO_NUM_BLKS
        OBVIOUS
    <2>1. Dur(fill + n) < Dur(FIFO_NUM_BLKS)
        BY <1>4, <1>9, <1>10
    <2> QED
        BY <1>11, <2>1, DurFacts
<1>13. n < 0 => fill + n + busy > MaxBusy
    <2> SUFFICES ASSUME n < 0 PROVE fill + n + busy > MaxBusy
        OBVIOUS
    <2>1. p - j - lag - h <= d
        BY <1>2, <1>4, <1>8, <1>9
    <2>2. mb < dn + db
        BY <1>5, <1>6, <1>9, <2>1
    <2>3. Dur(fill + n + busy) = dn + db
        BY <1>6, <1>9, <1>11, DurFacts
    <2>4. Dur(MaxBusy) < Dur(fill + n + busy)
        BY <1>4, <2>2, <2>3
    <2>5. fill + n + busy \in Int /\ MaxBusy \in Int
        BY <1>11
    <2>6. MaxBusy < fill + n + busy
        BY <2>4, <2>5, DurFacts
    <2> QED
        BY <1>11, <2>6
<1>14. Dur(n) <= pres_delay_us + MaxJitter - latency - 1 + HalfBlk
    <2>1. n <= 0 => d <= 0
        <3>1. n <= 0 => Dur(n) <= Dur(0)
            BY DurOrder
        <3> QED
            BY <1>9, <3>1, DurFacts
    <2>2. d <= p + j - l - 1 + h
        BY <1>5, <1>10, <2>1
    <2> QED
        BY <1>3, <1>4, <1>9, <2>2
<1>15. n # 0 => pres_state' = "WAIT"
    BY <1>2, Zenon DEF Corrects
<1> QED
    BY <1>1, <1>3, <1>7, <1>9, <1>10, <1>12, <1>13, <1>14, <1>15

LEMMA Extremes ==
    ASSUME TypeInv, Margins
    PROVE  Lowest \in Int /\ Highest \in Int
<1>1. PICK lag \in Int, j \in Nat, p \in Nat, l \in Nat :
        lag = Lag /\ j = MaxJitter /\ p = pres_delay_us /\ l = latency
    BY Numbers, MarginFacts
<1>2. p - j - lag \in Int /\ p + j - lag \in Int /\ p + j - (l + 1) \in Int
    OBVIOUS
<1>3. /\ Lowest = p - j - lag
      /\ Highest = IF lag > Late THEN p + j - lag ELSE p + j - (l + 1)
    BY <1>1 DEF Lowest, Highest
<1> HIDE DEF Lowest, Highest
<1> QED
    BY <1>2, <1>3

\* One sample of the error lies where the sum of them is to.
LEMMA Sample ==
    ASSUME TypeInv, Margins, RefInv, TimeInv, CurInv, Pending, ~Handling, pres_state = "MEAS"
    PROVE  /\ Error \in Int
           /\ Lowest <= Error - current_pres_dly_us /\ Error - current_pres_dly_us <= Highest
<1>1. PICK lag \in Int, now_ \in Nat, s \in Nat, l \in Nat, p \in Nat, c \in Int, j \in Nat :
        /\ lag = Lag /\ now_ = now /\ s = NextSdu /\ l = latency /\ p = pres_delay_us
        /\ c = current_pres_dly_us /\ j = MaxJitter
    BY Numbers, MarginFacts
<1>2. PICK rx \in Nat, ref \in Nat : rx = meta.data_rx_ts_us /\ ref = meta.ref_ts_us
    BY Numbers
<1>3. Error = p - (rx - ref) /\ rx - ref - l \in 0 .. j
    BY <1>1, <1>2 DEF Error, TimeInv
<1>4. now_ - s >= l + 1
    <2>1. now = meta.data_rx_ts_us + 1 + Dur(busy) /\ NextSdu = meta.ref_ts_us
        BY DEF TimeInv, NextSdu
    <2>2. Dur(busy) \in Nat
        BY Numbers DEF Dur
    <2> QED
        BY <1>1, <1>2, <1>3, <2>1, <2>2
<1>5. prev_pres_sdu_ref_us # 0
    BY DEF RefInv
<1>6. c + l <= lag /\ c + l + j >= IF lag > Late THEN lag ELSE now_ - s
    BY <1>1, <1>4, <1>5 DEF CurInv
<1>7. /\ Lowest = p - j - lag
      /\ Highest = IF lag > Late THEN p + j - lag ELSE p + j - (l + 1)
    BY <1>1 DEF Lowest, Highest
<1>8. p - j - lag <= p - (rx - ref) - c
    BY <1>3, <1>6
<1>9. CASE lag > Late
    <2>1. p - (rx - ref) - c <= p + j - lag
        BY <1>3, <1>6, <1>9
    <2> QED
        BY <1>1, <1>3, <1>7, <1>8, <1>9, <2>1
<1>10. CASE ~(lag > Late)
    <2>1. p - (rx - ref) - c <= p + j - (l + 1)
        BY <1>3, <1>4, <1>6, <1>10
    <2> QED
        BY <1>1, <1>3, <1>7, <1>8, <1>10, <2>1
<1> QED
    BY <1>9, <1>10

\* After the wait every block in the FIFO has come since the correction.
LEMMA PlayedAll ==
    ASSUME NEW c \in Nat, c > FIFO_NUM_BLKS \div NUM_BLKS_IN_FRAME
    PROVE  (c + 1) * NUM_BLKS_IN_FRAME >= FIFO_NUM_BLKS
<1>1. PICK q \in Nat : q = FIFO_NUM_BLKS \div NUM_BLKS_IN_FRAME
    BY FifoSize
<1>2. FIFO_NUM_BLKS < NUM_BLKS_IN_FRAME * q + NUM_BLKS_IN_FRAME
    BY <1>1, FifoSize
<1>3. q + 1 <= c + 1
    BY <1>1
<1>4. (q + 1) * NUM_BLKS_IN_FRAME <= (c + 1) * NUM_BLKS_IN_FRAME
    BY <1>3, FifoSize, ProductOrder
<1>5. (q + 1) * NUM_BLKS_IN_FRAME = NUM_BLKS_IN_FRAME * q + NUM_BLKS_IN_FRAME
    BY FifoSize
<1>6. (c + 1) * NUM_BLKS_IN_FRAME \in Int /\ NUM_BLKS_IN_FRAME * q \in Int
    BY FifoSize
<1> QED
    BY <1>2, <1>4, <1>5, <1>6, FifoSize

\* The thread decides on a frame.
LEMMA SteadyDecision ==
    ASSUME TypeInv, TypeInv', Margins, StartedInv, SteadyInv, busy <= MaxBusy, Compensate
    PROVE  CorrectionFits /\ SteadyInv'
<1>1. /\ thread = "begin" /\ meta.ref_ts_us # prev_pres_sdu_ref_us /\ thread' = "adjust"
      /\ prev_pres_sdu_ref_us' = EstimatedSduRef
      /\ UNCHANGED <<meta, sdu, now, busy, fill, latency, pres_delay_us, current_pres_dly_us,
                     drift_state, prod_blk_idx, prod_blk_ts>>
    BY DEF Compensate
<1>2. adjusted' <=> (adjusted \/ adj' # 0)
    BY Zenon DEF Compensate
<1>3. /\ EstimatedSduRef = meta.ref_ts_us /\ meta.ref_ts_us # 0
      /\ Pending /\ ~Handling /\ NextSdu = meta.ref_ts_us
    BY <1>1, InOrder
<1>4. Handling' /\ Pending' /\ NextSdu' = NextSdu
    BY <1>1, <1>3 DEF Handling, Pending, NextSdu
<1>5. Lag' = Lag /\ Late' = Late /\ Corrected' = Corrected
    BY <1>1, <1>4 DEF Lag, Late, Corrected
<1>6. /\ RefInv /\ TimeInv /\ LagInv /\ TsInv /\ CurInv /\ SumInv /\ DriftInv
    BY DEF SteadyInv
<1>7. \/ Unlocked
      \/ drift_state = "LOCKED" /\ (Begins \/ Measures \/ Corrects \/ Waits \/ StaysLocked)
    BY Decision
<1>8. \/ adj' = 0
      \/ /\ adj' > 0 => Lag + Dur(adj') <= Corrected /\ fill + adj' < FIFO_NUM_BLKS
         /\ adj' < 0 => fill + adj' + busy > MaxBusy
         /\ Dur(adj') <= pres_delay_us + MaxJitter - latency - 1 + HalfBlk
         /\ pres_state' = "WAIT" /\ pres_ctr' = 0
    <2>1. CASE Corrects
        <3>1. CASE adj' = 0
            BY <3>1
        <3>2. CASE adj' # 0
            <4>1. pres_ctr' = 0
                BY <2>1 DEF Corrects
            <4> QED
                BY <1>3, <2>1, <3>2, <4>1, CorrectionIsBounded
        <3> QED
            BY <3>1, <3>2
    <2>2. CASE ~Corrects
        BY <1>7, <2>2 DEF Unlocked, Begins, Measures, Waits, StaysLocked
    <2> QED
        BY <2>1, <2>2
<1>9. CorrectionFits
    BY <1>8 DEF CorrectionFits
<1>10. RefInv'
    BY <1>1, <1>3, <1>4, <1>6, Numbers DEF RefInv
<1>11. TimeInv'
    BY <1>1, <1>3, <1>4, <1>6 DEF TimeInv
<1>12. LagInv'
    <2>1. Dur(0) = 0
        BY DurFacts
    <2>2. 0 <= pres_delay_us + MaxJitter - latency - 1 + HalfBlk
        <3>1. /\ latency \in Latencies
              /\ pres_delay_us \in AUDIO_MIN_PRES_DLY_US .. AUDIO_MAX_PRES_DLY_US
            BY <1>6 DEF TimeInv, TypeInv, TypeOK
        <3>2. pres_delay_us > latency + 1 + 2 * MaxJitter + Dur(MaxBusy) + HalfBlk
            BY <3>1, DelayMargins
        <3> QED
            BY <3>2, Numbers, MarginFacts
    <2>3. Lag' <= Corrected' /\ (~adjusted' => Lag' <= Late')
        BY <1>2, <1>5, <1>6 DEF LagInv
    <2>4. CASE adj' = 0
        BY <1>1, <2>1, <2>2, <2>3, <2>4 DEF LagInv
    <2>5. CASE adj' # 0
        BY <1>1, <1>2, <1>5, <1>8, <2>3, <2>5 DEF LagInv
    <2> QED
        BY <2>4, <2>5
<1>13. TsInv'
    <2>1. \A m \in 1 .. fill : m <= Fresh' => m <= Fresh
        <3> SUFFICES ASSUME NEW m \in 1 .. fill, m <= Fresh' PROVE m <= Fresh
            OBVIOUS
        <3>1. fill \in 1 .. FIFO_NUM_BLKS - 1 /\ m \in Nat /\ m < FIFO_NUM_BLKS
            BY Started, FifoSize
        <3>2. prev_pres_sdu_ref_us' # 0
            BY <1>1, <1>3
        <3>3. prev_pres_sdu_ref_us = 0 => pres_state = "INIT" /\ ~adjusted
            BY <1>6 DEF RefInv
        <3>4. CASE Unlocked
            <4>1. Fresh' = 0
                BY <1>2, <1>4, <3>2, <3>4 DEF Fresh, Unlocked
            <4> QED
                BY <3>1, <4>1
        <3>5. CASE Begins \/ Measures \/ StaysLocked
            <4>1. pres_state # "WAIT" /\ pres_state' # "WAIT" /\ adj' = 0
                BY <3>5 DEF Begins, Measures, StaysLocked, Enter
            <4>2. CASE adjusted
                BY <1>2, <1>3, <3>1, <3>3, <4>1, <4>2 DEF Fresh
            <4>3. CASE ~adjusted
                <5>1. Fresh' = 0
                    BY <1>2, <1>4, <3>2, <4>1, <4>3 DEF Fresh
                <5> QED
                    BY <3>1, <5>1
            <4> QED
                BY <4>2, <4>3
        <3>6. CASE Corrects
            <4>1. pres_state = "MEAS" /\ pres_ctr' = 0
                BY <3>6 DEF Corrects
            <4>2. CASE pres_state' = "WAIT"
                <5>1. Fresh' = 0
                    BY <1>4, <3>2, <4>1, <4>2, FifoSize DEF Fresh
                <5> QED
                    BY <3>1, <5>1
            <4>3. CASE pres_state' # "WAIT"
                <5>1. adj' = 0
                    BY <1>8, <4>3
                <5>2. CASE adjusted
                    BY <1>2, <1>3, <3>1, <3>3, <4>1, <4>3, <5>1, <5>2 DEF Fresh
                <5>3. CASE ~adjusted
                    <6>1. Fresh' = 0
                        BY <1>2, <1>4, <3>2, <4>3, <5>1, <5>3 DEF Fresh
                    <6> QED
                        BY <3>1, <6>1
                <5> QED
                    BY <5>2, <5>3
            <4> QED
                BY <4>2, <4>3
        <3>7. CASE Waits
            <4>1. /\ pres_state = "WAIT" /\ pres_ctr' = pres_ctr + 1
                  /\ pres_state' = IF WaitIsOver(pres_ctr) THEN "INIT" ELSE "WAIT"
                BY <3>7 DEF Waits
            <4>2. Fresh = (pres_ctr + 1) * NUM_BLKS_IN_FRAME
                BY <1>3, <3>3, <4>1 DEF Fresh
            <4>3. CASE pres_state' = "WAIT"
                BY <1>4, <3>2, <4>1, <4>2, <4>3 DEF Fresh
            <4>4. CASE pres_state' # "WAIT"
                <5>1. pres_ctr > FIFO_NUM_BLKS \div NUM_BLKS_IN_FRAME
                    BY <4>1, <4>4 DEF WaitIsOver
                <5>2. (pres_ctr + 1) * NUM_BLKS_IN_FRAME >= FIFO_NUM_BLKS
                    BY <5>1, PlayedAll, Numbers
                <5> QED
                    BY <3>1, <4>2, <5>2, FifoSize, Numbers
            <4> QED
                BY <4>3, <4>4
        <3> QED
            BY <1>7, <3>4, <3>5, <3>6, <3>7
    <2>2. \A m : StampOf(m)' = StampOf(m)
        BY <1>1 DEF StampOf
    <2> QED
        BY <1>1, <1>4, <1>6, <2>1, <2>2 DEF TsInv
<1>14. CopiedInv' /\ CurInv'
    BY <1>1, <1>4 DEF CopiedInv, CurInv
<1>15. SumInv'
    <2> SUFFICES ASSUME pres_state' = "MEAS"
                 PROVE  /\ pres_ctr' <= PRES_COMP_NUM_DATA_PTS
                        /\ pres_ctr' * Lowest' <= sum_err_dly_us'
                        /\ sum_err_dly_us' <= pres_ctr' * Highest'
        BY DEF SumInv
    <2>1. PICK lo \in Int, hi \in Int :
            lo = Lowest /\ hi = Highest /\ lo = Lowest' /\ hi = Highest'
        <3>1. Lowest' = Lowest /\ Highest' = Highest
            BY <1>1, <1>5 DEF Lowest, Highest
        <3> QED
            BY <3>1, Extremes
    <2>2. Begins \/ Measures
        BY <1>7 DEF Unlocked, Begins, Measures, Corrects, Waits, StaysLocked, Enter
    <2>3. CASE Begins
        <3>1. pres_ctr' = 0 /\ sum_err_dly_us' = 0
            BY <2>3 DEF Begins, Enter
        <3>2. 0 * lo = 0 /\ 0 * hi = 0 /\ 0 <= PRES_COMP_NUM_DATA_PTS
            BY DatapathAssumption
        <3>3. 0 * Lowest' = 0 /\ 0 * Highest' = 0
            BY <2>1, <3>2, Zenon
        <3> QED
            BY <3>1, <3>2, <3>3
    <2>4. CASE Measures
        <3>1. /\ pres_state = "MEAS" /\ pres_ctr < PRES_COMP_NUM_DATA_PTS
              /\ pres_ctr' = pres_ctr + 1
              /\ sum_err_dly_us' = sum_err_dly_us + Error - current_pres_dly_us
            BY <2>4 DEF Measures, Enter
        <3>2. pres_ctr * lo <= sum_err_dly_us /\ sum_err_dly_us <= pres_ctr * hi
            BY <1>6, <2>1, <3>1 DEF SumInv
        <3>3. lo <= Error - current_pres_dly_us /\ Error - current_pres_dly_us <= hi
              /\ Error \in Int
            BY <1>3, <1>6, <2>1, <3>1, Sample
        <3>4. PICK e \in Int : e = Error - current_pres_dly_us
            BY <3>3, Numbers
        <3>5. sum_err_dly_us' = sum_err_dly_us + e
            BY <3>1, <3>3, <3>4, Numbers
        <3>6. /\ pres_ctr \in Nat /\ (pres_ctr + 1) * lo = pres_ctr * lo + lo
              /\ (pres_ctr + 1) * hi = pres_ctr * hi + hi
              /\ pres_ctr * lo \in Int /\ pres_ctr * hi \in Int /\ sum_err_dly_us \in Int
            <4>1. pres_ctr \in Nat /\ sum_err_dly_us \in Int
                BY Numbers
            <4> QED
                BY <4>1, Products
        <3>7. pres_ctr + 1 <= PRES_COMP_NUM_DATA_PTS
            BY <3>1, <3>6, DatapathAssumption
        <3>8. (pres_ctr + 1) * lo <= sum_err_dly_us + e /\ sum_err_dly_us + e <= (pres_ctr + 1) * hi
            BY <3>2, <3>3, <3>4, <3>6
        <3> QED
            BY <2>1, <3>1, <3>5, <3>7, <3>8
    <2> QED
        BY <2>2, <2>3, <2>4
<1>16. DriftInv'
    BY <1>1, <1>2, <1>7 DEF DriftInv, Unlocked
<1> QED
    BY <1>9, <1>10, <1>11, <1>12, <1>13, <1>14, <1>15, <1>16 DEF SteadyInv

\* One block of a correction: the lag changes by it, and so does what is left of the correction.
LEMMA SteadyAdjustment ==
    ASSUME TypeInv, Margins, SteadyInv, InsertBlock \/ RemoveBlock
    PROVE  SteadyInv'
<1>1. /\ thread = "adjust" /\ thread' = "adjust" /\ adj # 0
      /\ UNCHANGED <<meta, sdu, now, busy, latency, prev_pres_sdu_ref_us, pres_state, pres_ctr,
                     sum_err_dly_us, pres_delay_us, current_pres_dly_us, drift_state>>
    BY Numbers DEF InsertBlock, RemoveBlock
<1>2. adjusted' <=> adjusted
    BY DEF InsertBlock, RemoveBlock
<1>3. /\ Handling /\ Handling' /\ Pending /\ Pending' /\ NextSdu' = NextSdu
      /\ Late' = Late /\ Corrected' = Corrected
    BY <1>1 DEF Handling, Pending, NextSdu, Late, Corrected
<1>4. RefInv' /\ TimeInv' /\ CopiedInv' /\ CurInv' /\ DriftInv'
    BY <1>1, <1>2, <1>3 DEF SteadyInv, RefInv, TimeInv, CopiedInv, CurInv, DriftInv
<1>5. adjusted /\ pres_state = "WAIT" /\ pres_ctr = 0 /\ prev_pres_sdu_ref_us # 0
    BY <1>1 DEF SteadyInv, LagInv, RefInv
<1>6. SumInv'
    BY <1>1, <1>5 DEF SumInv
<1>7. TsInv'
    <2>1. Fresh' = 0
        BY <1>1, <1>3, <1>5, FifoSize DEF Fresh
    <2> QED
        BY <2>1 DEF TsInv
<1>8. PICK lag \in Int, f \in Int, a \in Int, t \in Nat, s \in Nat, d \in Int, b \in Nat :
        /\ lag = Lag /\ f = fill /\ a = adj /\ t = now /\ s = NextSdu /\ d = Dur(adj)
        /\ b = BLK_PERIOD_US
    BY Numbers, DurStep
<1>9. Corrected \in Int /\ 0 <= pres_delay_us + MaxJitter - latency - 1 + HalfBlk
    <2>1. latency \in Latencies /\ pres_delay_us \in AUDIO_MIN_PRES_DLY_US .. AUDIO_MAX_PRES_DLY_US
        BY DEF SteadyInv, TimeInv, TypeInv, TypeOK
    <2>2. /\ pres_delay_us \in Nat /\ latency \in Nat
          /\ pres_delay_us > latency + 1 + 2 * MaxJitter + Dur(MaxBusy) + HalfBlk
        BY <2>1, DelayMargins
    <2> QED
        BY <2>2, MarginFacts DEF Corrected
<1>10. PICK most \in Int, room \in Int :
         most = Corrected /\ room = pres_delay_us + MaxJitter - latency - 1 + HalfBlk /\ 0 <= room
    BY <1>9, Numbers, MarginFacts
<1>11. /\ lag <= most /\ d <= room
       /\ a > 0 => lag + d <= most
    BY <1>8, <1>10 DEF SteadyInv, LagInv
<1>12. /\ Dur(f + 1) = Dur(f) + b /\ Dur(f - 1) = Dur(f) - b /\ Dur(a - 1) = d - b
       /\ Dur(a + 1) = d + b /\ Dur(f) \in Int /\ lag = Dur(f) + t - s
    BY <1>8, DurStep DEF Lag
<1>13. Dur(0) = 0 /\ \A i, k \in Int : i <= k => Dur(i) <= Dur(k)
    BY DurOrder, DurStep, DurFacts
<1>14. /\ Lag' <= most /\ Dur(adj') <= room
       /\ adj' > 0 => Lag' + Dur(adj') <= most
    <2>1. CASE InsertBlock
        <3>1. a > 0 /\ adj' = a - 1 /\ fill' = f + 1
            BY <1>8, <2>1 DEF InsertBlock
        <3>2. Lag' = lag + b /\ Dur(adj') = d - b
            BY <1>1, <1>3, <1>8, <1>12, <3>1 DEF Lag
        <3>3. b <= d
            <4>1. Dur(1) <= Dur(a) /\ Dur(1) = b
                BY <1>8, <1>13, <3>1, DurFacts
            <4> QED
                BY <1>8, <4>1
        <3>4. lag + b <= most /\ d - b <= room /\ (lag + b) + (d - b) <= most
            BY <1>11, <3>1, <3>3
        <3> QED
            BY ONLY <3>2, <3>4
    <2>2. CASE RemoveBlock
        <3>1. a < 0 /\ adj' = a + 1 /\ fill' = f - 1
            BY <1>8, <2>2 DEF RemoveBlock
        <3>2. Lag' = lag - b /\ Dur(adj') = d + b
            BY <1>1, <1>3, <1>8, <1>12, <3>1 DEF Lag
        <3>3. d + b <= 0
            <4>1. Dur(a + 1) <= Dur(0)
                BY <1>13, <3>1
            <4> QED
                BY <1>12, <1>13, <4>1
        <3>4. lag - b <= most /\ d + b <= room /\ ~(a + 1 > 0)
            BY <1>10, <1>11, <3>1, <3>3
        <3> QED
            BY ONLY <3>1, <3>2, <3>4
    <2> QED
        BY <2>1, <2>2
<1>15. LagInv'
    BY <1>1, <1>2, <1>3, <1>5, <1>10, <1>14 DEF LagInv
<1> QED
    BY <1>4, <1>6, <1>7, <1>15 DEF SteadyInv

\* There is room for a frame when it is handled, whatever has been inserted for it.
LEMMA FrameHasRoom ==
    ASSUME TypeInv, Margins, StartedInv, SteadyInv, busy <= MaxBusy, thread = "adjust"
    PROVE  fill + NUM_BLKS_IN_FRAME < FIFO_NUM_BLKS /\ filled_blocks_get = fill
<1>1. Pending
    BY DEF Pending, Handling
<1>2. PICK lag \in Int, f \in Int, t \in Nat, s \in Nat, l \in Nat, p \in Nat :
        lag = Lag /\ f = fill /\ t = now /\ s = NextSdu /\ l = latency /\ p = pres_delay_us
    BY Numbers
<1>3. PICK j \in Nat, h \in Nat, mb \in Nat, fr \in Nat, ff \in Nat :
        /\ j = MaxJitter /\ h = HalfBlk /\ mb = Dur(MaxBusy + 1) /\ fr = Dur(NUM_BLKS_IN_FRAME)
        /\ ff = Dur(FIFO_NUM_BLKS)
    BY MarginFacts
<1>4. p + 2 * j + mb + h + fr < ff + l + 1
    <2>1. latency \in Latencies /\ pres_delay_us \in AUDIO_MIN_PRES_DLY_US .. AUDIO_MAX_PRES_DLY_US
        BY DEF SteadyInv, TimeInv, TypeInv, TypeOK
    <2> QED
        BY <1>2, <1>3, <2>1, DelayMargins
<1>5. t - s >= l + 1
    BY <1>1, <1>2, Elapsed DEF SteadyInv
<1>6. lag <= p + 2 * j + mb + h
    BY <1>2, <1>3 DEF SteadyInv, LagInv, Corrected
<1>7. lag = Dur(f) + t - s /\ Dur(f) \in Int
    BY <1>2, DurStep DEF Lag
<1>8. NUM_BLKS_IN_FRAME \in Int /\ FIFO_NUM_BLKS \in Int
    BY FifoSize
<1>9. Dur(f + NUM_BLKS_IN_FRAME) = Dur(f) + fr
    BY <1>3, <1>8, DurFacts
<1>10. Dur(f + NUM_BLKS_IN_FRAME) < ff
    BY <1>4, <1>5, <1>6, <1>7, <1>9
<1>11. f + NUM_BLKS_IN_FRAME < FIFO_NUM_BLKS
    BY <1>3, <1>8, <1>10, DurFacts
<1>12. filled_blocks_get = fill
    BY FilledIsAhead, FifoNumbers, FifoSize DEF StartedInv, RoomInv
<1> QED
    BY <1>2, <1>11, <1>12

\* So a frame that a steady stream discards makes it unsteady.
LEMMA SteadyNotDiscarded ==
    ASSUME TypeInv, Margins, StartedInv, SteadyInv, busy <= MaxBusy, stream_started, steady',
           Discard
    PROVE  FALSE
<1>1. thread = "adjust" /\ odd' = odd
    BY Zenon DEF Discard
<1>2. odd \in Nat
    BY DEF TypeInv, TypeOK
<1>3. Overrun
    BY <1>1, <1>2 DEF Discard, Odd
<1>4. fill + NUM_BLKS_IN_FRAME < FIFO_NUM_BLKS /\ filled_blocks_get = fill
    BY <1>1, FrameHasRoom
<1> QED
    BY <1>3, <1>4, FifoNumbers, FifoSize DEF Overrun

LEMMA SteadyDecode ==
    ASSUME TypeInv, SteadyInv, Decode
    PROVE  SteadyInv'
<1>1. /\ thread = "adjust" /\ thread' = "copy" /\ copied' = 0
      /\ UNCHANGED <<meta, sdu, busy, prod_blk_idx, prod_blk_ts>> /\ SameNumbers
    BY DEF Decode, SameNumbers
<1>2. UNCHANGED <<now, latency, prev_pres_sdu_ref_us, pres_state>> /\ (adjusted' <=> adjusted)
    BY <1>1 DEF SameNumbers
<1>3. Handling /\ Handling' /\ Pending /\ Pending' /\ NextSdu' = NextSdu
    BY <1>1 DEF Handling, Pending, NextSdu
<1>4. RefInv' /\ TimeInv'
    BY <1>1, <1>2, <1>3 DEF SteadyInv, RefInv, TimeInv
<1>5. CopiedInv'
    BY <1>1 DEF CopiedInv
<1> QED
    BY <1>1, <1>3, <1>4, <1>5, Untouched DEF SteadyInv

\* The blocks ahead of the producer and behind it are different ones, and a frame that has been
\* copied lies behind it in the same order.
LEMMA BlocksApart ==
    ASSUME NEW i \in Blocks, NEW k \in Nat, NEW m \in Nat, k + m < FIFO_NUM_BLKS
    PROVE  /\ (i + k) % FIFO_NUM_BLKS = Ahead(i, k) /\ Ahead(i, k) \in Blocks
           /\ m > 0 => Behind(i, m) # Ahead(i, k)
           /\ m > 0 => Behind(i, m) \in Blocks
<1>1. Ahead(i, 0) = i
    BY FifoSize DEF Ahead, Blocks
<1>2. (Ahead(i, 0) + k) % FIFO_NUM_BLKS = Ahead(i, 0 + k)
    BY AheadModulo, FifoSize
<1>3. Ahead(i, k) \in Blocks /\ (m > 0 => Behind(i, m) # Ahead(i, k)) /\ (m > 0 => Behind(i, m) \in Blocks)
    BY FifoSize DEF Ahead, Behind, Blocks
<1> QED
    BY <1>1, <1>2, <1>3

LEMMA CopiesApart ==
    ASSUME NEW i \in Blocks, NEW k \in Nat, NEW n \in Nat, k < n, n < FIFO_NUM_BLKS
    PROVE  /\ Ahead(i, k) # Ahead(i, n)
           /\ Behind(Ahead(i, n), n - k) = Ahead(i, k)
BY FifoSize DEF Ahead, Behind, Blocks

\* A block that is copied is ahead of the producer: no timestamp behind it changes.
LEMMA SteadyCopy ==
    ASSUME TypeInv, StartedInv, SteadyInv, CopyBlock
    PROVE  SteadyInv'
<1>1. /\ thread = "copy" /\ thread' = "copy" /\ copied < NUM_BLKS_IN_FRAME
      /\ copied' = copied + 1
      /\ prod_blk_ts' = [prod_blk_ts EXCEPT ![OutBlkIdx] =
                           meta.data_rx_ts_us + copied * BLK_PERIOD_US]
      /\ UNCHANGED <<meta, sdu, busy, prod_blk_idx>> /\ SameNumbers
    BY DEF CopyBlock, SameNumbers
<1>2. UNCHANGED <<now, latency, prev_pres_sdu_ref_us, pres_state, fill>> /\ (adjusted' <=> adjusted)
    BY <1>1 DEF SameNumbers
<1>3. Handling /\ Handling' /\ Pending /\ Pending' /\ NextSdu' = NextSdu
    BY <1>1 DEF Handling, Pending, NextSdu
<1>4. RefInv' /\ TimeInv'
    BY <1>1, <1>2, <1>3 DEF SteadyInv, RefInv, TimeInv
<1>5. /\ fill \in 1 .. FIFO_NUM_BLKS - 1 /\ fill + NUM_BLKS_IN_FRAME < FIFO_NUM_BLKS
      /\ prod_blk_idx \in Blocks /\ copied \in Nat
      /\ prod_blk_ts \in [Blocks -> Int]
    BY <1>1, Started, FifoNumbers DEF StartedInv, CopyInv, TypeInv, TypeOK
<1>6. OutBlkIdx = Ahead(prod_blk_idx, copied) /\ OutBlkIdx \in Blocks
    <2>1. copied + 0 < FIFO_NUM_BLKS
        BY <1>1, <1>5, FifoSize
    <2> QED
        BY <1>5, <2>1, BlocksApart DEF OutBlkIdx
<1>7. TsInv'
    <2>1. ASSUME NEW m \in 1 .. fill PROVE StampOf(m)' = StampOf(m)
        <3>1. copied + m < FIFO_NUM_BLKS /\ m \in Nat /\ m > 0
            BY <1>1, <1>5, FifoSize
        <3>2. Behind(prod_blk_idx, m) # OutBlkIdx /\ Behind(prod_blk_idx, m) \in Blocks
            BY <1>5, <1>6, <3>1, BlocksApart
        <3> QED
            BY <1>1, <1>5, <3>2 DEF StampOf
    <2>2. Fresh' = Fresh
        BY <1>1, <1>3, Untouched
    <2> QED
        BY <1>2, <1>3, <2>1, <2>2 DEF SteadyInv, TsInv
<1>8. CopiedInv'
    <2> SUFFICES ASSUME NEW k \in 0 .. copied
                 PROVE  prod_blk_ts'[(prod_blk_idx + k) % FIFO_NUM_BLKS]
                            = meta.data_rx_ts_us + Dur(k)
        BY <1>1, <1>5 DEF CopiedInv
    <2>1. k \in Nat /\ k + 0 < FIFO_NUM_BLKS /\ copied < FIFO_NUM_BLKS
        BY <1>1, <1>5, FifoSize
    <2>2. (prod_blk_idx + k) % FIFO_NUM_BLKS = Ahead(prod_blk_idx, k) /\ Ahead(prod_blk_idx, k) \in Blocks
        BY <1>5, <2>1, BlocksApart
    <2>3. CASE k = copied
        BY <1>1, <1>5, <1>6, <2>2, <2>3 DEF Dur
    <2>4. CASE k # copied
        <3>1. k < copied /\ k \in 0 .. copied - 1
            BY <1>5, <2>1, <2>4
        <3>2. Ahead(prod_blk_idx, k) # OutBlkIdx
            BY <1>5, <1>6, <2>1, <3>1, CopiesApart
        <3>3. prod_blk_ts'[Ahead(prod_blk_idx, k)] = prod_blk_ts[Ahead(prod_blk_idx, k)]
            BY <1>1, <1>5, <2>2, <3>2
        <3> QED
            BY <1>1, <2>2, <3>1, <3>3 DEF SteadyInv, CopiedInv
    <2> QED
        BY <2>3, <2>4
<1> QED
    BY <1>1, <1>3, <1>4, <1>7, <1>8, Untouched DEF SteadyInv

\* A frame that is published is as long as it moves the next reference on.
LEMMA SteadyPublish ==
    ASSUME TypeInv, Margins, StartedInv, SteadyInv, busy <= MaxBusy, adj = 0, Publish
    PROVE  SteadyInv'
<1>1. /\ thread = "copy" /\ copied = NUM_BLKS_IN_FRAME /\ thread' = "wait"
      /\ prod_blk_idx' = OutBlkIdx /\ fill' = fill + NUM_BLKS_IN_FRAME
      /\ UNCHANGED <<meta, sdu, now, latency, prev_pres_sdu_ref_us, pres_state, pres_ctr,
                     sum_err_dly_us, pres_delay_us, current_pres_dly_us, drift_state, adj,
                     prod_blk_ts, busy>>
    BY DEF Publish
<1>2. adjusted' <=> adjusted
    BY DEF Publish
<1>3. Handling /\ ~Handling' /\ Pending /\ ~Pending' /\ NextSdu = meta.ref_ts_us /\ NextSdu' = sdu
    BY <1>1 DEF Handling, Pending, NextSdu
<1>4. /\ sdu = meta.ref_ts_us + FRAME /\ prev_pres_sdu_ref_us = meta.ref_ts_us
      /\ prev_pres_sdu_ref_us # 0
    BY <1>1, <1>3 DEF SteadyInv, RefInv
<1>5. PICK f \in Int, t \in Nat, s \in Nat, l \in Nat, j \in Nat, mb \in Nat, fr \in Nat,
           blk \in Nat, rx \in Nat :
        /\ f = fill /\ t = now /\ s = meta.ref_ts_us /\ l = latency /\ j = MaxJitter
        /\ mb = Dur(MaxBusy) /\ fr = Dur(NUM_BLKS_IN_FRAME) /\ blk = BLK_PERIOD_US
        /\ rx = meta.data_rx_ts_us /\ j + mb + blk < fr /\ fr = FRAME
    <2>1. /\ fill \in Int /\ now \in Nat /\ meta.ref_ts_us \in Nat /\ latency \in Nat
          /\ meta.data_rx_ts_us \in Nat /\ FRAME = Dur(NUM_BLKS_IN_FRAME)
        BY Numbers
    <2>2. /\ MaxJitter \in Nat /\ Dur(MaxBusy) \in Nat /\ Dur(NUM_BLKS_IN_FRAME) \in Nat
          /\ BLK_PERIOD_US \in Nat
          /\ MaxJitter + Dur(MaxBusy) + BLK_PERIOD_US < Dur(NUM_BLKS_IN_FRAME)
        BY MarginFacts
    <2> QED
        BY <2>1, <2>2
<1>6. t - s >= l + 1 /\ t - s <= l + j + 1 + mb /\ rx - s - l \in 0 .. j
    <2>1. TimeInv
        BY DEF SteadyInv
    <2>2. /\ now - NextSdu >= latency + 1
          /\ now - NextSdu <= latency + MaxJitter + 1 + Dur(busy)
          /\ meta.data_rx_ts_us - meta.ref_ts_us - latency \in 0 .. MaxJitter
          /\ Dur(busy) \in Nat /\ Dur(busy) <= Dur(MaxBusy)
        BY <1>3, <2>1, Elapsed
    <2>3. PICK db \in Nat : db = Dur(busy)
        BY <2>2
    <2>4. /\ t - s >= l + 1 /\ t - s <= l + j + 1 + db /\ rx - s - l \in 0 .. j /\ db <= mb
        BY <1>3, <1>5, <2>2, <2>3
    <2> QED
        BY <2>4
<1>7. Lag' = Lag /\ Late' = Late /\ Corrected' = Corrected
    <2>1. Dur(f + NUM_BLKS_IN_FRAME) = Dur(f) + fr /\ Dur(f) \in Int
        <3>1. NUM_BLKS_IN_FRAME \in Int /\ f \in Int
            BY FifoSize
        <3>2. Dur(f + NUM_BLKS_IN_FRAME) = Dur(f) + Dur(NUM_BLKS_IN_FRAME) /\ Dur(f) \in Int
            BY ONLY <3>1, DurSum
        <3> QED
            BY <1>5, <3>2
    <2>2. Lag = Dur(f) + t - s
        BY <1>3, <1>5 DEF Lag
    <2>3. Lag' = (Dur(f) + fr) + t - (s + fr)
        BY <1>1, <1>3, <1>4, <1>5, <2>1 DEF Lag
    <2>4. (Dur(f) + fr) + t - (s + fr) = Dur(f) + t - s
        BY ONLY <2>1, f \in Int, t \in Nat, s \in Nat, fr \in Nat
    <2> QED
        BY <1>1, <2>2, <2>3, <2>4 DEF Late, Corrected
<1>8. RefInv' /\ CopiedInv' /\ DriftInv'
    BY <1>1, <1>2, <1>3, <1>4 DEF SteadyInv, RefInv, CopiedInv, DriftInv
<1>9. TimeInv'
    <2>1. t <= s + fr + l + j + blk
        BY <1>5, <1>6
    <2> QED
        BY <1>1, <1>3, <1>4, <1>5, <2>1 DEF SteadyInv, TimeInv
<1>10. LagInv'
    BY <1>1, <1>2, <1>7 DEF SteadyInv, LagInv
<1>11. CurInv'
    <2>1. ~(t - (s + fr) >= l + 1)
        BY <1>5, <1>6
    <2>2. ~(now' - NextSdu' >= latency' + 1)
        BY <1>1, <1>3, <1>4, <1>5, <2>1
    <2> QED
        BY <2>2 DEF CurInv
<1>12. SumInv'
    <2>1. Lowest' = Lowest /\ Highest' = Highest
        BY <1>1, <1>7 DEF Lowest, Highest
    <2> QED
        BY <1>1, <2>1 DEF SteadyInv, SumInv
<1>13. TsInv'
    <2>1. /\ f \in 1 .. FIFO_NUM_BLKS - 1 /\ f + NUM_BLKS_IN_FRAME < FIFO_NUM_BLKS
          /\ prod_blk_idx \in Blocks /\ NUM_BLKS_IN_FRAME \in Nat /\ NUM_BLKS_IN_FRAME > 0
          /\ prod_blk_ts \in [Blocks -> Int]
        BY <1>1, <1>5, Started, FifoNumbers, FifoSize DEF StartedInv, CopyInv, TypeInv, TypeOK
    <2>2. prod_blk_idx' = Ahead(prod_blk_idx, NUM_BLKS_IN_FRAME)
        <3>1. NUM_BLKS_IN_FRAME + 0 < FIFO_NUM_BLKS
            BY <2>1, FifoSize
        <3> QED
            BY <1>1, <2>1, <3>1, BlocksApart DEF OutBlkIdx
    <2> SUFFICES ASSUME NEW m \in 1 .. f + NUM_BLKS_IN_FRAME, m <= Fresh'
                 PROVE  StampOf(m)' + Dur(m) - (s + fr) - l \in 0 .. j
        BY <1>1, <1>3, <1>4, <1>5 DEF TsInv
    <2>3. m \in Nat /\ m > 0 /\ Dur(m) \in Int
        BY <2>1, DurStep
    <2>4. CASE m <= NUM_BLKS_IN_FRAME
        <3>1. PICK k \in Nat : k = NUM_BLKS_IN_FRAME - m /\ k < NUM_BLKS_IN_FRAME
            BY <2>1, <2>3, <2>4
        <3>2. Behind(Ahead(prod_blk_idx, NUM_BLKS_IN_FRAME), NUM_BLKS_IN_FRAME - k)
                  = Ahead(prod_blk_idx, k)
            BY <2>1, <3>1, CopiesApart, FifoSize
        <3>3. (prod_blk_idx + k) % FIFO_NUM_BLKS = Ahead(prod_blk_idx, k)
            <4>1. k + 0 < FIFO_NUM_BLKS
                BY <2>1, <3>1, FifoSize
            <4> QED
                BY <2>1, <4>1, BlocksApart
        <3>4. StampOf(m)' = prod_blk_ts[(prod_blk_idx + k) % FIFO_NUM_BLKS]
            <4>1. NUM_BLKS_IN_FRAME - k = m
                BY <2>1, <2>3, <3>1
            <4> QED
                BY <1>1, <2>2, <3>2, <3>3, <4>1 DEF StampOf
        <3>5. k \in 0 .. copied - 1
            BY <1>1, <2>1, <3>1
        <3>6. StampOf(m)' = rx + Dur(k)
            BY <1>1, <1>5, <3>4, <3>5 DEF SteadyInv, CopiedInv
        <3>7. Dur(k) = fr - Dur(m)
            <4>1. NUM_BLKS_IN_FRAME \in Int /\ m \in Int
                BY <2>3, FifoSize
            <4>2. Dur(NUM_BLKS_IN_FRAME - m) = Dur(NUM_BLKS_IN_FRAME) - Dur(m)
                BY ONLY <4>1, DurSum
            <4> QED
                BY <1>5, <3>1, <4>2
        <3> QED
            BY <1>6, <2>3, <3>6, <3>7
    <2>5. CASE m > NUM_BLKS_IN_FRAME
        <3>1. PICK n \in 1 .. f : n = m - NUM_BLKS_IN_FRAME
            BY <2>1, <2>3, <2>5
        <3>2. n <= Fresh
            <4>1. CASE pres_state = "WAIT"
                <5>1. /\ Fresh' = (pres_ctr + 1) * NUM_BLKS_IN_FRAME
                      /\ Fresh = pres_ctr * NUM_BLKS_IN_FRAME
                    BY <1>1, <1>3, <1>4, <4>1 DEF Fresh
                <5>2. /\ (pres_ctr + 1) * NUM_BLKS_IN_FRAME
                           = pres_ctr * NUM_BLKS_IN_FRAME + NUM_BLKS_IN_FRAME
                      /\ pres_ctr * NUM_BLKS_IN_FRAME \in Int
                    <6>1. pres_ctr \in Nat /\ NUM_BLKS_IN_FRAME \in Nat
                        BY Numbers, FifoSize
                    <6> QED
                        BY <6>1
                <5> QED
                    BY <2>1, <2>3, <3>1, <5>1, <5>2
            <4>2. CASE pres_state # "WAIT" /\ adjusted
                <5>1. Fresh = FIFO_NUM_BLKS
                    BY <1>4, <4>2 DEF Fresh
                <5> QED
                    BY <2>1, <3>1, <5>1, FifoSize
            <4>3. CASE pres_state # "WAIT" /\ ~adjusted
                <5>1. Fresh' = NUM_BLKS_IN_FRAME
                    BY <1>1, <1>2, <1>3, <1>4, <4>3 DEF Fresh
                <5> QED
                    BY <2>1, <2>3, <2>5, <5>1
            <4> QED
                BY <4>1, <4>2, <4>3
        <3>3. StampOf(n) + Dur(n) - s - l \in 0 .. j
            BY <1>3, <1>5, <3>1, <3>2 DEF SteadyInv, TsInv
        <3>4. /\ NUM_BLKS_IN_FRAME + m < 2 * FIFO_NUM_BLKS
              /\ m < FIFO_NUM_BLKS
            BY <2>1, FifoSize
        <3>5. Behind(Ahead(prod_blk_idx, NUM_BLKS_IN_FRAME), m) = Behind(prod_blk_idx, n)
            BY <2>1, <2>3, <2>5, <3>1, <3>4, FifoSize DEF Ahead, Behind, Blocks
        <3>6. StampOf(m)' = StampOf(n)
            BY <1>1, <2>2, <3>5 DEF StampOf
        <3>7. Dur(m) = Dur(n) + fr /\ Dur(n) \in Int
            <4>1. n \in Int /\ NUM_BLKS_IN_FRAME \in Int /\ m = n + NUM_BLKS_IN_FRAME
                BY <2>1, <2>3, <3>1
            <4>2. Dur(n + NUM_BLKS_IN_FRAME) = Dur(n) + Dur(NUM_BLKS_IN_FRAME) /\ Dur(n) \in Int
                BY ONLY <4>1, DurSum
            <4> QED
                BY <1>5, <4>1, <4>2
        <3>8. StampOf(n) \in Int
            <4>1. Behind(prod_blk_idx, n) \in Blocks
                BY <2>1, <3>1, FifoSize DEF Behind, Blocks
            <4> QED
                BY <2>1, <4>1 DEF StampOf
        <3>9. PICK st \in Int, dn \in Int : st = StampOf(n) /\ dn = Dur(n)
            BY <3>7, <3>8
        <3>10. st + dn - s - l \in 0 .. j
            BY <3>3, <3>9
        <3>11. st + (dn + fr) - (s + fr) - l = st + dn - s - l
            OBVIOUS
        <3> QED
            BY <3>6, <3>7, <3>9, <3>10, <3>11
    <2> QED
        BY <2>1, <2>3, <2>4, <2>5
<1> QED
    BY <1>8, <1>9, <1>10, <1>11, <1>12, <1>13 DEF SteadyInv

\* What holds of any stream, steady or not, and between streams.
LEMMA StreamBase ==
    ASSUME TypeInv, StreamInv, [Next]_vars
    PROVE  /\ busy' <= MaxBusy
           /\ thread' # "adjust" => adj' = 0
           /\ ~stream_started' => prev_pres_sdu_ref_us' = 0 /\ pres_state' = "INIT"
<1>1. /\ busy \in Nat /\ MaxBusy \in Nat /\ busy <= MaxBusy
      /\ thread # "adjust" => adj = 0
      /\ ~stream_started => prev_pres_sdu_ref_us = 0 /\ pres_state = "INIT"
    BY Numbers DEF StreamInv
<1>2. CASE UNCHANGED vars
    BY <1>1, <1>2 DEF vars
<1>3. CASE \E delay_us \in PresDelays : PresDelaySet(delay_us)
    BY <1>1, <1>3 DEF PresDelaySet
<1>4. CASE Start \/ Stop
    BY <1>1, <1>4 DEF Start, Stop
<1>5. CASE I2sBlkComplete
    BY <1>1, <1>5 DEF I2sBlkComplete, InTime
<1>6. CASE SduArrives \/ SduLost \/ SduRepeated
    BY <1>1, <1>6 DEF SduArrives, SduLost, SduRepeated, Take
<1>7. CASE StreamOut
    BY <1>1, <1>7 DEF StreamOut, DropFrame, Compensate, InsertBlock, RemoveBlock, Discard, Decode,
                      CopyBlock, Publish
<1> QED
    BY <1>2, <1>3, <1>4, <1>5, <1>6, <1>7 DEF Next

\* The decisions that the thread takes in a steady stream fit, and keep it what it is.
LEMMA SteadyFits ==
    ASSUME TypeInv, TypeInv', Margins, StreamInv, stream_started, steady
    PROVE  CorrectionFits /\ FrameFits
<1>1. StartedInv /\ SteadyInv /\ busy <= MaxBusy
    BY DEF StreamInv
<1>2. CorrectionFits
    BY <1>1, SteadyDecision DEF CorrectionFits
<1>3. FrameFits
    <2>1. ASSUME Decode PROVE fill + NUM_BLKS_IN_FRAME < FIFO_NUM_BLKS /\ filled_blocks_get = fill
        BY <1>1, <2>1, FrameHasRoom DEF Decode
    <2> QED
        BY <2>1, FifoNumbers, FifoSize DEF FrameFits
<1> QED
    BY <1>2, <1>3

LEMMA SteadyThread ==
    ASSUME TypeInv, TypeInv', Margins, StreamInv, stream_started, steady, steady', StreamOut
    PROVE  SteadyInv'
<1>1. StartedInv /\ SteadyInv /\ busy <= MaxBusy /\ (thread # "adjust" => adj = 0)
    BY DEF StreamInv
<1>2. CASE DropFrame
    BY <1>1, <1>2, SteadyDrop
<1>3. CASE Compensate
    BY <1>1, <1>3, SteadyDecision
<1>4. CASE InsertBlock \/ RemoveBlock
    BY <1>1, <1>4, SteadyAdjustment
<1>5. CASE Discard
    BY <1>1, <1>5, SteadyNotDiscarded
<1>6. CASE Decode
    BY <1>1, <1>6, SteadyDecode
<1>7. CASE CopyBlock
    BY <1>1, <1>7, SteadyCopy
<1>8. CASE Publish
    <2>1. adj = 0
        BY <1>1, <1>8 DEF Publish
    <2> QED
        BY <1>1, <1>8, <2>1, SteadyPublish
<1> QED
    BY <1>2, <1>3, <1>4, <1>5, <1>6, <1>7, <1>8 DEF StreamOut

LEMMA StreamKept ==
    ASSUME TypeInv, TypeInv', Margins, StreamInv, [Next]_vars
    PROVE  StreamInv'
<1> SUFFICES ASSUME stream_started', steady' PROVE StartedInv' /\ SteadyInv'
    BY StreamBase DEF StreamInv
<1>1. stream_started => steady
    <2>1. CASE I2sBlkComplete
        BY <2>1, Zenon DEF I2sBlkComplete
    <2>2. CASE SduArrives \/ SduLost \/ SduRepeated
        BY <2>2, Zenon DEF SduArrives, SduLost, SduRepeated
    <2>3. CASE StreamOut
        BY <2>3, Zenon DEF StreamOut, DropFrame, Compensate, InsertBlock, RemoveBlock, Discard,
                           Decode, CopyBlock, Publish
    <2>4. CASE UNCHANGED vars
        BY <2>4 DEF vars
    <2> QED
        BY <2>1, <2>2, <2>3, <2>4 DEF Next, PresDelaySet, Start, Stop
<1>2. FifoInv
    BY <1>1 DEF StreamInv, FifoInv
<1>3. CASE UNCHANGED vars
    <2>1. UNCHANGED <<fifoVars, driftVars, presVars, loopVars, envVars, stream_started, i2s, now,
                      prev_pres_sdu_ref_us, current_pres_dly_us, pres_delay_us, fill, steady>>
        BY <1>3 DEF vars
    <2>2. adjusted' <=> adjusted
        BY <1>3 DEF vars
    <2>3. StartedInv /\ SteadyInv
        BY <1>1, <2>1 DEF StreamInv
    <2>4. StartedInv'
        BY <2>1, <2>3 DEF StartedInv, RoomInv, GivenInv, SendingInv, JustStarted, AdjustInv, CopyInv
    <2>5. (Handling' <=> Handling) /\ (Pending' <=> Pending) /\ NextSdu' = NextSdu
        BY <2>1 DEF Handling, Pending, NextSdu
    <2>6. SameNumbers
        BY <1>3 DEF vars, SameNumbers
    <2>7. RefInv' /\ TimeInv' /\ CopiedInv'
        BY <2>1, <2>2, <2>3, <2>5 DEF SteadyInv, RefInv, TimeInv, CopiedInv
    <2> QED
        BY <2>1, <2>3, <2>4, <2>5, <2>6, <2>7, Untouched DEF SteadyInv
<1>4. CASE ~stream_started
    <2>1. Start \/ UNCHANGED vars
        BY <1>4 DEF Next, PresDelaySet, Stop, I2sBlkComplete, SduArrives, SduLost, SduRepeated, Take,
                    StreamOut, DropFrame, Compensate, InsertBlock, RemoveBlock, Discard, Decode,
                    CopyBlock, Publish
    <2>2. CASE Start
        <3>1. FifoInv'
            BY <1>2, <2>2, FifoAfterStart
        <3> QED
            BY <2>2, <3>1, SteadyStart DEF FifoInv
    <2> QED
        BY <1>3, <2>1, <2>2
<1>5. CASE stream_started /\ Next
    <2>1. /\ steady /\ StartedInv /\ SteadyInv /\ busy <= MaxBusy /\ CorrectionFits /\ FrameFits
        BY <1>1, <1>5, SteadyFits DEF StreamInv
    <2>2. I2sBlkComplete \/ SduArrives \/ SduLost \/ SduRepeated \/ StreamOut
        BY <1>5 DEF Next, PresDelaySet, Start, Stop
    <2>3. FifoInv'
        BY <1>2, <2>1, <2>2, FifoAfterInterrupt, FifoAfterArrival, FifoAfterThread
    <2>4. SteadyInv'
        BY <1>5, <2>1, <2>2, SteadyInterrupt, SteadyArrival, SteadyThread
    <2> QED
        BY <2>3, <2>4 DEF FifoInv
<1> QED
    BY <1>3, <1>4, <1>5

LEMMA StreamAtStart == Init => StreamInv
BY DatapathAssumption DEF Init, StreamInv

\* In a steady stream the thread writes no block that I2S has, for it writes ahead of the consumer.
SteadyWrites == stream_started /\ stream_started' /\ steady =>
  \A b \in Blocks : prod_blk_ts'[b] # prod_blk_ts[b] => Block(b) \notin {i2s.sending, i2s.next}

LEMMA WritesApart ==
    ASSUME TypeInv, StreamInv, [Next]_vars
    PROVE  SteadyWrites
<1> SUFFICES ASSUME stream_started, stream_started', steady,
                    NEW b \in Blocks, prod_blk_ts'[b] # prod_blk_ts[b]
             PROVE  Block(b) # i2s.sending /\ Block(b) # i2s.next
    BY DEF SteadyWrites
<1>1. FifoInv
    BY DEF StreamInv, FifoInv
<1>2. Next
    BY DEF vars
<1>3. PICK n \in 1 .. FIFO_NUM_BLKS - 2 : thread # "wait" /\ b = Ahead(cons_blk_idx, n)
    BY <1>1, <1>2, WrittenAhead
<1>4. b # cons_blk_idx /\ b # PREV_IDX(cons_blk_idx)
    BY <1>3, AheadApart, FifoNumbers
<1>5. ~Block(b).alt /\ \A i \in Blocks : Block(b) = Block(i) => b = i
    <2>1. \A i : Block(i).idx = i /\ ~Block(i).alt
        BY DEF Block
    <2> QED
        BY <2>1, Zenon
<1>6. cons_blk_idx \in Blocks /\ PREV_IDX(cons_blk_idx) \in Blocks
    BY FifoNumbers, BlocksStay
<1>7. GivenInv /\ SendingInv /\ ~JustStarted
    BY <1>1, <1>3 DEF FifoInv, StartedInv, JustStarted
<1> QED
    BY <1>4, <1>5, <1>6, <1>7, Zenon DEF GivenInv, SendingInv

\* What NothingOverrun, CorrectionFits and FrameFits say, of the moments when the stream is steady.
SteadyFifo ==
  /\ [](stream_started /\ steady => filled_blocks_get = fill)
  /\ [][SteadyWrites]_vars
  /\ [][stream_started /\ steady => CorrectionFits /\ FrameFits]_vars

\* A steady stream never overruns the FIFO: at every moment since a start without a drift lock in
\* which no SDU has been lost or skewed, no frame failed to decode and no drift lock was lost, the
\* two indexes tell how many blocks there are, the thread writes no block that I2S has, and the
\* corrections that audio_datapath_presentation_compensation() makes without asking for room fit,
\* as does every frame, whatever the sizes, latencies, jitter and order of interrupts, thread and
\* repeated frames, and whatever went before that start. Margins is what the configuration and the
\* latency must leave for it.
THEOREM SteadyNeverOverrun ==
    ASSUME Margins
    PROVE  Spec => SteadyFifo
<1> DEFINE Inv == TypeInv /\ AltInv /\ StreamInv
<1>1. Init => Inv
    BY DatapathAtStart, StreamAtStart
<1>2. Inv /\ [Next]_vars => Inv'
    BY DatapathKept, StreamKept
<1>3. Inv => (stream_started /\ steady => filled_blocks_get = fill)
    BY FilledIsAhead, FifoNumbers, FifoSize DEF StreamInv, StartedInv, RoomInv
<1>4. Inv /\ [Next]_vars => [SteadyWrites]_vars
    BY WritesApart
<1>5. Inv /\ [Next]_vars => [stream_started /\ steady => CorrectionFits /\ FrameFits]_vars
    BY <1>2, SteadyFits
<1> HIDE DEF Inv
<1> QED
    BY <1>1, <1>2, <1>3, <1>4, <1>5, PTL DEF Spec, SteadyFifo

\* So, where every stream is steady, neither side of the FIFO ever passes the other, it is never
\* filled up, and the thread never writes a block that I2S has, across stops and starts.
THEOREM FifoNeverOverrun ==
    ASSUME Margins
    PROVE  Spec /\ [](stream_started => steady) => NothingOverrun
<1>1. (stream_started => steady) /\ [SteadyWrites]_vars
        => [stream_started /\ stream_started' =>
              \A b \in Blocks : prod_blk_ts'[b] # prod_blk_ts[b]
                                  => Block(b) \notin {i2s.sending, i2s.next}]_vars
    BY DEF SteadyWrites
<1>2. (stream_started => steady) /\ (stream_started /\ steady => filled_blocks_get = fill)
        => (stream_started => filled_blocks_get = fill)
    OBVIOUS
<1>3. Spec => SteadyFifo
    BY SteadyNeverOverrun
<1> QED
    BY <1>1, <1>2, <1>3, PTL DEF SteadyFifo, NothingOverrun
=============================================================================
