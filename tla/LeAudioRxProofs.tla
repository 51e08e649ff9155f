--------------------------- MODULE LeAudioRxProofs ---------------------------
(* The pool of receive buffers and the joining of SDUs into frames, for any number of *)
(* streams, locations and buffers.                                                   *)
EXTENDS LeAudioRx, SequenceTheorems, FiniteSetTheorems, TLAPS

\* The inductive invariant: what is in use is accounted for and fits the pool, so that a
\* queue with as many places as the pool has buffers is full only when nothing is joined.
Accounted == /\ RxTypeOK /\ PoolAccounted /\ PutNeverFails
             /\ allocated <= CONFIG_BUF_BLE_RX_PACKET_NUM

\* A sequence of at most one frame has one unless it is empty.
LEMMA OneOrNone ==
    ASSUME NEW s \in Seq(Frame), Len(s) <= 1, s # <<>>
    PROVE  Len(s) = 1 /\ s[1] \in Frame
<1>1. Len(s) \in Nat \ {0}
    BY EmptySeq
<1>2. ASSUME NEW n \in Nat \ {0}, n <= 1
      PROVE  n = 1
    BY ONLY <1>2
<1>3. Len(s) <= 1
    OBVIOUS
<1>4. Len(s) = 1
    BY ONLY <1>1, <1>2, <1>3
<1> QED
    BY <1>4, ElementOfSeq

\* A frame that is sent or kept leaves the queue and the joining with one buffer more
\* than the queue had, provided that there was room.
LEMMA CheckSendAccounts ==
    ASSUME NEW q \in Seq(Frame), NEW frame \in Frame, fatal \in BOOLEAN, ~fatal, ~Full(q),
           CheckSend(q, frame)
    PROVE  /\ ble_q_rx' \in Seq(Frame)
           /\ audio_frame' \in Seq(Frame) /\ Len(audio_frame') <= 1
           /\ Len(ble_q_rx') + Len(audio_frame') = Len(q) + 1
           /\ fatal' = FALSE
<1>1. CASE Complete(frame)
    <2>1. ble_q_rx' = Append(q, frame) /\ audio_frame' = <<>>
        BY <1>1 DEF CheckSend, Put
    <2>2. fatal' = (fatal \/ Full(q))
        BY <1>1 DEF CheckSend
    <2>3. fatal' = FALSE
        BY <2>2, Zenon
    <2> QED
        BY <2>1, <2>3
<1>2. CASE ~Complete(frame)
    <2>1. ble_q_rx' = q /\ audio_frame' = <<frame>> /\ fatal' = fatal
        BY <1>2 DEF CheckSend
    <2>2. fatal' = FALSE
        BY <2>1, Zenon
    <2> QED
        BY <2>1, <2>2
<1> QED
    BY <1>1, <1>2

\* Taking the oldest frame out of a full queue frees its buffer and its place.
LEMMA StaleAccounts ==
    ASSUME Accounted
    PROVE  /\ StaleOut \in Seq(Frame) /\ StaleUnref \in Nat
           /\ StaleUnref = Len(audio_frame) + Len(StaleOut) + Len(held)
           /\ StaleUnref <= CONFIG_BUF_BLE_RX_PACKET_NUM
           /\ ~Full(StaleOut)
<1> USE PoolAssumption
<1>1. CASE Full(ble_q_rx)
    <2>1. ble_q_rx # <<>> /\ Len(Tail(ble_q_rx)) = Len(ble_q_rx) - 1
          /\ Tail(ble_q_rx) \in Seq(Frame)
        BY <1>1 DEF Accounted, RxTypeOK, Full
    <2> QED
        BY <1>1, <2>1 DEF Accounted, RxTypeOK, PoolAccounted, Full, StaleOut, StaleUnref
<1>2. CASE ~Full(ble_q_rx)
    BY <1>2 DEF Accounted, RxTypeOK, PoolAccounted, Full, StaleOut, StaleUnref
<1> QED
    BY <1>1, <1>2

\* Frames the callback makes have the type of frames.
LEMMA FramesTyped ==
    ASSUME RxTypeOK, NEW c \in Channels
    PROVE  /\ Fresh(c) \in Frame
           /\ audio_frame # <<>> => audio_frame[1] \in Frame /\ Joined(audio_frame[1], c) \in Frame
<1>1. location[c] \in Locations
    BY DEF RxTypeOK
<1>2. Fresh(c) \in Frame
    BY <1>1 DEF Fresh, Frame, RxTypeOK
<1>3. ASSUME audio_frame # <<>>
      PROVE  audio_frame[1] \in Frame
    BY <1>3 DEF RxTypeOK
<1>4. ASSUME NEW f \in Frame
      PROVE  Joined(f, c) \in Frame
    BY <1>1, <1>4 DEF Joined, Frame
<1> QED
    BY <1>2, <1>3, <1>4

\* The callback keeps the account, whichever way it takes.
LEMMA ReceiveAccounts ==
    ASSUME Accounted, NEW c \in Channels, le_audio_rx_data_handler(c)
    PROVE  Accounted'
<1> USE PoolAssumption
<1>1. fatal = FALSE
    BY Zenon DEF Accounted, RxTypeOK, PutNeverFails
<1>2. /\ arrived' \subseteq Channels
      /\ UNCHANGED <<env, held>>
    BY DEF le_audio_rx_data_handler, ThrowAway, Join, DiscardSameLocation, Begin, Receives,
           Accounted, RxTypeOK
<1>3. SUFFICES /\ undisturbed' \in BOOLEAN
               /\ fatal' = FALSE
               /\ allocated' \in Nat /\ allocated' <= CONFIG_BUF_BLE_RX_PACKET_NUM
               /\ audio_frame' \in Seq(Frame) /\ Len(audio_frame') <= 1
               /\ ble_q_rx' \in Seq(Frame)
               /\ allocated' = Len(audio_frame') + Len(ble_q_rx') + Len(held)
    <2>1. RxTypeOK'
        BY <1>2, <1>3 DEF Accounted, RxTypeOK, env
    <2>2. PutNeverFails'
        BY <1>3, Zenon DEF PutNeverFails
    <2> QED
        BY <1>2, <1>3, <2>1, <2>2 DEF Accounted, PoolAccounted
<1>4. CASE ThrowAway(c)
    BY <1>1, <1>4 DEF ThrowAway, Accounted, RxTypeOK, PoolAccounted
<1>5. CASE Join(c)
    <2>1. audio_frame # <<>> /\ Len(audio_frame) = 1
        BY <1>5, OneOrNone DEF Join, SameTimestamp, Accounted, RxTypeOK
    <2>2. Joined(audio_frame[1], c) \in Frame
        BY <2>1, FramesTyped DEF Accounted
    <2>3. CheckSend(StaleOut, Joined(audio_frame[1], c))
        BY <1>5 DEF Join
    <2>4. /\ ble_q_rx' \in Seq(Frame)
          /\ audio_frame' \in Seq(Frame) /\ Len(audio_frame') <= 1
          /\ Len(ble_q_rx') + Len(audio_frame') = Len(StaleOut) + 1
          /\ fatal' = FALSE
        BY <1>1, <2>2, <2>3, StaleAccounts, CheckSendAccounts
    <2>5. undisturbed' \in BOOLEAN
        BY <1>5, Zenon DEF Join, Accounted, RxTypeOK
    <2> QED
        BY <1>5, <2>1, <2>4, <2>5, StaleAccounts DEF Join
<1>6. CASE DiscardSameLocation(c)
    <2>1. undisturbed' \in BOOLEAN /\ fatal' = FALSE
        BY <1>1, <1>6, Zenon DEF DiscardSameLocation, Accounted, RxTypeOK
    <2> QED
        BY <1>6, <2>1, StaleAccounts DEF DiscardSameLocation, Accounted, RxTypeOK
<1>7. CASE Begin(c)
    <2> DEFINE late == audio_frame # <<>>
               q == IF late THEN Put(StaleOut, audio_frame[1]) ELSE StaleOut
    <2>1. late => Len(audio_frame) = 1 /\ audio_frame[1] \in Frame
        BY OneOrNone DEF Accounted, RxTypeOK
    <2>2. q \in Seq(Frame) /\ StaleUnref = Len(q) + Len(held)
        BY <2>1, StaleAccounts DEF Put, Accounted, RxTypeOK
    <2>3. ~(late /\ Full(StaleOut))
        BY StaleAccounts
    <2>4. CASE StaleUnref = CONFIG_BUF_BLE_RX_PACKET_NUM
        <3>1. /\ ble_q_rx' = q /\ audio_frame' = <<>> /\ allocated' = StaleUnref
              /\ undisturbed' = FALSE
            BY <1>7, <2>4 DEF Begin
        <3>2. fatal' = (fatal \/ (late /\ Full(StaleOut)))
            BY <1>7, <2>4 DEF Begin
        <3>3. fatal' = FALSE
            BY <1>1, <2>3, <3>2, Zenon
        <3>4. <<>> \in Seq(Frame) /\ Len(<<>>) = 0
            OBVIOUS
        <3>5. /\ allocated' \in Nat /\ allocated' <= CONFIG_BUF_BLE_RX_PACKET_NUM
              /\ allocated' = Len(audio_frame') + Len(ble_q_rx') + Len(held)
            <4> HIDE DEF q
            <4> QED
                BY <2>2, <3>1, <3>4, StaleAccounts DEF Accounted, RxTypeOK
        <3>6. audio_frame' \in Seq(Frame) /\ Len(audio_frame') <= 1 /\ ble_q_rx' \in Seq(Frame)
            <4> HIDE DEF q
            <4> QED
                BY <2>2, <3>1, <3>4
        <3>7. undisturbed' \in BOOLEAN
            BY <3>1, Zenon
        <3> QED
            BY <3>3, <3>5, <3>6, <3>7, Zenon
    <2>5. CASE StaleUnref # CONFIG_BUF_BLE_RX_PACKET_NUM
        <3>1. allocated' = StaleUnref + 1 /\ CheckSend(q, Fresh(c)) /\ undisturbed' = undisturbed
            BY <1>7, <2>3, <2>5 DEF Begin
        <3>2. ~Full(q)
            BY <2>2, <2>5, StaleAccounts DEF Full, Accounted, RxTypeOK
        <3>3. /\ ble_q_rx' \in Seq(Frame)
              /\ audio_frame' \in Seq(Frame) /\ Len(audio_frame') <= 1
              /\ Len(ble_q_rx') + Len(audio_frame') = Len(q) + 1
              /\ fatal' = FALSE
            <4> HIDE DEF q
            <4> QED
                BY <1>1, <2>2, <3>1, <3>2, FramesTyped, CheckSendAccounts DEF Accounted
        <3>4. undisturbed' \in BOOLEAN
            BY <3>1, Zenon DEF Accounted, RxTypeOK
        <3>5. /\ allocated' \in Nat /\ allocated' <= CONFIG_BUF_BLE_RX_PACKET_NUM
              /\ allocated' = Len(audio_frame') + Len(ble_q_rx') + Len(held)
            <4> HIDE DEF q
            <4> QED
                BY <2>2, <2>5, <3>1, <3>3, StaleAccounts
        <3> QED
            BY <3>3, <3>4, <3>5
    <2> QED
        BY <2>4, <2>5
<1> QED
    BY <1>4, <1>5, <1>6, <1>7 DEF le_audio_rx_data_handler

\* Nothing is in use at the start.
LEMMA AccountedAtStart == RxInit => Accounted
<1> USE PoolAssumption, MaxSduAssumption
<1> SUFFICES ASSUME RxInit PROVE Accounted
    OBVIOUS
<1>1. undisturbed \in BOOLEAN /\ fatal \in BOOLEAN /\ PutNeverFails
    BY Zenon DEF RxInit, PutNeverFails
<1>2. <<>> \in Seq(Frame) /\ Len(<<>>) = 0
    OBVIOUS
<1>3. RxTypeOK
    BY <1>1, <1>2 DEF RxInit, RxTypeOK
<1>4. PoolAccounted /\ allocated <= CONFIG_BUF_BLE_RX_PACKET_NUM
    BY <1>2 DEF RxInit, PoolAccounted
<1> QED
    BY <1>1, <1>3, <1>4 DEF Accounted

\* Every step keeps the account.
LEMMA AccountedKept == Accounted /\ [RxNext]_rxVars => Accounted'
<1> USE PoolAssumption, MaxSduAssumption
<1> SUFFICES ASSUME Accounted, [RxNext]_rxVars PROVE Accounted'
    OBVIOUS
<1>1. CASE \E c \in Channels : le_audio_rx_data_handler(c)
    BY <1>1, ReceiveAccounts
<1>2. CASE Take
    <2>1. /\ ble_q_rx # <<>> /\ held = <<>>
          /\ held' = <<Head(ble_q_rx)>> /\ ble_q_rx' = Tail(ble_q_rx)
          /\ UNCHANGED <<env, arrived, undisturbed, audio_frame, allocated, fatal>>
        BY <1>2 DEF Take
    <2>2. /\ Head(ble_q_rx) \in Frame /\ Tail(ble_q_rx) \in Seq(Frame)
          /\ Len(Tail(ble_q_rx)) = Len(ble_q_rx) - 1
        BY <2>1 DEF Accounted, RxTypeOK
    <2>3. held' \in Seq(Frame) /\ Len(held') = 1 /\ Len(held) = 0
        BY <2>1, <2>2
    <2>4. RxTypeOK'
        BY <2>1, <2>2, <2>3 DEF Accounted, RxTypeOK, env
    <2>5. PutNeverFails'
        BY <2>1, Zenon DEF PutNeverFails, Accounted
    <2> QED
        BY <2>1, <2>2, <2>3, <2>4, <2>5 DEF Accounted, RxTypeOK, PoolAccounted
<1>3. CASE Release
    <2>1. /\ held # <<>> /\ held' = <<>> /\ allocated' = allocated - 1
          /\ UNCHANGED <<env, arrived, undisturbed, audio_frame, ble_q_rx, fatal>>
        BY <1>3 DEF Release
    <2>2. Len(held) = 1
        BY <2>1, OneOrNone DEF Accounted, RxTypeOK
    <2>3. RxTypeOK'
        BY <2>1, <2>2 DEF Accounted, RxTypeOK, PoolAccounted, env
    <2>4. PutNeverFails'
        BY <2>1, Zenon DEF PutNeverFails, Accounted
    <2> QED
        BY <2>1, <2>2, <2>3, <2>4 DEF Accounted, RxTypeOK, PoolAccounted
<1>4. CASE NextInterval \/ (\E s \in {"PAUSED", "STREAMING"} : StateSet(s))
           \/ (\E c \in Channels : StreamStarts(c) \/ StreamStops(c))
    <2>1. UNCHANGED <<location, audio_frame, ble_q_rx, held, allocated, fatal>>
        BY <1>4 DEF NextInterval, StateSet, StreamStarts, StreamStops, Disturbed
    <2>2. /\ rx_strm_state' \in {"PAUSED", "STREAMING"} /\ streaming' \subseteq Channels
          /\ arrived' \subseteq Channels /\ sdu' \in 1..MaxSdu
        BY <1>4 DEF NextInterval, StateSet, StreamStarts, StreamStops, Disturbed,
                    Accounted, RxTypeOK
    <2>3. undisturbed' \in BOOLEAN
        BY <1>4, Zenon DEF NextInterval, StateSet, StreamStarts, StreamStops, Disturbed
    <2>4. RxTypeOK'
        BY <2>1, <2>2, <2>3 DEF Accounted, RxTypeOK
    <2>5. PutNeverFails'
        BY <2>1, Zenon DEF PutNeverFails, Accounted
    <2> QED
        BY <2>1, <2>4, <2>5 DEF Accounted, RxTypeOK, PoolAccounted
<1>5. CASE UNCHANGED rxVars
    <2>1. RxTypeOK' /\ PoolAccounted' /\ allocated' = allocated
        BY <1>5 DEF rxVars, Accounted, RxTypeOK, PoolAccounted
    <2>2. PutNeverFails'
        BY <1>5, Zenon DEF rxVars, PutNeverFails, Accounted
    <2> QED
        BY <2>1, <2>2 DEF Accounted
<1> QED
    BY <1>1, <1>2, <1>3, <1>4, <1>5 DEF RxNext

\* No buffer is lost, and no put into the queue ever fails, for any pool size: the second
\* frame a call may put always finds a place.
THEOREM BuffersAccounted == RxSpec => [](RxTypeOK /\ NoBufferLost)
<1>1. Accounted => RxTypeOK /\ NoBufferLost
    BY DEF Accounted, NoBufferLost
<1> QED
    BY <1>1, AccountedAtStart, AccountedKept, PTL DEF RxSpec
-----------------------------------------------------------------------------
\* One frame after the other, none before the one in front of it.
Ordered(q) == \A i, j \in 1..Len(q) : i < j => q[i].ref_ts_us <= q[j].ref_ts_us
Before(q, r) == \A i \in 1..Len(q), j \in 1..Len(r) : q[i].ref_ts_us <= r[j].ref_ts_us
UpTo(q, n) == \A i \in 1..Len(q) : q[i].ref_ts_us <= n

\* The three places a frame passes through, seen as one queue up to the interval n.
InOrder(h, q, a, n) == /\ Ordered(q) /\ Before(h, q) /\ Before(h, a) /\ Before(q, a)
                       /\ UpTo(h, n) /\ UpTo(q, n) /\ UpTo(a, n)

OrderInv == InOrder(held, ble_q_rx, audio_frame, sdu)

\* No stream contributes twice to an interval.
PartsInv == \A i \in 1..Len(audio_frame) :
                /\ audio_frame[i].parts <= Cardinality(Channels)
                /\ audio_frame[i].ref_ts_us = sdu
                       => audio_frame[i].parts <= Cardinality(arrived)

LocationsOf(S) == {location[c] : c \in S}
WholeIn(q) == \A i \in 1..Len(q) :
                  q[i].ref_ts_us = sdu => q[i].locations = LocationsOf(streaming)
Calm == undisturbed /\ \A c, d \in streaming : c # d => location[c] # location[d]

\* While nothing disturbs the interval, the frame being joined has what has arrived, and
\* there is none only before the first SDU and after the last.
WholeInv == Calm => /\ rx_strm_state = "STREAMING" /\ arrived \subseteq streaming
                    /\ WholeIn(held) /\ WholeIn(ble_q_rx)
                    /\ SameTimestamp => audio_frame[1].locations = LocationsOf(arrived)
                    /\ ~SameTimestamp => arrived = {} \/ arrived = streaming

JoinInv == Accounted /\ OrderInv /\ PartsInv /\ WholeInv

\* Taking the oldest frame of the queue out leaves the others in their order.
LEMMA DropOldest ==
    ASSUME NEW h \in Seq(Frame), NEW q \in Seq(Frame), NEW a \in Seq(Frame), NEW n \in Nat,
           q # <<>>, InOrder(h, q, a, n)
    PROVE  InOrder(h, Tail(q), a, n) /\ InOrder(<<Head(q)>>, Tail(q), a, n)
<1> DEFINE t == Tail(q)
           d == <<Head(q)>>
<1>1. /\ Len(t) \in Nat /\ Len(q) = Len(t) + 1
      /\ \A i \in 1..Len(t) : i + 1 \in 1..Len(q) /\ t[i] = q[i + 1]
    BY HeadTailProperties, LenProperties
<1>2. Len(d) = 1 /\ d[1] = q[1] /\ 1 \in 1..Len(q)
    BY <1>1
<1> HIDE DEF t, d
<1>3. Ordered(q) /\ Before(h, q) /\ Before(q, a) /\ Before(h, a)
    BY DEF InOrder
<1>4. Ordered(t) /\ Before(d, t)
    <2>1. ASSUME NEW i \in 1..Len(t), NEW j \in 1..Len(t), i < j
          PROVE  t[i].ref_ts_us <= t[j].ref_ts_us
        <3>1. i + 1 \in 1..Len(q) /\ j + 1 \in 1..Len(q) /\ i + 1 < j + 1
            BY <1>1, <2>1
        <3>2. q[i + 1].ref_ts_us <= q[j + 1].ref_ts_us
            BY <1>3, <3>1 DEF Ordered
        <3> QED
            BY <1>1, <3>2
    <2>2. ASSUME NEW i \in 1..Len(d), NEW j \in 1..Len(t)
          PROVE  d[i].ref_ts_us <= t[j].ref_ts_us
        <3>1. i = 1 /\ j + 1 \in 1..Len(q) /\ 1 < j + 1
            BY <1>1, <1>2
        <3>2. q[1].ref_ts_us <= q[j + 1].ref_ts_us
            BY <1>2, <1>3, <3>1 DEF Ordered
        <3> QED
            BY <1>1, <1>2, <3>1, <3>2
    <2> QED
        BY <2>1, <2>2 DEF Ordered, Before
<1>5. Before(h, t) /\ Before(t, a) /\ Before(d, a)
    <2>1. ASSUME NEW i \in 1..Len(h), NEW j \in 1..Len(t)
          PROVE  h[i].ref_ts_us <= t[j].ref_ts_us
        BY <1>1, <1>3 DEF Before
    <2>2. ASSUME NEW i \in 1..Len(t), NEW j \in 1..Len(a)
          PROVE  t[i].ref_ts_us <= a[j].ref_ts_us
        BY <1>1, <1>3 DEF Before
    <2>3. ASSUME NEW i \in 1..Len(d), NEW j \in 1..Len(a)
          PROVE  d[i].ref_ts_us <= a[j].ref_ts_us
        BY <1>2, <1>3 DEF Before
    <2> QED
        BY <2>1, <2>2, <2>3 DEF Before
<1>6. UpTo(t, n) /\ UpTo(d, n)
    BY <1>1, <1>2 DEF InOrder, UpTo
<1>7. InOrder(h, t, a, n) /\ InOrder(d, t, a, n)
    BY <1>4, <1>5, <1>6 DEF InOrder
<1> QED
    BY <1>7 DEF t, d

\* The frame being joined goes to the end of the queue.
LEMMA SendLast ==
    ASSUME NEW h \in Seq(Frame), NEW q \in Seq(Frame), NEW f \in Frame, NEW n \in Nat,
           InOrder(h, q, <<f>>, n)
    PROVE  InOrder(h, Append(q, f), <<>>, n)
<1> DEFINE r == Append(q, f)
           a == <<f>>
           e == <<>>
<1>1. /\ Len(q) \in Nat /\ Len(r) = Len(q) + 1 /\ r[Len(q) + 1] = f
      /\ \A i \in 1..Len(q) : r[i] = q[i]
    BY AppendProperties, LenProperties
<1>2. Len(a) = 1 /\ a[1] = f /\ Len(e) = 0
    OBVIOUS
<1>3. f.ref_ts_us \in Nat
    BY DEF Frame
<1>4. \A i \in 1..Len(r) : i \in 1..Len(q) \/ i = Len(q) + 1
    BY <1>1
<1>5. InOrder(h, q, a, n)
    OBVIOUS
<1> HIDE DEF r, a, e
<1>6. Ordered(r)
    <2> SUFFICES ASSUME NEW i \in 1..Len(r), NEW j \in 1..Len(r), i < j
                 PROVE  r[i].ref_ts_us <= r[j].ref_ts_us
        BY DEF Ordered
    <2>1. i \in 1..Len(q) /\ r[i] = q[i]
        BY <1>1
    <2>2. CASE j \in 1..Len(q)
        BY <1>1, <1>5, <2>1, <2>2 DEF InOrder, Ordered
    <2>3. CASE j = Len(q) + 1
        BY <1>1, <1>2, <1>5, <2>1, <2>3 DEF InOrder, Before
    <2> QED
        BY <1>4, <2>2, <2>3
<1>7. Before(h, r)
    <2> SUFFICES ASSUME NEW i \in 1..Len(h), NEW j \in 1..Len(r)
                 PROVE  h[i].ref_ts_us <= r[j].ref_ts_us
        BY DEF Before
    <2>1. Before(h, q) /\ Before(h, a)
        BY <1>5 DEF InOrder
    <2>2. CASE j \in 1..Len(q)
        BY <1>1, <2>1, <2>2 DEF Before
    <2>3. CASE j = Len(q) + 1
        BY <1>1, <1>2, <2>1, <2>3 DEF Before
    <2> QED
        BY <1>4, <2>2, <2>3
<1>8. UpTo(r, n)
    BY <1>1, <1>2, <1>4, <1>5 DEF InOrder, UpTo
<1>9. Before(h, e) /\ Before(r, e) /\ UpTo(e, n)
    BY <1>2 DEF Before, UpTo
<1>10. InOrder(h, r, e, n)
    BY <1>5, <1>6, <1>7, <1>8, <1>9 DEF InOrder
<1> QED
    BY <1>10 DEF r, e

\* A frame of the interval all others are up to can follow them.
LEMMA NewestLast ==
    ASSUME NEW h \in Seq(Frame), NEW q \in Seq(Frame), NEW a \in Seq(Frame), NEW n \in Nat,
           NEW f \in Frame, f.ref_ts_us = n, InOrder(h, q, a, n)
    PROVE  InOrder(h, q, <<f>>, n)
<1> DEFINE b == <<f>>
<1>1. Len(b) = 1 /\ b[1].ref_ts_us = n
    OBVIOUS
<1> HIDE DEF b
<1>2. Before(h, b) /\ Before(q, b) /\ UpTo(b, n)
    BY <1>1 DEF InOrder, UpTo, Before
<1>3. InOrder(h, q, b, n)
    BY <1>2 DEF InOrder
<1> QED
    BY <1>3 DEF b

\* With one frame at most at either end, the three places are one ordered queue.
LEMMA OrderedThroughout ==
    ASSUME RxTypeOK, OrderInv
    PROVE  InTimestampOrder
<1> DEFINE hq == held \o ble_q_rx
           all == hq \o audio_frame
<1>1. /\ Len(held) \in Nat /\ Len(ble_q_rx) \in Nat /\ Len(audio_frame) \in Nat
      /\ Len(held) <= 1 /\ Len(audio_frame) <= 1
    BY LenProperties DEF RxTypeOK
<1>2. /\ hq \in Seq(Frame) /\ Len(hq) = Len(held) + Len(ble_q_rx)
      /\ \A i \in 1..Len(hq) : \/ i \in 1..Len(held) /\ hq[i] = held[i]
                               \/ /\ i > Len(held) /\ i - Len(held) \in 1..Len(ble_q_rx)
                                  /\ hq[i] = ble_q_rx[i - Len(held)]
    BY <1>1, ConcatProperties DEF RxTypeOK
<1> HIDE DEF hq
<1>3. /\ all \in Seq(Frame) /\ Len(all) = Len(hq) + Len(audio_frame)
      /\ \A i \in 1..Len(all) : \/ i \in 1..Len(hq) /\ all[i] = hq[i]
                                \/ /\ i > Len(hq) /\ i - Len(hq) \in 1..Len(audio_frame)
                                   /\ all[i] = audio_frame[i - Len(hq)]
    <2>1. hq \in Seq(Frame) /\ audio_frame \in Seq(Frame) /\ Len(hq) \in Nat
        BY <1>2, LenProperties DEF RxTypeOK
    <2>2. /\ all \in Seq(Frame) /\ Len(all) = Len(hq) + Len(audio_frame)
          /\ \A i \in 1..Len(hq) + Len(audio_frame) :
                all[i] = IF i <= Len(hq) THEN hq[i] ELSE audio_frame[i - Len(hq)]
        BY <2>1, ConcatProperties
    <2> HIDE DEF all
    <2> QED
        BY ONLY <1>1, <2>1, <2>2
<1>4. DOMAIN all = 1..Len(all)
    BY <1>3
<1> HIDE DEF all
<1>5. \A i, j \in 1..Len(hq) : i < j => hq[i].ref_ts_us <= hq[j].ref_ts_us
    <2> SUFFICES ASSUME NEW i \in 1..Len(hq), NEW j \in 1..Len(hq), i < j
                 PROVE  hq[i].ref_ts_us <= hq[j].ref_ts_us
        OBVIOUS
    <2>1. CASE i \in 1..Len(held) /\ hq[i] = held[i]
        <3>1. j > Len(held) /\ j - Len(held) \in 1..Len(ble_q_rx)
              /\ hq[j] = ble_q_rx[j - Len(held)]
            BY <1>1, <1>2, <2>1
        <3> QED
            BY <2>1, <3>1 DEF OrderInv, InOrder, Before
    <2>2. CASE i > Len(held) /\ i - Len(held) \in 1..Len(ble_q_rx)
               /\ hq[i] = ble_q_rx[i - Len(held)]
        <3>1. j > Len(held) /\ j - Len(held) \in 1..Len(ble_q_rx)
              /\ hq[j] = ble_q_rx[j - Len(held)]
            BY <1>1, <1>2, <2>2
        <3>2. i - Len(held) < j - Len(held)
            BY <1>1, <1>2
        <3> QED
            BY <2>2, <3>1, <3>2 DEF OrderInv, InOrder, Ordered
    <2> QED
        BY <1>2, <2>1, <2>2
<1>6. \A i \in 1..Len(hq), j \in 1..Len(audio_frame) :
          hq[i].ref_ts_us <= audio_frame[j].ref_ts_us
    BY <1>2 DEF OrderInv, InOrder, Before
<1>7. ASSUME NEW i \in 1..Len(all), NEW j \in 1..Len(all), i < j
      PROVE  all[i].ref_ts_us <= all[j].ref_ts_us
    <2>1. CASE j \in 1..Len(hq) /\ all[j] = hq[j]
        <3>1. i \in 1..Len(hq) /\ all[i] = hq[i]
            BY <1>2, <1>3, <1>7, <2>1
        <3> QED
            BY <1>5, <1>7, <2>1, <3>1
    <2>2. CASE j > Len(hq) /\ j - Len(hq) \in 1..Len(audio_frame)
               /\ all[j] = audio_frame[j - Len(hq)]
        <3>1. i \in 1..Len(hq) /\ all[i] = hq[i]
            BY <1>1, <1>2, <1>3, <1>7, <2>2
        <3> QED
            BY <1>6, <2>2, <3>1
    <2> QED
        BY <1>3, <2>1, <2>2
<1> QED
    BY <1>4, <1>7 DEF InTimestampOrder, all, hq

\* Where no two elements of A but all of S count, A is S: the comparison of two numbers
\* in check_send finds out that every stream has contributed.
LEMMA WholeWhenCounted ==
    ASSUME NEW S, IsFiniteSet(S), NEW A \in SUBSET S, NEW g,
           Cardinality(S) = Cardinality({g[c] : c \in A})
    PROVE  A = S
<1> DEFINE img == {g[c] : c \in A}
           f == [c \in A |-> g[c]]
<1>1. IsFiniteSet(A) /\ Cardinality(A) <= Cardinality(S)
      /\ (Cardinality(S) = Cardinality(A) => S = A)
    BY FS_Subset
<1>2. f \in Surjection(A, img)
    BY DEF Surjection
<1>3. Cardinality(img) <= Cardinality(A) /\ IsFiniteSet(img)
    BY <1>1, <1>2, FS_Surjection
<1>4. Cardinality(S) \in Nat /\ Cardinality(A) \in Nat
    BY <1>1, FS_CardinalityType
<1> HIDE DEF img, f
<1>5. Cardinality(S) = Cardinality(img)
    BY DEF img
<1>6. Cardinality(S) = Cardinality(A)
    BY <1>1, <1>3, <1>4, <1>5
<1> QED
    BY <1>1, <1>6

\* The queue after a frame of an older interval has been sent as it is.
LateSent == IF audio_frame # <<>> THEN Append(StaleOut, audio_frame[1]) ELSE StaleOut

\* A frame is put into the queue or kept to wait for the other streams.
PutOrKept(q, f) == \/ Complete(f) /\ ble_q_rx' = Append(q, f) /\ audio_frame' = <<>>
                   \/ ~Complete(f) /\ ble_q_rx' = q /\ audio_frame' = <<f>>

\* What the callback does, now that no put fails.
LEMMA ReceiveEffect ==
    ASSUME Accounted, NEW c \in Channels, le_audio_rx_data_handler(c)
    PROVE  /\ c \in streaming /\ c \notin arrived /\ arrived' = arrived \cup {c}
           /\ UNCHANGED <<env, held>>
           /\ \/ /\ rx_strm_state # "STREAMING"
                 /\ UNCHANGED <<audio_frame, ble_q_rx, undisturbed>>
              \/ /\ SameTimestamp /\ audio_frame[1].locations = {location[c]}
                 /\ ble_q_rx' = StaleOut
                 /\ UNCHANGED <<audio_frame, undisturbed>>
              \/ /\ ~SameTimestamp
                 /\ ble_q_rx' = LateSent /\ audio_frame' = <<>> /\ undisturbed' = FALSE
              \/ /\ SameTimestamp
                 /\ PutOrKept(StaleOut, Joined(audio_frame[1], c))
                 /\ UNCHANGED undisturbed
              \/ /\ ~SameTimestamp
                 /\ PutOrKept(LateSent, Fresh(c))
                 /\ UNCHANGED undisturbed
<1>1. Receives(c)
    BY DEF le_audio_rx_data_handler, ThrowAway, Join, DiscardSameLocation, Begin
<1>2. c \in streaming /\ c \notin arrived /\ arrived' = arrived \cup {c} /\ UNCHANGED <<env, held>>
    BY <1>1 DEF Receives
<1>3. ~Full(StaleOut)
    BY StaleAccounts
<1>4. CASE ThrowAway(c)
    BY <1>2, <1>4 DEF ThrowAway
<1>5. CASE DiscardSameLocation(c)
    BY <1>2, <1>5 DEF DiscardSameLocation
<1>6. CASE Join(c)
    <2>1. CheckSend(StaleOut, Joined(audio_frame[1], c)) /\ SameTimestamp /\ UNCHANGED undisturbed
        BY <1>6 DEF Join
    <2>2. PutOrKept(StaleOut, Joined(audio_frame[1], c))
        BY <1>3, <2>1 DEF CheckSend, PutOrKept, Put
    <2> QED
        BY <1>2, <2>1, <2>2
<1>7. CASE Begin(c)
    <2> DEFINE late == audio_frame # <<>>
               q == IF late THEN Put(StaleOut, audio_frame[1]) ELSE StaleOut
    <2>1. q = LateSent
        BY <1>3 DEF Put, LateSent
    <2>2. ~SameTimestamp
        BY <1>7 DEF Begin
    <2>3. CASE StaleUnref = CONFIG_BUF_BLE_RX_PACKET_NUM
        BY <1>2, <1>7, <2>1, <2>2, <2>3 DEF Begin
    <2>4. CASE StaleUnref # CONFIG_BUF_BLE_RX_PACKET_NUM
        <3>1. CheckSend(q, Fresh(c)) /\ UNCHANGED undisturbed
            BY <1>3, <1>7, <2>4 DEF Begin
        <3>2. ~Full(q)
            <4>1. late => Len(audio_frame) = 1 /\ audio_frame[1] \in Frame
                BY OneOrNone DEF Accounted, RxTypeOK
            <4>2. q \in Seq(Frame) /\ StaleUnref = Len(q) + Len(held)
                BY <4>1, StaleAccounts DEF Put, Accounted, RxTypeOK
            <4> QED
                BY <2>4, <4>2, PoolAssumption, StaleAccounts DEF Full, Accounted, RxTypeOK
        <3>3. PutOrKept(LateSent, Fresh(c))
            <4> HIDE DEF q
            <4> QED
                BY <2>1, <3>1, <3>2 DEF CheckSend, PutOrKept, Put
        <3> QED
            BY <1>2, <2>2, <3>1, <3>3
    <2> QED
        BY <2>3, <2>4
<1> QED
    BY <1>4, <1>5, <1>6, <1>7 DEF le_audio_rx_data_handler

\* A frame of the current interval that is put or kept is behind all others.
LEMMA PutOrKeptInOrder ==
    ASSUME RxTypeOK, NEW q \in Seq(Frame), NEW f \in Frame, NEW a \in Seq(Frame),
           InOrder(held, q, a, sdu), f.ref_ts_us = sdu, PutOrKept(q, f)
    PROVE  InOrder(held, ble_q_rx', audio_frame', sdu)
<1>1. sdu \in Nat /\ held \in Seq(Frame)
    BY MaxSduAssumption DEF RxTypeOK
<1>2. InOrder(held, q, <<f>>, sdu)
    BY <1>1, NewestLast
<1>3. InOrder(held, Append(q, f), <<>>, sdu)
    BY <1>1, <1>2, SendLast
<1> QED
    BY <1>2, <1>3, Zenon DEF PutOrKept

\* The callback keeps the frames in order, even where it sends a late one first.
LEMMA ReceiveInOrder ==
    ASSUME Accounted, OrderInv, NEW c \in Channels, le_audio_rx_data_handler(c)
    PROVE  OrderInv'
<1> USE MaxSduAssumption
<1>1. /\ RxTypeOK /\ StaleOut \in Seq(Frame) /\ sdu \in Nat
      /\ ble_q_rx \in Seq(Frame) /\ held \in Seq(Frame) /\ audio_frame \in Seq(Frame)
    BY StaleAccounts DEF Accounted, RxTypeOK
<1>2. InOrder(held, ble_q_rx, audio_frame, sdu)
    BY DEF OrderInv
<1>3. InOrder(held, StaleOut, audio_frame, sdu)
    <2>1. Full(ble_q_rx) => ble_q_rx # <<>>
        BY PoolAssumption DEF Full
    <2>2. Full(ble_q_rx) => InOrder(held, Tail(ble_q_rx), audio_frame, sdu)
        BY <1>1, <1>2, <2>1, DropOldest
    <2> QED
        BY <1>2, <2>2, Zenon DEF StaleOut
<1>4. audio_frame # <<>> => audio_frame = <<audio_frame[1]>> /\ audio_frame[1] \in Frame
    <2>1. audio_frame # <<>> => Len(audio_frame) = 1 /\ audio_frame[1] \in Frame
        BY <1>1, OneOrNone DEF RxTypeOK
    <2> QED
        BY <1>1, <2>1
<1>5. LateSent \in Seq(Frame) /\ InOrder(held, LateSent, <<>>, sdu)
    <2>1. CASE audio_frame = <<>>
        BY <1>1, <1>3, <2>1 DEF LateSent
    <2>2. CASE audio_frame # <<>>
        <3>1. InOrder(held, StaleOut, <<audio_frame[1]>>, sdu)
            BY <1>3, <1>4, <2>2, Zenon
        <3>2. InOrder(held, Append(StaleOut, audio_frame[1]), <<>>, sdu)
            BY <1>1, <1>4, <2>2, <3>1, SendLast
        <3> QED
            BY <1>1, <1>4, <2>2, <3>2 DEF LateSent
    <2> QED
        BY <2>1, <2>2
<1>6. sdu' = sdu /\ held' = held
    BY ReceiveEffect DEF env
<1>7. SUFFICES InOrder(held, ble_q_rx', audio_frame', sdu)
    BY <1>6 DEF OrderInv
<1>8. SameTimestamp => Joined(audio_frame[1], c) \in Frame /\ Joined(audio_frame[1], c).ref_ts_us = sdu
    BY <1>1, FramesTyped DEF SameTimestamp, Joined
<1>9. Fresh(c) \in Frame /\ Fresh(c).ref_ts_us = sdu
    BY <1>1, FramesTyped DEF Fresh
<1>10. CASE ble_q_rx' = ble_q_rx /\ audio_frame' = audio_frame
    BY <1>2, <1>10, Zenon
<1>11. CASE ble_q_rx' = StaleOut /\ audio_frame' = audio_frame
    BY <1>3, <1>11, Zenon
<1>12. CASE ble_q_rx' = LateSent /\ audio_frame' = <<>>
    BY <1>5, <1>12, Zenon
<1>13. CASE SameTimestamp /\ PutOrKept(StaleOut, Joined(audio_frame[1], c))
    BY <1>1, <1>3, <1>8, <1>13, PutOrKeptInOrder, Zenon
<1>14. CASE PutOrKept(LateSent, Fresh(c))
    <2>1. <<>> \in Seq(Frame)
        OBVIOUS
    <2> QED
        BY <1>1, <1>5, <1>9, <1>14, <2>1, PutOrKeptInOrder, Zenon
<1> QED
    BY <1>10, <1>11, <1>12, <1>13, <1>14, ReceiveEffect

\* Each SDU that is joined is of another stream.
LEMMA ReceiveFits ==
    ASSUME Accounted, PartsInv, NEW c \in Channels, le_audio_rx_data_handler(c)
    PROVE  PartsInv'
<1>1. c \notin arrived /\ arrived' = arrived \cup {c} /\ sdu' = sdu
    BY ReceiveEffect DEF env
<1>2. /\ IsFiniteSet(arrived) /\ Cardinality(arrived') = Cardinality(arrived) + 1
      /\ Cardinality(arrived) \in Nat /\ Cardinality(arrived') <= Cardinality(Channels)
    <2>1. arrived \in SUBSET Channels /\ arrived' \in SUBSET Channels
        BY <1>1 DEF Accounted, RxTypeOK
    <2>2. IsFiniteSet(arrived) /\ Cardinality(arrived') <= Cardinality(Channels)
        BY <2>1, ChannelsAssumption, FS_Subset
    <2> QED
        BY <1>1, <2>2, FS_AddElement, FS_CardinalityType
<1>3. Cardinality(Channels) \in Nat
    BY ChannelsAssumption, FS_CardinalityType
<1>4. CASE audio_frame' = audio_frame
    <2> SUFFICES ASSUME NEW i \in 1..Len(audio_frame)
                 PROVE  /\ audio_frame[i].parts <= Cardinality(Channels)
                        /\ audio_frame[i].ref_ts_us = sdu
                               => audio_frame[i].parts <= Cardinality(arrived')
        BY <1>1, <1>4 DEF PartsInv
    <2>1. audio_frame \in Seq(Frame)
        BY DEF Accounted, RxTypeOK
    <2>2. audio_frame[i] \in Frame
        BY <2>1, ElementOfSeq
    <2>3. audio_frame[i].parts \in Nat
        BY <2>2 DEF Frame
    <2> QED
        BY <1>2, <2>3 DEF PartsInv
<1>5. ASSUME NEW f \in Frame, f.parts <= Cardinality(arrived'), audio_frame' \in {<<>>, <<f>>}
      PROVE  PartsInv'
    <2>1. f.parts \in Nat
        BY <1>5 DEF Frame
    <2>2. ASSUME NEW i \in 1..Len(audio_frame')
          PROVE  audio_frame'[i] = f
        BY <1>5, <2>2
    <2>3. Cardinality(arrived') \in Nat
        BY <1>2
    <2>4. f.parts <= Cardinality(Channels)
        BY <1>2, <1>3, <1>5, <2>1, <2>3
    <2> QED
        BY <1>5, <2>2, <2>4 DEF PartsInv
<1>6. Fresh(c) \in Frame /\ Fresh(c).parts <= Cardinality(arrived')
    BY <1>2, FramesTyped DEF Accounted, Fresh
<1>7. CASE audio_frame' = <<>>
    BY <1>5, <1>6, <1>7
<1>8. CASE SameTimestamp /\ PutOrKept(StaleOut, Joined(audio_frame[1], c))
    <2> DEFINE f == Joined(audio_frame[1], c)
    <2>1. audio_frame # <<>> /\ audio_frame[1].ref_ts_us = sdu
        BY <1>8 DEF SameTimestamp
    <2>2. 1 \in 1..Len(audio_frame) /\ audio_frame[1] \in Frame /\ f \in Frame
        BY <2>1, OneOrNone, FramesTyped DEF Accounted, RxTypeOK
    <2>3. audio_frame[1].parts \in Nat /\ f.parts = audio_frame[1].parts + 1
        BY <2>2 DEF Frame, Joined
    <2>4. audio_frame[1].parts <= Cardinality(arrived)
        BY <2>1, <2>2 DEF PartsInv
    <2>5. f.parts <= Cardinality(arrived')
        BY <1>2, <2>3, <2>4
    <2>6. audio_frame' \in {<<>>, <<f>>}
        BY <1>8 DEF PutOrKept
    <2> QED
        BY <1>5, <2>2, <2>5, <2>6
<1>9. CASE PutOrKept(LateSent, Fresh(c))
    <2>1. audio_frame' \in {<<>>, <<Fresh(c)>>}
        BY <1>9 DEF PutOrKept
    <2> QED
        BY <1>5, <1>6, <2>1
<1> QED
    BY <1>4, <1>7, <1>8, <1>9, ReceiveEffect

\* Frames of the interval in a queue without its oldest, or with one more at the end.
LEMMA WholeTail ==
    ASSUME NEW q \in Seq(Frame), q # <<>>, WholeIn(q)
    PROVE  WholeIn(Tail(q)) /\ WholeIn(<<Head(q)>>)
<1> DEFINE t == Tail(q)
           d == <<Head(q)>>
<1>1. /\ Len(t) \in Nat /\ Len(q) = Len(t) + 1
      /\ \A i \in 1..Len(t) : i + 1 \in 1..Len(q) /\ t[i] = q[i + 1]
    BY HeadTailProperties, LenProperties
<1>2. Len(d) = 1 /\ d[1] = q[1] /\ 1 \in 1..Len(q)
    BY <1>1
<1> HIDE DEF t, d
<1>3. WholeIn(t) /\ WholeIn(d)
    BY <1>1, <1>2 DEF WholeIn
<1> QED
    BY <1>3 DEF t, d

LEMMA WholeAppend ==
    ASSUME NEW q \in Seq(Frame), NEW f \in Frame, WholeIn(q),
           f.ref_ts_us = sdu => f.locations = LocationsOf(streaming)
    PROVE  WholeIn(Append(q, f))
<1> DEFINE r == Append(q, f)
<1>1. /\ Len(q) \in Nat /\ Len(r) = Len(q) + 1 /\ r[Len(q) + 1] = f
      /\ \A i \in 1..Len(q) : r[i] = q[i]
    BY AppendProperties, LenProperties
<1>2. \A i \in 1..Len(r) : i \in 1..Len(q) \/ i = Len(q) + 1
    BY <1>1
<1> HIDE DEF r
<1>3. WholeIn(r)
    BY <1>1, <1>2 DEF WholeIn
<1> QED
    BY <1>3 DEF r

\* What the callback leaves of an undisturbed interval, given the frame it makes.
LEMMA PutOrKeptWhole ==
    ASSUME RxTypeOK, NEW q \in Seq(Frame), NEW f \in Frame, NEW A \in SUBSET streaming,
           WholeIn(q), f.ref_ts_us = sdu, f.locations = LocationsOf(A), PutOrKept(q, f)
    PROVE  /\ WholeIn(ble_q_rx')
           /\ \/ audio_frame' = <<f>>
              \/ audio_frame' = <<>> /\ A = streaming
<1>1. IsFiniteSet(streaming)
    BY ChannelsAssumption, FS_Subset DEF RxTypeOK
<1>2. CASE ~Complete(f)
    BY <1>2 DEF PutOrKept
<1>3. CASE Complete(f)
    <2>1. Cardinality(streaming) = Cardinality({location[c] : c \in A})
        BY <1>3 DEF Complete, LocationsOf
    <2>2. A = streaming
        BY <1>1, <2>1, WholeWhenCounted
    <2>3. WholeIn(Append(q, f))
        BY <2>2, WholeAppend
    <2> QED
        BY <1>3, <2>2, <2>3 DEF PutOrKept
<1> QED
    BY <1>2, <1>3

\* In an undisturbed interval the callback joins what has arrived and sends nothing less.
LEMMA ReceiveWhole ==
    ASSUME Accounted, WholeInv, NEW c \in Channels, le_audio_rx_data_handler(c), Calm'
    PROVE  /\ arrived' \subseteq streaming /\ rx_strm_state = "STREAMING"
           /\ WholeIn(held) /\ WholeIn(ble_q_rx')
           /\ SameTimestamp' => audio_frame'[1].locations = LocationsOf(arrived')
           /\ ~SameTimestamp' => arrived' = {} \/ arrived' = streaming
<1>1. /\ c \in streaming /\ c \notin arrived /\ arrived' = arrived \cup {c}
      /\ location' = location /\ streaming' = streaming /\ sdu' = sdu
    BY ReceiveEffect DEF env
<1>2. undisturbed' = undisturbed /\ Calm
    <2>1. undisturbed'
        BY DEF Calm
    <2>2. undisturbed' = undisturbed \/ undisturbed' = FALSE
        BY ReceiveEffect
    <2>3. undisturbed' = undisturbed /\ undisturbed
        BY <2>1, <2>2, Zenon
    <2> QED
        BY <1>1, <2>3 DEF Calm
<1>3. /\ rx_strm_state = "STREAMING" /\ arrived \subseteq streaming
      /\ WholeIn(held) /\ WholeIn(ble_q_rx)
      /\ SameTimestamp => audio_frame[1].locations = LocationsOf(arrived)
      /\ ~SameTimestamp => arrived = {} \/ arrived = streaming
    BY <1>2 DEF WholeInv
<1>4. /\ RxTypeOK /\ StaleOut \in Seq(Frame) /\ ble_q_rx \in Seq(Frame)
    BY StaleAccounts DEF Accounted, RxTypeOK
<1>5. WholeIn(StaleOut)
    <2>1. Full(ble_q_rx) => ble_q_rx # <<>>
        BY PoolAssumption DEF Full
    <2> QED
        BY <1>3, <1>4, <2>1, WholeTail, Zenon DEF StaleOut
<1>6. arrived' \in SUBSET streaming
    BY <1>1, <1>3
<1>7. \A d \in arrived : location[d] # location[c]
    BY <1>1, <1>2, <1>3 DEF Calm
<1>8. CASE SameTimestamp /\ audio_frame[1].locations = {location[c]}
    <2>1. LocationsOf(arrived) = {location[c]}
        BY <1>3, <1>8
    <2>2. PICK d \in arrived : location[d] = location[c]
        BY <2>1 DEF LocationsOf
    <2> QED
        BY <1>7, <2>2
<1>9. ASSUME NEW q \in Seq(Frame), NEW f \in Frame, WholeIn(q), f.ref_ts_us = sdu,
             f.locations = LocationsOf(arrived'), PutOrKept(q, f)
      PROVE  /\ WholeIn(ble_q_rx')
             /\ SameTimestamp' => audio_frame'[1].locations = LocationsOf(arrived')
             /\ ~SameTimestamp' => arrived' = {} \/ arrived' = streaming
    <2>1. /\ WholeIn(ble_q_rx')
          /\ \/ audio_frame' = <<f>>
             \/ audio_frame' = <<>> /\ arrived' = streaming
        BY <1>4, <1>6, <1>9, PutOrKeptWhole
    <2>2. CASE audio_frame' = <<f>>
        <3>1. SameTimestamp' /\ audio_frame'[1] = f
            BY <1>1, <1>9, <2>2 DEF SameTimestamp
        <3> QED
            BY <1>9, <2>1, <3>1
    <2>3. CASE audio_frame' = <<>> /\ arrived' = streaming
        BY <2>1, <2>3 DEF SameTimestamp
    <2> QED
        BY <2>1, <2>2, <2>3
<1>10. CASE SameTimestamp /\ PutOrKept(StaleOut, Joined(audio_frame[1], c))
    <2> DEFINE f == Joined(audio_frame[1], c)
    <2>1. f \in Frame /\ f.ref_ts_us = sdu
        BY <1>4, <1>10, FramesTyped DEF SameTimestamp, Joined
    <2>2. f.locations = LocationsOf(arrived) \cup {location[c]}
        BY <1>3, <1>10 DEF Joined
    <2>3. f.locations = LocationsOf(arrived')
        BY <1>1, <2>2 DEF LocationsOf
    <2> QED
        BY <1>3, <1>4, <1>5, <1>6, <1>9, <1>10, <2>1, <2>3
<1>11. CASE ~SameTimestamp /\ PutOrKept(LateSent, Fresh(c))
    <2>1. arrived' = {c}
        BY <1>1, <1>3, <1>11
    <2>2. /\ Fresh(c) \in Frame /\ Fresh(c).ref_ts_us = sdu
          /\ Fresh(c).locations = LocationsOf(arrived')
        BY <1>4, <2>1, FramesTyped DEF Fresh, LocationsOf
    <2>3. LateSent \in Seq(Frame) /\ WholeIn(LateSent)
        <3>1. CASE audio_frame = <<>>
            BY <1>4, <1>5, <3>1 DEF LateSent
        <3>2. CASE audio_frame # <<>>
            <4>1. audio_frame[1] \in Frame /\ audio_frame[1].ref_ts_us # sdu
                BY <1>4, <1>11, <3>2, OneOrNone DEF RxTypeOK, SameTimestamp
            <4> QED
                BY <1>4, <1>5, <3>2, <4>1, WholeAppend DEF LateSent
        <3> QED
            BY <3>1, <3>2
    <2> QED
        BY <1>3, <1>6, <1>9, <1>11, <2>2, <2>3
<1>12. CASE undisturbed' = FALSE
    BY <1>12 DEF Calm
<1> QED
    BY <1>3, <1>8, <1>10, <1>11, <1>12, ReceiveEffect

\* The callback keeps all three.
LEMMA ReceiveJoins ==
    ASSUME JoinInv, NEW c \in Channels, le_audio_rx_data_handler(c)
    PROVE  OrderInv' /\ PartsInv' /\ WholeInv'
<1>1. OrderInv' /\ PartsInv'
    BY ReceiveInOrder, ReceiveFits DEF JoinInv
<1>2. UNCHANGED <<location, rx_strm_state, streaming, sdu, held>>
    BY ReceiveEffect DEF JoinInv, env
<1>3. ASSUME Calm'
      PROVE  WholeInv'
    <2>1. /\ arrived' \subseteq streaming /\ rx_strm_state = "STREAMING"
          /\ WholeIn(held) /\ WholeIn(ble_q_rx')
          /\ SameTimestamp' => audio_frame'[1].locations = LocationsOf(arrived')
          /\ ~SameTimestamp' => arrived' = {} \/ arrived' = streaming
        BY <1>3, ReceiveWhole DEF JoinInv
    <2>2. WholeIn(held)' /\ WholeIn(ble_q_rx)' /\ LocationsOf(arrived)' = LocationsOf(arrived')
        BY <1>2, <2>1 DEF WholeIn, LocationsOf
    <2> QED
        BY <1>2, <2>1, <2>2 DEF WholeInv
<1> QED
    BY <1>1, <1>3 DEF WholeInv

\* The datapath thread takes the oldest frame.
LEMMA TakeJoins ==
    ASSUME JoinInv, Take
    PROVE  OrderInv' /\ PartsInv' /\ WholeInv'
<1> USE MaxSduAssumption
<1>1. /\ ble_q_rx # <<>> /\ held = <<>>
      /\ held' = <<Head(ble_q_rx)>> /\ ble_q_rx' = Tail(ble_q_rx)
      /\ UNCHANGED <<location, rx_strm_state, streaming, sdu, arrived, undisturbed, audio_frame>>
    BY DEF Take, env
<1>2. ble_q_rx \in Seq(Frame) /\ audio_frame \in Seq(Frame) /\ held \in Seq(Frame) /\ sdu \in Nat
    BY DEF JoinInv, Accounted, RxTypeOK
<1>3. InOrder(<<Head(ble_q_rx)>>, Tail(ble_q_rx), audio_frame, sdu)
    BY <1>1, <1>2, DropOldest DEF JoinInv, OrderInv
<1>4. OrderInv'
    BY <1>1, <1>3, Zenon DEF OrderInv
<1>5. PartsInv'
    BY <1>1 DEF JoinInv, PartsInv
<1>6. ASSUME Calm'
      PROVE  WholeInv'
    <2>1. Calm
        BY <1>1, <1>6, Zenon DEF Calm
    <2>2. WholeIn(ble_q_rx)
        BY <2>1 DEF JoinInv, WholeInv
    <2>3. WholeIn(Tail(ble_q_rx)) /\ WholeIn(<<Head(ble_q_rx)>>)
        BY <1>1, <1>2, <2>2, WholeTail
    <2>4. WholeIn(ble_q_rx)' /\ WholeIn(held)'
        BY <1>1, <2>3, Zenon DEF WholeIn, LocationsOf
    <2> QED
        BY <1>1, <2>1, <2>4 DEF JoinInv, WholeInv, SameTimestamp, LocationsOf
<1> QED
    BY <1>4, <1>5, <1>6 DEF WholeInv

\* Everything else: a frame is released, the next interval begins with nothing of it
\* anywhere, or what happens ends the calm.
LEMMA OthersJoin ==
    ASSUME JoinInv,
           \/ Release \/ NextInterval \/ UNCHANGED rxVars
           \/ \E s \in {"PAUSED", "STREAMING"} : StateSet(s)
           \/ \E c \in Channels : StreamStarts(c) \/ StreamStops(c)
    PROVE  OrderInv' /\ PartsInv' /\ WholeInv'
<1> USE MaxSduAssumption
<1>1. CASE Release
    <2>1. /\ held' = <<>>
          /\ UNCHANGED <<location, rx_strm_state, streaming, sdu, arrived, undisturbed,
                         audio_frame, ble_q_rx>>
        BY <1>1 DEF Release, env
    <2>2. Len(<<>>) = 0
        OBVIOUS
    <2>3. OrderInv' /\ PartsInv'
        BY <2>1, <2>2 DEF JoinInv, OrderInv, InOrder, Ordered, Before, UpTo, PartsInv
    <2>4. Calm' => Calm
        BY <2>1, Zenon DEF Calm
    <2>5. WholeIn(held)'
        BY <2>1, <2>2 DEF WholeIn
    <2>6. WholeIn(ble_q_rx)' <=> WholeIn(ble_q_rx)
        BY <2>1 DEF WholeIn, LocationsOf
    <2> QED
        BY <2>1, <2>3, <2>4, <2>5, <2>6 DEF JoinInv, WholeInv, SameTimestamp, LocationsOf
<1>2. CASE NextInterval
    <2>1. /\ sdu' = sdu + 1 /\ arrived' = {}
          /\ undisturbed' = (rx_strm_state = "STREAMING")
          /\ UNCHANGED <<location, rx_strm_state, streaming, audio_frame, ble_q_rx, held>>
        BY <1>2 DEF NextInterval
    <2>2. ASSUME NEW q \in Seq(Frame), NEW i \in 1..Len(q), UpTo(q, sdu)
          PROVE  q[i].ref_ts_us <= sdu' /\ q[i].ref_ts_us # sdu'
        <3>1. q[i] \in Frame
            BY ElementOfSeq
        <3>2. q[i].ref_ts_us \in Nat /\ sdu \in Nat
            BY <3>1 DEF Frame, JoinInv, Accounted, RxTypeOK
        <3>3. q[i].ref_ts_us <= sdu
            BY <2>2 DEF UpTo
        <3> QED
            BY <2>1, <3>2, <3>3
    <2>3. /\ held \in Seq(Frame) /\ ble_q_rx \in Seq(Frame) /\ audio_frame \in Seq(Frame)
          /\ Len(audio_frame) <= 1
        BY DEF JoinInv, Accounted, RxTypeOK
    <2>4. InOrder(held, ble_q_rx, audio_frame, sdu)
        BY DEF JoinInv, OrderInv
    <2>5. UpTo(held, sdu') /\ UpTo(ble_q_rx, sdu') /\ UpTo(audio_frame, sdu')
        BY <2>2, <2>3, <2>4 DEF InOrder, UpTo
    <2>6. OrderInv'
        BY <2>1, <2>4, <2>5 DEF OrderInv, InOrder
    <2>7. PartsInv'
        BY <2>1, <2>2, <2>3, <2>4 DEF JoinInv, PartsInv, InOrder
    <2>8. WholeIn(held)' /\ WholeIn(ble_q_rx)'
        BY <2>1, <2>2, <2>3, <2>4 DEF WholeIn, InOrder
    <2>9. ~SameTimestamp'
        BY <2>1, <2>2, <2>3, <2>4, OneOrNone DEF SameTimestamp, InOrder
    <2>10. Calm' => rx_strm_state = "STREAMING"
        BY <2>1 DEF Calm
    <2> QED
        BY <2>1, <2>6, <2>7, <2>8, <2>9, <2>10 DEF WholeInv
<1>3. CASE UNCHANGED rxVars
    BY <1>3 DEF rxVars, JoinInv, OrderInv, PartsInv, WholeInv, Calm, SameTimestamp, LocationsOf,
                WholeIn
<1>4. CASE \/ \E s \in {"PAUSED", "STREAMING"} : StateSet(s)
           \/ \E c \in Channels : StreamStarts(c) \/ StreamStops(c)
    <2>1. undisturbed' = FALSE /\ UNCHANGED <<sdu, arrived, audio_frame, ble_q_rx, held>>
        BY <1>4 DEF StateSet, StreamStarts, StreamStops, Disturbed
    <2> QED
        BY <2>1 DEF JoinInv, OrderInv, PartsInv, WholeInv, Calm
<1> QED
    BY <1>1, <1>2, <1>3, <1>4

\* What the datapath gets are the intervals in the order of their time stamps, whole while
\* nothing disturbs them, and none outgrows its buffer: for any number of streams and of
\* buffers, whichever way the datapath thread falls behind the callback.
THEOREM FramesAlwaysJoinedRight == RxSpec => []FramesJoinedRight
<1>1. RxInit => JoinInv
    <2> SUFFICES ASSUME RxInit PROVE JoinInv
        OBVIOUS
    <2>1. undisturbed = FALSE /\ audio_frame = <<>> /\ ble_q_rx = <<>> /\ held = <<>>
        BY DEF RxInit
    <2>2. Len(<<>>) = 0
        OBVIOUS
    <2>3. OrderInv /\ PartsInv
        BY <2>1, <2>2 DEF OrderInv, InOrder, Ordered, Before, UpTo, PartsInv
    <2>4. WholeInv
        BY <2>1 DEF WholeInv, Calm
    <2> QED
        BY <2>3, <2>4, AccountedAtStart DEF JoinInv
<1>2. JoinInv /\ [RxNext]_rxVars => JoinInv'
    <2> SUFFICES ASSUME JoinInv, [RxNext]_rxVars PROVE JoinInv'
        OBVIOUS
    <2>1. Accounted'
        BY AccountedKept DEF JoinInv
    <2>2. OrderInv' /\ PartsInv' /\ WholeInv'
        BY ReceiveJoins, TakeJoins, OthersJoin DEF RxNext
    <2> QED
        BY <2>1, <2>2 DEF JoinInv
<1>3. JoinInv => FramesJoinedRight
    <2> SUFFICES ASSUME JoinInv PROVE FrameFits /\ InTimestampOrder /\ FramesAreWhole
        BY DEF FramesJoinedRight
    <2>1. /\ audio_frame \in Seq(Frame) /\ ble_q_rx \in Seq(Frame) /\ held \in Seq(Frame)
          /\ DOMAIN audio_frame = 1..Len(audio_frame)
          /\ DOMAIN ble_q_rx = 1..Len(ble_q_rx) /\ DOMAIN held = 1..Len(held)
        BY DEF JoinInv, Accounted, RxTypeOK
    <2>2. FrameFits
        BY <2>1 DEF JoinInv, PartsInv, FrameFits
    <2>3. InTimestampOrder
        BY OrderedThroughout DEF JoinInv, Accounted
    <2>4. FramesAreWhole
        <3> SUFFICES ASSUME Calm,
                            NEW f \in {ble_q_rx[i] : i \in DOMAIN ble_q_rx}
                                      \cup {held[i] : i \in DOMAIN held},
                            f.ref_ts_us = sdu
                     PROVE  f.locations = LocationsOf(streaming)
            BY DEF FramesAreWhole, Calm, LocationsOf
        <3>1. WholeIn(ble_q_rx) /\ WholeIn(held)
            BY DEF JoinInv, WholeInv
        <3> QED
            BY <2>1, <3>1 DEF WholeIn
    <2> QED
        BY <2>2, <2>3, <2>4
<1> QED
    BY <1>1, <1>2, <1>3, PTL DEF RxSpec
=============================================================================
