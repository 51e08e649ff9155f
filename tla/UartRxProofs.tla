---------------------------- MODULE UartRxProofs ----------------------------
(* Theorems about UartRx for every byte width, buffer size and set of frames,  *)
(* noise included: the receive interrupt never writes or copies outside its    *)
(* buffers, and what it delivers is as long as its first byte says; and for    *)
(* frames the counters can carry, what it delivers is what the PC sent.        *)
EXTENDS UartRx, PaCmdParserProofs

\* While a frame is being received, its first byte and rx_expected agree.
HeaderAgrees ==
  rx_header_received => rx_buf[1] + 1 = rx_expected /\ rx_expected >= 2

\* Every property of the interrupt but FramesIntact, made inductive: the lengths
\* only stay consistent because rx_expected is what the first byte announced.
IInv ==
  /\ TypeOK
  /\ PositionInFrame
  /\ HeaderAgrees
  /\ DeliveredSelfConsistent
  /\ rx_frame_len <= Len(rx_frame)

LEMMA IInvInit == Init => IInv
<1> SUFFICES ASSUME Init PROVE IInv
  OBVIOUS
<1>1. 0 \in Bytes
  BY ParserAssumption DEF Bytes
<1>2. TypeOK
  <2>1. rx_header_received \in BOOLEAN
    BY Zenon DEF Init
  <2>2. << >> \in Seq(Bytes) /\ << >> \in Seq(Frames) /\ << >> \in Seq(Seq(Bytes))
    OBVIOUS
  <2> QED BY <1>1, <2>1, <2>2 DEF Init, TypeOK
<1>3. rx_buf = << >> /\ rx_pos = 0 /\ ~rx_header_received /\ rx_frame = << >>
      /\ rx_frame_len = 0 /\ delivered = << >>
  BY Zenon DEF Init
<1> QED BY <1>2, <1>3, UartAssumption
        DEF IInv, PositionInFrame, HeaderAgrees, DeliveredSelfConsistent

LEMMA StepSend ==
  ASSUME IInv, NEW f \in Frames, PcSend(f) PROVE IInv'
<1>1. f \in Seq(Bytes)
  BY UartAssumption
<1>2. UNCHANGED <<rx_buf, rx_pos, rx_expected, rx_header_received, rx_frame, rx_frame_len,
                  delivered>>
  BY DEF PcSend
<1>3. sent' \in Seq(Frames) /\ line' \in Seq(Bytes)
  BY <1>1 DEF PcSend, IInv, TypeOK
<1> QED BY <1>2, <1>3
        DEF IInv, TypeOK, PositionInFrame, HeaderAgrees, DeliveredSelfConsistent

\* Taking a byte from the line leaves a line of bytes.
LEMMA LineType ==
  ASSUME line \in Seq(Bytes), line # << >>
  PROVE  Head(line) \in Bytes /\ Tail(line) \in Seq(Bytes)
  BY HeadTailProperties

\* A total that is valid has not wrapped.
LEMMA TotalType ==
  ASSUME NEW byte \in Bytes
  PROVE  /\ Total(byte) \in Bytes
         /\ ValidTotal(Total(byte)) => Total(byte) = byte + 1 /\ Total(byte) >= 2
<1>1. byte \in Nat /\ byte < BYTE /\ BYTE \in Nat /\ BYTE > 3
  BY ParserAssumption DEF Bytes
<1>2. CASE byte + 1 < BYTE
  <2>1. (byte + 1) % BYTE = byte + 1
    BY <1>1, <1>2, SmallMod
  <2> QED BY <1>1, <1>2, <2>1 DEF Total, ValidTotal, Bytes
<1>3. CASE byte + 1 = BYTE
  <2>1. BYTE % BYTE = 0
    BY <1>1
  <2> QED BY <1>1, <1>3, <2>1 DEF Total, ValidTotal, Bytes
<1> QED BY <1>1, <1>2, <1>3

LEMMA StepHeader == IInv /\ HeaderByte => IInv'
<1> SUFFICES ASSUME IInv, HeaderByte PROVE IInv'
  OBVIOUS
<1> DEFINE byte  == Head(line)
           valid == ValidTotal(Total(byte))
<1>1. byte \in Bytes /\ line' \in Seq(Bytes)
  BY LineType DEF HeaderByte, IInv, TypeOK
<1>2. /\ Total(byte) \in Bytes
      /\ valid => Total(byte) = byte + 1 /\ Total(byte) >= 2
  BY <1>1, TotalType
<1>3. /\ rx_expected' = Total(byte)
      /\ rx_pos' = IF valid THEN 1 ELSE 0
      /\ rx_buf' = IF valid THEN <<byte>> ELSE << >>
      /\ UNCHANGED <<rx_frame, rx_frame_len, delivered, sent>>
  BY DEF HeaderByte
<1>4. rx_header_received' = valid /\ rx_header_received' \in BOOLEAN
  <2>1. valid \in BOOLEAN
    BY DEF ValidTotal
  <2>2. rx_header_received' = valid
    BY Zenon DEF HeaderByte
  <2> QED BY <2>1, <2>2
<1>5. 0 \in Bytes /\ 1 \in Bytes
  BY ParserAssumption DEF Bytes
<1>6. TypeOK'
  BY <1>1, <1>2, <1>3, <1>4, <1>5 DEF IInv, TypeOK
<1>7. /\ rx_pos' = Len(rx_buf')
      /\ rx_header_received' => rx_pos' = 1 /\ rx_expected' >= 2 /\ rx_buf'[1] + 1 = rx_expected'
  BY <1>1, <1>2, <1>3, <1>4
<1>8. PositionInFrame' /\ HeaderAgrees'
  <2>1. rx_expected' \in Nat
    BY <1>6, BytesAreNaturals DEF TypeOK
  <2> QED BY <1>3, <1>7, <2>1 DEF IInv, PositionInFrame, HeaderAgrees
<1>9. DeliveredSelfConsistent' /\ (rx_frame_len <= Len(rx_frame))'
  BY <1>3 DEF IInv, DeliveredSelfConsistent
<1> QED BY <1>6, <1>8, <1>9 DEF IInv

LEMMA StepBody == IInv /\ BodyByte => IInv'
<1> SUFFICES ASSUME IInv, BodyByte PROVE IInv'
  OBVIOUS
<1> DEFINE byte == Head(line)
           new  == Append(rx_buf, byte)
           over == new \o SubSeq(rx_frame, Len(new) + 1, Len(rx_frame))
<1>1. byte \in Bytes /\ line' \in Seq(Bytes)
  BY LineType DEF BodyByte, IInv, TypeOK
<1>2. /\ rx_pos \in Nat /\ rx_expected \in Nat /\ rx_expected < BYTE
      /\ BYTE \in Nat /\ UART_RX_BUF_SIZE \in Nat /\ UART_RX_BUF_SIZE >= BYTE
  BY ParserAssumption, UartAssumption DEF IInv, TypeOK, Bytes
<1>3. /\ rx_pos = Len(rx_buf) /\ rx_pos < rx_expected /\ rx_pos >= 1
      /\ rx_buf[1] + 1 = rx_expected /\ rx_expected >= 2
  BY DEF BodyByte, IInv, PositionInFrame, HeaderAgrees
<1>4. rx_pos < UART_RX_BUF_SIZE /\ (rx_pos + 1) % BYTE = rx_pos + 1
  <2>1. rx_pos + 1 < BYTE /\ rx_pos + 1 \in Nat
    BY <1>2, <1>3
  <2> QED BY <1>2, <2>1, SmallMod
<1>5. /\ new \in Seq(Bytes) /\ Len(new) = rx_pos + 1 /\ new[1] = rx_buf[1]
      /\ Len(new) \in Bytes
  <2>1. rx_buf \in Seq(Bytes)
    BY DEF IInv, TypeOK
  <2>2. rx_pos + 1 \in Bytes
    BY <1>2, <1>3 DEF Bytes
  <2> QED BY <1>1, <1>2, <1>3, <2>1, <2>2
<1>6. UNCHANGED <<rx_expected, sent>>
  BY DEF BodyByte
<1>7. CASE rx_pos + 1 >= rx_expected
  <2>1. /\ rx_frame' = over /\ rx_frame_len' = rx_pos + 1
        /\ delivered' = Append(delivered, new)
        /\ rx_pos' = 0 /\ rx_buf' = << >>
    BY <1>4, <1>7 DEF BodyByte
  <2>2. rx_header_received' = FALSE
    BY <1>4, <1>7, Zenon DEF BodyByte
  <2>3. /\ over \in Seq(Bytes)
        /\ Len(over) = IF Len(new) >= Len(rx_frame) THEN Len(new) ELSE Len(rx_frame)
        /\ over[1] = new[1]
    <3>1. rx_frame \in Seq(Bytes) /\ new # << >>
      <4>1. rx_frame \in Seq(Bytes)
        BY DEF IInv, TypeOK
      <4>2. Len(new) # 0
        BY <1>2, <1>5
      <4> QED BY <4>1, <4>2
    <3> HIDE DEF new
    <3> QED BY <1>5, <3>1, OverlayExact
  <2>4. 0 \in Bytes
    BY ParserAssumption DEF Bytes
  <2>5. delivered' \in Seq(Seq(Bytes))
    BY <1>5, <2>1 DEF IInv, TypeOK
  <2>6. TypeOK'
    <3>1. /\ rx_buf' \in Seq(Bytes) /\ rx_pos' \in Bytes /\ rx_frame' \in Seq(Bytes)
          /\ rx_frame_len' \in Bytes /\ rx_header_received' \in BOOLEAN
      <4>1. << >> \in Seq(Bytes)
        OBVIOUS
      <4>2. rx_buf' \in Seq(Bytes) /\ rx_pos' \in Bytes /\ rx_header_received' \in BOOLEAN
        BY <2>1, <2>2, <2>4, <4>1
      <4>3. rx_frame' \in Seq(Bytes) /\ rx_frame_len' \in Bytes
        BY <1>5, <2>1, <2>3
      <4> QED BY <4>2, <4>3
    <3>2. rx_expected' \in Bytes /\ sent' \in Seq(Frames)
      BY <1>6 DEF IInv, TypeOK
    <3> QED BY <1>1, <2>5, <3>1, <3>2 DEF TypeOK
  <2>7. new[1] + 1 = Len(new)
    BY <1>2, <1>3, <1>5, <1>7
  <2>8. Len(over) <= UART_RX_BUF_SIZE /\ rx_frame_len' <= Len(over)
    <3>1. Len(rx_frame) \in Nat /\ Len(rx_frame) <= UART_RX_BUF_SIZE
      BY DEF IInv, TypeOK, PositionInFrame
    <3>2. Len(new) <= UART_RX_BUF_SIZE /\ Len(new) = rx_frame_len'
      BY <1>2, <1>3, <1>5, <2>1
    <3>3. Len(new) \in Nat
      BY <1>2, <1>5
    <3> HIDE DEF new, over
    <3> QED BY <1>2, <2>3, <3>1, <3>2, <3>3
  <2>9. PositionInFrame' /\ HeaderAgrees'
    BY <2>1, <2>2, <2>8 DEF PositionInFrame, HeaderAgrees
  <2>10. DeliveredSelfConsistent'
    <3>1. rx_frame'[1] + 1 = rx_frame_len'
      BY <1>5, <2>1, <2>3, <2>7
    <3>2. ASSUME NEW i \in 1 .. Len(delivered') PROVE delivered'[i][1] + 1 = Len(delivered'[i])
      <4>1. delivered \in Seq(Seq(Bytes))
        BY DEF IInv, TypeOK
      <4>2. CASE i = Len(delivered) + 1
        BY <2>1, <2>7, <4>1, <4>2
      <4>3. CASE i # Len(delivered) + 1
        <5>1. i \in 1 .. Len(delivered) /\ delivered'[i] = delivered[i]
          BY <2>1, <4>1, <4>3
        <5> QED BY <5>1 DEF IInv, DeliveredSelfConsistent
      <4> QED BY <4>2, <4>3
    <3> QED BY <3>1, <3>2 DEF DeliveredSelfConsistent
  <2> QED BY <2>1, <2>6, <2>8, <2>9, <2>10 DEF IInv
<1>8. CASE ~(rx_pos + 1 >= rx_expected)
  <2>1. /\ rx_pos' = rx_pos + 1 /\ rx_buf' = new
        /\ UNCHANGED <<rx_header_received, rx_frame, rx_frame_len, delivered>>
    BY <1>4, <1>8 DEF BodyByte
  <2>2. TypeOK'
    BY <1>1, <1>5, <1>6, <2>1 DEF IInv, TypeOK
  <2>3. PositionInFrame' /\ HeaderAgrees'
    <3>1. rx_pos' = Len(rx_buf') /\ rx_pos' < rx_expected' /\ rx_pos' >= 1
          /\ rx_buf'[1] + 1 = rx_expected' /\ rx_expected' >= 2
      BY <1>2, <1>3, <1>5, <1>6, <1>8, <2>1
    <3> QED BY <2>1, <3>1 DEF IInv, PositionInFrame, HeaderAgrees
  <2> QED BY <2>1, <2>2, <2>3 DEF IInv, DeliveredSelfConsistent
<1> QED BY <1>7, <1>8

LEMMA IInvStep == IInv /\ [Next]_vars => IInv'
<1> SUFFICES ASSUME IInv, [Next]_vars PROVE IInv'
  OBVIOUS
<1>1. ASSUME NEW f \in Frames, PcSend(f) PROVE IInv'
  BY <1>1, StepSend
<1>2. CASE HeaderByte
  BY <1>2, StepHeader
<1>3. CASE BodyByte
  BY <1>3, StepBody
<1>4. CASE UNCHANGED vars
  BY <1>4 DEF vars, IInv, TypeOK, PositionInFrame, HeaderAgrees, DeliveredSelfConsistent
<1> QED BY <1>1, <1>2, <1>3, <1>4 DEF Next

LEMMA IInvAlways == Spec => []IInv
  BY IInvInit, IInvStep, PTL DEF Spec

\* The 8-bit counters never wrap and the interrupt never leaves its buffers,
\* whatever bytes the line carries.
THEOREM NoOverrun == Spec => []PositionInFrame
<1>1. IInv => PositionInFrame
  BY DEF IInv
<1> QED BY <1>1, IInvAlways, PTL

\* Every frame handed to the service is as long as its first byte says.
THEOREM FramesSelfConsistent == Spec => []DeliveredSelfConsistent
<1>1. IInv => DeliveredSelfConsistent
  BY DEF IInv
<1> QED BY <1>1, IInvAlways, PTL

\* pa_cmd_parse() never accepts a payload that reaches past the bytes received.
THEOREM PayloadInFrame == Spec => []AcceptedDataInFrame
<1>1. IInv => AcceptedDataInFrame
  <2> SUFFICES ASSUME IInv, ParseResult(rx_frame, rx_frame_len) = 0,
                      OpCode(rx_frame) = DATA_SEND_REQ
               PROVE  4 + DataLength(rx_frame) <= rx_frame_len
    BY DEF AcceptedDataInFrame
  <2>1. rx_frame \in Seq(Bytes) /\ rx_frame_len \in 0 .. Len(rx_frame)
    BY BytesAreNaturals DEF IInv, TypeOK
  <2> QED BY <2>1, ParsedDataInFrame
<1> QED BY <1>1, IInvAlways, PTL
-----------------------------------------------------------------------------
(* Receiver and sender agree on where a frame begins *)

AllWellFormed == \A i \in 1 .. Len(sent) : WellFormed(sent[i])

\* As long as all is well formed, the frame on the line is split between the buffer
\* and what has not arrived, and every earlier one has been delivered.
InSync ==
  \/ line = << >> /\ ~rx_header_received /\ delivered = sent
  \/ /\ line # << >>
     /\ sent = Append(delivered, rx_buf \o line)
     /\ rx_header_received <=> rx_buf # << >>

SyncInv ==
  /\ ~rx_header_received => rx_buf = << >>
  /\ AllWellFormed => InSync

\* A byte that arrives moves from the line to the buffer.
LEMMA ByteArrives ==
  ASSUME NEW buf \in Seq(Bytes), NEW rest \in Seq(Bytes), rest # << >>
  PROVE  /\ buf \o rest = Append(buf, Head(rest)) \o Tail(rest)
         /\ Tail(rest) = << >> => buf \o rest = Append(buf, Head(rest))
         /\ Len(Tail(rest)) = Len(rest) - 1
         /\ Append(buf, Head(rest)) \in Seq(Bytes) /\ Append(buf, Head(rest)) # << >>
<1> DEFINE new == Append(buf, Head(rest))
<1>1. /\ Head(rest) \in Bytes /\ Tail(rest) \in Seq(Bytes) /\ Len(Tail(rest)) = Len(rest) - 1
      /\ Head(rest) = rest[1] /\ \A i \in 1 .. Len(Tail(rest)) : Tail(rest)[i] = rest[i + 1]
      /\ Len(rest) \in Nat \ {0} /\ Len(buf) \in Nat
  OBVIOUS
<1>2. /\ new \in Seq(Bytes) /\ Len(new) = Len(buf) + 1 /\ new # << >>
      /\ new[Len(buf) + 1] = rest[1] /\ \A i \in 1 .. Len(buf) : new[i] = buf[i]
  BY <1>1
<1> HIDE DEF new
<1>3. /\ buf \o rest \in Seq(Bytes) /\ Len(buf \o rest) = Len(buf) + Len(rest)
      /\ \A i \in 1 .. Len(buf) : (buf \o rest)[i] = buf[i]
      /\ \A i \in Len(buf) + 1 .. Len(buf) + Len(rest) : (buf \o rest)[i] = rest[i - Len(buf)]
  BY ConcatProperties
<1>4. /\ new \o Tail(rest) \in Seq(Bytes)
      /\ Len(new \o Tail(rest)) = Len(buf) + Len(rest)
      /\ \A i \in 1 .. Len(buf) + 1 : (new \o Tail(rest))[i] = new[i]
      /\ \A i \in Len(buf) + 2 .. Len(buf) + Len(rest) :
            (new \o Tail(rest))[i] = Tail(rest)[i - (Len(buf) + 1)]
  <2> DEFINE tl == Tail(rest)
  <2>1. tl \in Seq(Bytes) /\ Len(tl) = Len(rest) - 1
    BY <1>1
  <2> HIDE DEF tl
  <2>2. /\ new \o tl \in Seq(Bytes) /\ Len(new \o tl) = Len(new) + Len(tl)
        /\ \A i \in 1 .. Len(new) : (new \o tl)[i] = new[i]
        /\ \A i \in Len(new) + 1 .. Len(new) + Len(tl) : (new \o tl)[i] = tl[i - Len(new)]
    <3>1. /\ new \o tl \in Seq(Bytes) /\ Len(new \o tl) = Len(new) + Len(tl)
          /\ \A i \in 1 .. Len(new) + Len(tl) :
               (new \o tl)[i] = IF i <= Len(new) THEN new[i] ELSE tl[i - Len(new)]
      BY <1>2, <2>1, ConcatProperties, Zenon
    <3>2. Len(new) \in Nat /\ Len(tl) \in Nat
      BY <1>2, <2>1, LenProperties
    <3> QED BY <3>1, <3>2
  <2>3. Len(new) = Len(buf) + 1 /\ Len(new) + Len(tl) = Len(buf) + Len(rest)
    BY <1>1, <1>2, <2>1
  <2>4. (Len(buf) + 1) + 1 = Len(buf) + 2
    BY <1>1
  <2> QED BY <2>2, <2>3, <2>4, Zenon DEF tl
<1>5. ASSUME NEW i \in 1 .. Len(buf) + Len(rest)
      PROVE  (buf \o rest)[i] = (new \o Tail(rest))[i]
  <2>1. CASE i <= Len(buf)
    BY <1>1, <1>2, <1>3, <1>4, <2>1
  <2>2. CASE i = Len(buf) + 1
    BY <1>1, <1>2, <1>3, <1>4, <2>2
  <2>3. CASE i >= Len(buf) + 2
    <3>1. i - (Len(buf) + 1) \in 1 .. Len(Tail(rest))
      BY <1>1, <2>3
    <3>2. Tail(rest)[i - (Len(buf) + 1)] = rest[(i - (Len(buf) + 1)) + 1]
      BY <1>1, <3>1
    <3>3. (i - (Len(buf) + 1)) + 1 = i - Len(buf)
      BY <1>1
    <3> QED BY <1>1, <1>3, <1>4, <2>3, <3>2, <3>3
  <2>4. i \in Int /\ Len(buf) \in Int
    BY <1>1
  <2>5. i <= Len(buf) \/ i = Len(buf) + 1 \/ i >= Len(buf) + 2
    BY ONLY <2>4
  <2> QED BY <2>1, <2>2, <2>3, <2>5
<1>6. buf \o rest = new \o Tail(rest)
  BY <1>1, <1>3, <1>4, <1>5, SeqEqual
<1>7. Tail(rest) = << >> => new \o Tail(rest) = new
  BY <1>2, ConcatEmptySeq
<1> QED BY <1>1, <1>2, <1>6, <1>7 DEF new

\* The length of the frame under way, which its first byte announces.
LEMMA FrameUnderWay ==
  ASSUME IInv, AllWellFormed, InSync, line # << >>
  PROVE  LET f == rx_buf \o line
         IN  /\ f \in Frames /\ WellFormed(f) /\ f \in Seq(Bytes)
             /\ Len(f) = Len(rx_buf) + Len(line)
             /\ Len(rx_buf) \in Nat /\ Len(line) \in Nat \ {0}
             /\ rx_buf # << >> => f[1] = rx_buf[1]
             /\ rx_buf = << >> => f = line
<1> DEFINE f == rx_buf \o line
<1>1. rx_buf \in Seq(Bytes) /\ line \in Seq(Bytes) /\ delivered \in Seq(Seq(Bytes))
      /\ sent \in Seq(Frames)
  BY DEF IInv, TypeOK
<1>2. f \in Seq(Bytes) /\ Len(f) = Len(rx_buf) + Len(line)
      /\ rx_buf # << >> => f[1] = rx_buf[1]
  BY <1>1, ConcatProperties
<1>3. rx_buf = << >> => f = line
  BY <1>1, ConcatEmptySeq
<1> HIDE DEF f
<1>4. sent = Append(delivered, f)
  BY DEF InSync, f
<1>5. Len(sent) = Len(delivered) + 1 /\ sent[Len(sent)] = f /\ Len(sent) \in 1 .. Len(sent)
  BY <1>1, <1>2, <1>4
<1>6. f \in Frames /\ WellFormed(f)
  BY <1>1, <1>5 DEF AllWellFormed
<1> QED BY <1>1, <1>2, <1>3, <1>6 DEF f

LEMMA SyncSend ==
  ASSUME IInv, SyncInv, NEW f \in Frames, PcSend(f) PROVE SyncInv'
<1>1. /\ line = << >> /\ sent' = Append(sent, f) /\ line' = f
      /\ UNCHANGED <<rx_buf, rx_header_received, delivered>>
      /\ f \in Seq(Bytes) /\ f # << >> /\ sent \in Seq(Frames)
  BY UartAssumption DEF PcSend, IInv, TypeOK
<1>2. AllWellFormed' => AllWellFormed
  BY <1>1 DEF AllWellFormed
<1>3. ASSUME AllWellFormed' PROVE InSync'
  <2>1. ~rx_header_received /\ delivered = sent /\ rx_buf = << >>
    BY <1>1, <1>2, <1>3, Zenon DEF SyncInv, InSync
  <2>2. rx_buf \o f = f
    BY <1>1, <2>1, ConcatEmptySeq
  <2>3. sent' = Append(delivered', rx_buf' \o line') /\ line' # << >>
    BY <1>1, <2>1, <2>2
  <2> QED BY <1>1, <2>1, <2>3 DEF InSync
<1> QED BY <1>1, <1>3, Zenon DEF SyncInv

LEMMA SyncHeader ==
  ASSUME \A f \in Frames : WellFormed(f) => Len(f) < BYTE, IInv, SyncInv, HeaderByte
  PROVE  SyncInv'
<1> DEFINE byte  == Head(line)
           valid == ValidTotal(Total(byte))
<1>1. /\ line # << >> /\ rx_buf = << >> /\ ~rx_header_received
      /\ rx_header_received' = valid
  BY Zenon DEF HeaderByte, SyncInv
<1>2. /\ rx_buf' = IF valid THEN <<byte>> ELSE << >>
      /\ line' = Tail(line) /\ UNCHANGED <<delivered, sent>>
  BY DEF HeaderByte
<1>3. ~rx_header_received' => rx_buf' = << >>
  BY <1>1, <1>2
<1>4. ASSUME AllWellFormed' PROVE InSync'
  <2>1. AllWellFormed /\ InSync
    BY <1>2, <1>4 DEF AllWellFormed, SyncInv
  <2>2. /\ line \in Frames /\ WellFormed(line) /\ line \in Seq(Bytes)
        /\ rx_buf \o line = line /\ sent = Append(delivered, rx_buf \o line)
    BY <1>1, <2>1, FrameUnderWay DEF InSync
  <2>3. byte \in Bytes /\ byte + 1 = Len(line) /\ Len(line) > 1 /\ Len(line) < BYTE
    BY <2>2 DEF WellFormed
  <2>4. byte \in Nat /\ BYTE \in Nat /\ UART_RX_BUF_SIZE \in Nat /\ UART_RX_BUF_SIZE >= BYTE
    BY <2>3, BytesAreNaturals, ParserAssumption, UartAssumption
  <2>5. Total(byte) = byte + 1
    <3>1. byte + 1 \in Nat /\ byte + 1 < BYTE
      BY <2>3, <2>4
    <3> QED BY <2>4, <3>1, SmallMod DEF Total
  <2>6. valid
    BY <2>3, <2>4, <2>5 DEF ValidTotal
  <2>7. rx_buf' = Append(rx_buf, byte) /\ rx_buf' # << >>
    BY <1>1, <1>2, <2>6
  <2>8. /\ rx_buf \o line = rx_buf' \o line' /\ Len(line') = Len(line) - 1
        /\ line' \in Seq(Bytes)
    <3>1. rx_buf \in Seq(Bytes)
      BY <1>1
    <3> HIDE DEF byte
    <3>2. rx_buf \o line = Append(rx_buf, Head(line)) \o Tail(line)
          /\ Len(Tail(line)) = Len(line) - 1
      BY <1>1, <2>2, <3>1, ByteArrives
    <3> QED BY <1>1, <1>2, <2>2, <2>7, <3>2, HeadTailProperties DEF byte
  <2>9. line' # << >>
    <3>1. Len(line') # 0
      BY <2>3, <2>8
    <3> QED BY <3>1
  <2>10. sent' = Append(delivered', rx_buf' \o line')
    BY <1>2, <2>2, <2>8
  <2>11. rx_header_received'
    BY <1>1, <2>6, Zenon
  <2> QED BY <2>7, <2>9, <2>10, <2>11, Zenon DEF InSync
<1> QED BY <1>3, <1>4, Zenon DEF SyncInv

LEMMA MoreToCome ==
  ASSUME NEW have \in Nat, NEW rest \in Nat, NEW total \in Nat,
         have + rest = total, ~(have + 1 >= total)
  PROVE  rest # 1
  OBVIOUS

LEMMA SyncBody ==
  ASSUME IInv, SyncInv, BodyByte PROVE SyncInv'
<1> DEFINE new == Append(rx_buf, Head(line))
<1>1. /\ line # << >> /\ rx_header_received /\ rx_buf \in Seq(Bytes) /\ line \in Seq(Bytes)
      /\ line' = Tail(line) /\ sent' = sent
  BY DEF BodyByte, IInv, TypeOK
<1>2. /\ rx_pos \in Nat /\ rx_expected \in Nat /\ rx_expected < BYTE
      /\ BYTE \in Nat /\ UART_RX_BUF_SIZE \in Nat /\ UART_RX_BUF_SIZE >= BYTE
      /\ rx_pos = Len(rx_buf) /\ rx_pos < rx_expected /\ rx_buf[1] + 1 = rx_expected
      /\ rx_pos >= 1
  BY <1>1, ParserAssumption, UartAssumption
     DEF IInv, TypeOK, Bytes, PositionInFrame, HeaderAgrees
<1>3. rx_pos < UART_RX_BUF_SIZE /\ (rx_pos + 1) % BYTE = rx_pos + 1
  <2>1. rx_pos + 1 < BYTE /\ rx_pos + 1 \in Nat
    BY <1>2
  <2> QED BY <1>2, <2>1, SmallMod
<1>4. CASE rx_pos + 1 >= rx_expected
  <2>1. /\ delivered' = Append(delivered, new) /\ rx_buf' = << >>
    BY <1>3, <1>4 DEF BodyByte
  <2>2. ~rx_header_received'
    BY <1>3, <1>4, Zenon DEF BodyByte
  <2>3. ASSUME AllWellFormed' PROVE InSync'
    <3>1. AllWellFormed /\ InSync
      BY <1>1, <2>3 DEF AllWellFormed, SyncInv
    <3>2. /\ WellFormed(rx_buf \o line) /\ Len(rx_buf \o line) = Len(rx_buf) + Len(line)
          /\ (rx_buf \o line)[1] = rx_buf[1] /\ Len(line) \in Nat \ {0}
      <4>1. rx_buf # << >>
        BY <1>2
      <4> QED BY <1>1, <3>1, <4>1, FrameUnderWay
    <3>3. Len(line) = 1
      <4>1. Len(rx_buf) + Len(line) = rx_buf[1] + 1
        BY <3>2, Zenon DEF WellFormed
      <4> QED BY <1>2, <1>4, <3>2, <4>1
    <3>4. line' = << >>
      BY <1>1, <3>3
    <3>5. sent = Append(delivered, rx_buf \o line)
      BY <1>1, <3>1 DEF InSync
    <3>6. rx_buf \o line = new
      BY <1>1, <3>4, ByteArrives
    <3> QED BY <1>1, <2>1, <2>2, <3>4, <3>5, <3>6, Zenon DEF InSync
  <2> QED BY <2>1, <2>2, <2>3, Zenon DEF SyncInv
<1>5. CASE ~(rx_pos + 1 >= rx_expected)
  <2>1. /\ rx_buf' = new /\ UNCHANGED <<rx_header_received, delivered>>
    BY <1>3, <1>5 DEF BodyByte
  <2>2. ASSUME AllWellFormed' PROVE InSync'
    <3>1. AllWellFormed /\ InSync
      BY <1>1, <2>2 DEF AllWellFormed, SyncInv
    <3>2. /\ WellFormed(rx_buf \o line) /\ Len(rx_buf \o line) = Len(rx_buf) + Len(line)
          /\ (rx_buf \o line)[1] = rx_buf[1] /\ Len(line) \in Nat \ {0}
      <4>1. rx_buf # << >>
        BY <1>2
      <4> QED BY <1>1, <3>1, <4>1, FrameUnderWay
    <3>3. Len(line) # 1
      <4>1. Len(rx_buf) + Len(line) = rx_buf[1] + 1
        BY <3>2, Zenon DEF WellFormed
      <4>2. Len(rx_buf) + Len(line) = rx_expected /\ ~(Len(rx_buf) + 1 >= rx_expected)
        BY <1>2, <1>5, <4>1, Zenon
      <4>3. Len(rx_buf) \in Nat /\ Len(line) \in Nat
        BY <1>1, LenProperties
      <4> QED BY <1>2, <4>2, <4>3, MoreToCome, Zenon
    <3>4. /\ rx_buf \o line = new \o line' /\ Len(line') = Len(line) - 1 /\ new # << >>
      BY <1>1, ByteArrives
    <3>5. line' # << >>
      <4>1. Len(line') # 0
        BY <3>2, <3>3, <3>4
      <4> QED BY <4>1
    <3>6. sent = Append(delivered, rx_buf \o line)
      BY <1>1, <3>1 DEF InSync
    <3> QED BY <1>1, <2>1, <3>4, <3>5, <3>6, Zenon DEF InSync
  <2> QED BY <1>1, <2>1, <2>2, Zenon DEF SyncInv
<1> QED BY <1>4, <1>5

\* What was sent is what was delivered, frame by frame, as long as every frame is
\* built as the PC is told to; of those, only one of 256 bytes is out of reach, whose
\* total wraps to 0 and which the receiver drops.
THEOREM FramesDeliveredIntact ==
  ASSUME \A f \in Frames : WellFormed(f) => Len(f) < BYTE
  PROVE  Spec => []FramesIntact
<1>1. Init => SyncInv
  <2>1. ASSUME Init
        PROVE  /\ line = << >> /\ ~rx_header_received /\ delivered = sent /\ rx_buf = << >>
    BY <2>1, Zenon DEF Init
  <2> QED BY <2>1, Zenon DEF SyncInv, InSync
<1>2. IInv /\ SyncInv /\ [Next]_vars => SyncInv'
  <2> SUFFICES ASSUME IInv, SyncInv, [Next]_vars PROVE SyncInv'
    OBVIOUS
  <2>1. ASSUME NEW f \in Frames, PcSend(f) PROVE SyncInv'
    BY <2>1, SyncSend
  <2>2. CASE HeaderByte
    BY <2>2, SyncHeader
  <2>3. CASE BodyByte
    BY <2>3, SyncBody
  <2>4. CASE UNCHANGED vars
    BY <2>4 DEF vars, SyncInv, AllWellFormed, InSync
  <2> QED BY <2>1, <2>2, <2>3, <2>4 DEF Next
<1>3. SyncInv => FramesIntact
  BY Zenon DEF SyncInv, InSync, AllWellFormed, FramesIntact
<1> QED BY <1>1, <1>2, <1>3, IInvAlways, PTL DEF Spec
=============================================================================
