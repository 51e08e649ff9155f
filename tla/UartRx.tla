------------------------------- MODULE UartRx -------------------------------
(* The byte-level framing of src/adapters/zephyr_uart_adapter.c: the receive   *)
(* interrupt collects Command_Length bytes after the length byte, copies the   *)
(* frame out and starts over. There is no checksum, no escape and no           *)
(* inter-byte timeout, so receiver and sender must agree for ever on where a   *)
(* frame begins. The counters are uint8_t.                                     *)
EXTENDS PaCmdParser

CONSTANTS UART_RX_BUF_SIZE,   \* 260
          Frames,             \* the frames the PC may send, as byte sequences
          MaxFrames           \* bound: frames sent

ASSUME UartAssumption ==
  /\ UART_RX_BUF_SIZE \in Nat /\ UART_RX_BUF_SIZE >= BYTE
  /\ Frames \subseteq Seq(Bytes)
  /\ \A f \in Frames : f # << >>
  /\ MaxFrames \in Nat

VARIABLES
  rx_buf,              \* the bytes collected so far: rx_buf[0 .. rx_pos - 1]
  rx_pos, rx_expected, rx_header_received,
  rx_frame, rx_frame_len,      \* the complete frame, and its length
  delivered,           \* the frames completed so far
  sent,                \* the frames the PC has started to send
  line                 \* the bytes of the last of them that have not arrived

vars == <<rx_buf, rx_pos, rx_expected, rx_header_received, rx_frame, rx_frame_len,
          delivered, sent, line>>

\* adapter_init()
Init ==
  /\ rx_buf = << >> /\ rx_pos = 0 /\ rx_expected = 0 /\ rx_header_received = FALSE
  /\ rx_frame = << >> /\ rx_frame_len = 0
  /\ delivered = << >> /\ sent = << >> /\ line = << >>

\* The PC starts a frame; it sends frames back to back.
PcSend(f) ==
  /\ line = << >> /\ Len(sent) < MaxFrames
  /\ sent' = Append(sent, f)
  /\ line' = f
  /\ UNCHANGED <<rx_buf, rx_pos, rx_expected, rx_header_received, rx_frame, rx_frame_len,
                 delivered>>

\* Mutant: the total does not include the length byte itself.
TotalWithoutLength(byte) == byte % BYTE

\* The total announced by a length byte, in a uint8_t.
Total(byte) == (byte + 1) % BYTE

\* Mutant: an empty command is taken for a frame.
ValidTotalNonZero(total) == total > 0 /\ total <= UART_RX_BUF_SIZE

\* Mutant: no lower limit, so that a wrapped total passes.
ValidTotalFits(total) == total <= UART_RX_BUF_SIZE

\* A length byte whose total is 1 or less (or too long for the buffer) is dropped.
ValidTotal(total) == total > 1 /\ total <= UART_RX_BUF_SIZE

HeaderByte ==
  LET byte  == Head(line)
      valid == ValidTotal(Total(byte))
  IN  /\ line # << >> /\ ~rx_header_received
      /\ rx_expected' = Total(byte)
      /\ rx_header_received' = valid
      /\ rx_pos' = IF valid THEN 1 ELSE 0
      /\ rx_buf' = IF valid THEN <<byte>> ELSE << >>
      /\ line' = Tail(line)
      /\ UNCHANGED <<rx_frame, rx_frame_len, delivered, sent>>

\* A further byte; the one that completes the frame copies it out.
BodyByte ==
  LET fits == rx_pos < UART_RX_BUF_SIZE
      pos  == IF fits THEN (rx_pos + 1) % BYTE ELSE rx_pos
      buf  == IF fits THEN Append(rx_buf, Head(line)) ELSE rx_buf
  IN  /\ line # << >> /\ rx_header_received
      /\ IF pos >= rx_expected
         THEN /\ rx_frame' = buf \o SubSeq(rx_frame, Len(buf) + 1, Len(rx_frame))
              /\ rx_frame_len' = pos
              /\ delivered' = Append(delivered, buf)
              /\ rx_header_received' = FALSE /\ rx_pos' = 0 /\ rx_buf' = << >>
         ELSE /\ rx_pos' = pos /\ rx_buf' = buf
              /\ UNCHANGED <<rx_header_received, rx_frame, rx_frame_len, delivered>>
      /\ line' = Tail(line)
      /\ UNCHANGED <<rx_expected, sent>>

Next == (\E f \in Frames : PcSend(f)) \/ HeaderByte \/ BodyByte

Spec == Init /\ [][Next]_vars

-----------------------------------------------------------------------------
(* Properties *)

TypeOK ==
  /\ rx_buf \in Seq(Bytes)
  /\ rx_pos \in Bytes /\ rx_expected \in Bytes
  /\ rx_header_received \in BOOLEAN
  /\ rx_frame \in Seq(Bytes) /\ rx_frame_len \in Bytes
  /\ delivered \in Seq(Seq(Bytes))
  /\ sent \in Seq(Frames)
  /\ line \in Seq(Bytes)

\* Whatever bytes arrive, the 8-bit position never wraps and never outruns the
\* frame it belongs to: memcpy copies exactly the bytes that were received.
PositionInFrame ==
  /\ rx_pos = Len(rx_buf)
  /\ rx_header_received => rx_pos < rx_expected /\ rx_pos >= 1
  /\ Len(rx_frame) <= UART_RX_BUF_SIZE

\* Whatever bytes arrive, a delivered frame is as long as its first byte says, so
\* pa_cmd_parse() never finds it shorter than that.
DeliveredSelfConsistent ==
  /\ rx_frame_len # 0 => rx_frame[1] + 1 = rx_frame_len
  /\ \A i \in 1 .. Len(delivered) : delivered[i][1] + 1 = Len(delivered[i])

\* A request is data only as far as its frame goes: an accepted data length never
\* reaches past the bytes received.
AcceptedDataInFrame ==
  (/\ rx_frame_len # 0
   /\ ParseResult(rx_frame, rx_frame_len) = 0
   /\ OpCode(rx_frame) = DATA_SEND_REQ) => 4 + DataLength(rx_frame) <= rx_frame_len

\* A frame as the PC is told to build it: its first byte counts those that follow.
WellFormed(f) == Len(f) > 1 /\ Len(f) = f[1] + 1

\* As long as the PC sends well-formed frames, receiver and sender agree on where a frame
\* begins: once the line is quiet, what was delivered is what was sent, frame by frame.
FramesIntact ==
  (line = << >> /\ \A i \in 1 .. Len(sent) : WellFormed(sent[i])) => delivered = sent
=============================================================================
