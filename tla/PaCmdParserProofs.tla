------------------------- MODULE PaCmdParserProofs -------------------------
(* Lemmas about the stateless parser and the frame buffer, for every width of  *)
(* a byte and every PA_MAX_DATA_SIZE that pa_protocol.h could define.          *)
EXTENDS PaCmdParser, SequenceTheorems, TLAPS

LEMMA BytesAreNaturals == Bytes \subseteq Nat
  BY ParserAssumption DEF Bytes

\* A sum that fits in a uint8_t is not changed by the cast.
LEMMA SmallMod == ASSUME NEW n \in Nat, NEW m \in Nat, n < m PROVE n % m = n
  OBVIOUS

\* An accepted PA Data Send Request announces no more payload than its frame
\* holds: the 8-bit sum in pa_cmd_parse() cannot wrap.
LEMMA ParsedDataInFrame ==
  ASSUME NEW buf \in Seq(Bytes), NEW len \in 0 .. Len(buf),
         ParseResult(buf, len) = 0, OpCode(buf) = DATA_SEND_REQ
  PROVE  /\ 4 + DataLength(buf) <= len
         /\ AdvSid(buf) \in Bytes
         /\ DataLength(buf) \in 0 .. PA_MAX_DATA_SIZE
<1> USE ParserAssumption DEF Bytes
<1>1. /\ len >= 2
      /\ buf[1] + 1 <= len
      /\ ~BadSendLength(buf)
  <2>1. len \in Nat /\ Len(buf) \in Nat
    OBVIOUS
  <2>2. len >= 2
    BY <2>1 DEF ParseResult
  <2>3. buf[1] \in Bytes /\ buf[2] \in Bytes
    BY <2>1, <2>2
  <2>4. buf[1] + 1 <= len
    BY <2>1, <2>2, <2>3 DEF ParseResult
  <2>5. ~BadSendLength(buf)
    BY <2>1, <2>2, <2>3, <2>4 DEF ParseResult, OpCode, DATA_SEND_REQ, STATUS_GET_REQ
  <2> QED BY <2>2, <2>4, <2>5
<1>2. buf[1] \in Nat /\ buf[1] >= 3 /\ Len(buf) >= 4
  BY <1>1 DEF BadSendLength
<1>3. buf[3] \in Bytes /\ buf[4] \in Bytes
  BY <1>2
<1>4. buf[4] <= PA_MAX_DATA_SIZE /\ ~(buf[1] < (3 + buf[4]) % BYTE)
  <2>1. ~(buf[4] > PA_MAX_DATA_SIZE) /\ ~(buf[1] < (3 + buf[4]) % BYTE)
    BY <1>1, Zenon DEF BadSendLength, DataLength
  <2>2. PA_MAX_DATA_SIZE \in Nat /\ buf[4] \in Nat
    BY <1>3
  <2>3. buf[4] <= PA_MAX_DATA_SIZE
    BY <2>1, <2>2
  <2> QED BY <2>1, <2>3, Zenon
<1>5. (3 + buf[4]) % BYTE = 3 + buf[4]
  <2>1. 3 + buf[4] \in Nat /\ BYTE \in Nat /\ 3 + buf[4] < BYTE
    <3>1. /\ PA_MAX_DATA_SIZE \in Nat /\ BYTE \in Nat /\ PA_MAX_DATA_SIZE + 3 < BYTE
          /\ buf[4] \in Nat /\ buf[4] <= PA_MAX_DATA_SIZE
      BY <1>3, <1>4
    <3> QED BY ONLY <3>1
  <2> QED BY <2>1, SmallMod, Zenon
<1>6. 4 + buf[4] <= len
  <2>1. /\ buf[1] \in Nat /\ buf[4] \in Nat /\ len \in Nat
        /\ buf[1] + 1 <= len /\ ~(buf[1] < 3 + buf[4])
    BY <1>1, <1>2, <1>3, <1>4, <1>5
  <2> QED BY ONLY <2>1
<1> QED BY <1>3, <1>4, <1>6 DEF DataLength, AdvSid

\* The payload lies inside the array, so the copy is a byte sequence of its length.
LEMMA PayloadType ==
  ASSUME NEW buf \in Seq(Bytes), NEW n \in Nat, 4 + n <= Len(buf)
  PROVE  Payload(buf, n) \in Seq(Bytes)
<1>1. \A i \in 5 .. 4 + n : buf[i] \in Bytes
  OBVIOUS
<1> QED BY <1>1, SubSeqProperties DEF Payload

\* Copying a frame over the array replaces a prefix and never shortens it.
LEMMA OverlayExact ==
  ASSUME NEW f \in Seq(Bytes), NEW old \in Seq(Bytes)
  PROVE  LET new == f \o SubSeq(old, Len(f) + 1, Len(old))
         IN  /\ new \in Seq(Bytes)
             /\ Len(new) = IF Len(f) >= Len(old) THEN Len(f) ELSE Len(old)
             /\ f # << >> => new[1] = f[1]
             /\ \A i \in 1 .. Len(f) : new[i] = f[i]
<1> DEFINE rest == SubSeq(old, Len(f) + 1, Len(old))
<1>1. \A i \in Len(f) + 1 .. Len(old) : old[i] \in Bytes
  OBVIOUS
<1>2. /\ rest \in Seq(Bytes)
      /\ Len(rest) = IF Len(f) + 1 <= Len(old) THEN Len(old) - Len(f) ELSE 0
  BY <1>1, SubSeqProperties
<1>3. /\ Len(f \o rest) = Len(f) + Len(rest) /\ f \o rest \in Seq(Bytes)
      /\ \A i \in 1 .. Len(f) : (f \o rest)[i] = f[i]
  BY <1>2, ConcatProperties
<1>4. f # << >> => 1 \in 1 .. Len(f)
  OBVIOUS
<1> QED BY <1>2, <1>3, <1>4

LEMMA OverlayType ==
  ASSUME NEW f \in Seq(Bytes), NEW old \in Seq(Bytes)
  PROVE  LET new == f \o SubSeq(old, Len(f) + 1, Len(old))
         IN  /\ new \in Seq(Bytes)
             /\ Len(f) <= Len(new)
             /\ Len(old) <= Len(new)
             /\ \A i \in 1 .. Len(f) : new[i] = f[i]
  BY OverlayExact

\* Two arrays that agree as far as the payload goes hold the same payload.
LEMMA SamePayload ==
  ASSUME NEW a \in Seq(Bytes), NEW b \in Seq(Bytes), NEW n \in Nat,
         4 + n <= Len(a), 4 + n <= Len(b), \A i \in 1 .. 4 + n : a[i] = b[i]
  PROVE  Payload(a, n) = Payload(b, n)
<1>1. /\ Payload(a, n) \in Seq(Bytes) /\ Payload(b, n) \in Seq(Bytes)
      /\ Len(Payload(a, n)) = n /\ Len(Payload(b, n)) = n
      /\ \A i \in 1 .. n : Payload(a, n)[i] = a[i + 4] /\ Payload(b, n)[i] = b[i + 4]
  <2>1. /\ \A i \in 5 .. 4 + n : a[i] \in Bytes
        /\ \A i \in 5 .. 4 + n : b[i] \in Bytes
    OBVIOUS
  <2> QED BY <2>1, SubSeqProperties DEF Payload
<1>2. \A i \in 1 .. n : Payload(a, n)[i] = Payload(b, n)[i]
  BY <1>1
<1> QED BY <1>1, <1>2, SeqEqual

\* A response to a request is three bytes.
LEMMA DataSendRspType ==
  ASSUME NEW r \in Results
  PROVE  /\ DataSendRsp(r) \in Seq(Nat) /\ Len(DataSendRsp(r)) = 3
         /\ DataSendRsp(r)[2] = DATA_SEND_RSP /\ DataSendRsp(r)[3] = r
  BY DEF DataSendRsp, Results, DATA_SEND_RSP, PA_RESULT_SUCCESS, PA_RESULT_BUSY,
         PA_RESULT_INVALID_SID, PA_RESULT_DATA_TOO_LARGE, PA_RESULT_NOT_READY
=============================================================================
