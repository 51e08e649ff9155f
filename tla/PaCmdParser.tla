---------------------------- MODULE PaCmdParser ----------------------------
(* The stateless core of the UART protocol (src/core/pa_cmd_parser.c,          *)
(* pa_protocol.h). A frame is the sequence of its bytes, indexed from 1 where  *)
(* the C buffer is indexed from 0:                                             *)
(*   <<Command_Length, OpCode, payload...>>                                    *)
(* "buf" is the receive array and "len" the number of bytes the caller says    *)
(* are valid: the parser is handed a pointer and a length, and the two can     *)
(* disagree when the array is overwritten meanwhile.                           *)
EXTENDS Integers, Sequences

CONSTANTS PA_MAX_DATA_SIZE,   \* 252 in pa_protocol.h
          BYTE                \* the number of values of a uint8_t, 256

\* 3 + data_length is cast to uint8_t before it is compared: 252 + 3 < 256.
ASSUME ParserAssumption ==
  /\ BYTE \in Nat
  /\ PA_MAX_DATA_SIZE \in Nat
  /\ PA_MAX_DATA_SIZE + 3 < BYTE

Bytes == 0 .. (BYTE - 1)

STATUS_GET_REQ     == 0
STATUS_GET_RSP     == 1
DATA_SEND_REQ      == 16
DATA_SEND_RSP      == 17
DATA_SEND_COMPLETE == 18

PA_RESULT_SUCCESS        == 0
PA_RESULT_BUSY           == 1
PA_RESULT_INVALID_SID    == 2
PA_RESULT_DATA_TOO_LARGE == 3
PA_RESULT_NOT_READY      == 4

Results == {PA_RESULT_SUCCESS, PA_RESULT_BUSY, PA_RESULT_INVALID_SID,
            PA_RESULT_DATA_TOO_LARGE, PA_RESULT_NOT_READY}

OpCode(buf)     == buf[2]
AdvSid(buf)     == buf[3]
DataLength(buf) == buf[4]

\* Mutant: the announced payload is not compared with the command's length.
BadSendLengthOfDataOnly(buf) == buf[1] < 3 \/ DataLength(buf) > PA_MAX_DATA_SIZE

\* cmd_length < 3, too much data, or less payload than data_length announces.
BadSendLength(buf) ==
  \/ buf[1] < 3
  \/ DataLength(buf) > PA_MAX_DATA_SIZE
  \/ buf[1] < (3 + DataLength(buf)) % BYTE

\* What pa_cmd_parse() returns: 0, or the error of the first check that fails.
ParseResult(buf, len) ==
  CASE len < 2          -> -1
    [] len >= 2 /\ buf[1] + 1 > len -> -2
    [] len >= 2 /\ buf[1] + 1 <= len ->
         CASE OpCode(buf) = STATUS_GET_REQ -> 0
           [] OpCode(buf) = DATA_SEND_REQ  -> IF BadSendLength(buf) THEN -2 ELSE 0
           [] OTHER                        -> -3

\* memcpy(payload->data, &buf[4], data_length): whatever the array holds now.
Payload(buf, data_length) == SubSeq(buf, 5, 4 + data_length)

\* The serializers: the bytes handed to uart->send().
StatusGetRsp(sids, available) ==
  <<2 + 2 * Len(sids), STATUS_GET_RSP, Len(sids)>> \o sids \o available

DataSendRsp(result) == <<2, DATA_SEND_RSP, result>>

DataSendComplete == <<1, DATA_SEND_COMPLETE>>
=============================================================================
